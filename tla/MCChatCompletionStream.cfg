SPECIFICATION Spec
CONSTANTS
  Symbols <- Alphabet
  Filler <- Between
  Streams <- FewSayings
  MaxTail = 2
  MaxPending = 8
  Preference <- FirstThenAnthropic
  Bodies <- Prompts
  MaxInput = 3
  Frame = 2
  RoleChars = 2
  Absent = Absent
CHECK_DEADLOCK FALSE
INVARIANTS
  OneProvider
