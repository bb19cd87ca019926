SPECIFICATION GatewayFairSpec
CONSTANTS
  Symbols <- Alphabet
  Filler <- Between
  Streams <- Sayings
  MaxTail = 2
  MaxPending = 8
  Preference <- FirstThenAnthropic
  Bodies <- Payloads
  MaxInput = 3
  Frame = 2
  RoleChars = 2
  Absent = Absent
  alpha = alpha  beta = beta  stranger = stranger
  secretA = secretA  secretB = secretB  wrong = wrong
  s1 = "s1"  s2 = "s2"  s3 = "s3"
  Tenants = {alpha, beta}
  Strangers = {stranger}
  Secrets = {secretA, secretB, wrong}
  TokenOf <- TokenOfEach
  Servers = {"s1", "s2"}
  Policies = {beta}
  AllowedOf <- OnlyOne
  Requests <- Come
CHECK_DEADLOCK FALSE
INVARIANTS
  GatewayTypeOK
  NoMarkerInBytes
  NoMarkerInText
  NoMarkerInAnEvent
  ReleasedIsWhatArrived
  NoEventWaits
  FailureIsTrue
  MarkerIsReal
  DoneIsComplete
  SentIsTheEnd
  SentIsCharged
  ServedIsOwed
  RefusalReachesNobody
PROPERTIES
  NothingAfterTheEnd
  AdmittedRequestEnds
