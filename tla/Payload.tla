------------------------------- MODULE Payload -------------------------------
(***************************************************************************)
(* What is made of the body of a chat request: its validation              *)
(* (app/main.py), the estimate that is charged for it                      *)
(* (app/services/rate_limiter.py), its compaction to the tenant's          *)
(* max_input_tokens and its translation for Anthropic                      *)
(* (app/services/router.py).                                               *)
(*                                                                         *)
(* A text is the number of its characters; quotes, brackets and escapes    *)
(* are left out.  A body has a sequence of messages, or none of that name, *)
(* and may have a prompt.  A message has a role, a content and other       *)
(* members, such as tool_calls.  A content is a list of parts, each with a *)
(* text, if it is only the empty one, and other members, such as its type  *)
(* or an image.  A string is the one part, which is bare; null is a bare   *)
(* part of four characters, as which Python writes None and JSON null; and *)
(* a content that is missing has no parts.                                 *)
(***************************************************************************)
EXTENDS Naturals, Sequences

CONSTANTS
  MaxInput,    \* max_input_tokens of the tenant
  Frame,       \* the characters of a message in JSON, beyond its content
  RoleChars,   \* those of its role: system has six
  Absent       \* a member a body has not

\* The roles that are told apart: tool stands for any other, blank for none.
Roles == {"system", "user", "assistant", "tool", "blank"}
\* A message and a body, as far as JSON and types go.
Part == [text : Nat, beside : Nat]
Message == [role : Roles, content : Seq(Part), beside : Nat]
ChatBody == [messages : {Absent} \cup Seq(Message), prompt : {Absent} \cup Nat,
             stream : BOOLEAN]

ASSUME PayloadAssumption ==
  /\ MaxInput \in Nat \ {0}
  /\ Frame \in Nat /\ RoleChars \in 2..Frame
  /\ Absent \notin Nat \cup Seq(Message)

Providers == {"openai", "anthropic", "local"}

\* What a loop over s collects: its elements at the positions in at.
Picked(s, at) ==
  LET picked[i \in 0..Len(s)] ==
        IF i = 0 THEN <<>>
        ELSE IF i \in at THEN Append(picked[i - 1], s[i]) ELSE picked[i - 1]
  IN picked[Len(s)]

Total(s) ==
  LET total[i \in 0..Len(s)] == IF i = 0 THEN 0 ELSE total[i - 1] + s[i]
  IN total[Len(s)]

Chars(s, f(_)) == Total([i \in DOMAIN s |-> f(s[i])])

\* The characters of a content, and of its message without role and frame.
PartChars(p) == p.text + p.beside
Content(m) == Chars(m.content, PartChars) + m.beside

\* _validate_chat_payload.
Valid(b) ==
  IF b.messages = Absent THEN b.prompt # Absent
  ELSE b.messages # <<>> /\ \A i \in DOMAIN b.messages : b.messages[i].role # "blank"

-----------------------------------------------------------------------------
\* Mutant: tokens are rounded down.
InTokensBelow(chars) == chars \div 4
InTokens(chars) == (chars + 3) \div 4

\* estimate_prompt_tokens.
ValueChars(m) == RoleChars + Content(m)
Estimate(b) ==
  LET tokens == InTokens(IF b.messages = Absent THEN b.prompt
                       ELSE Chars(b.messages, ValueChars))
  IN IF tokens = 0 THEN 1 ELSE tokens

-----------------------------------------------------------------------------
\* The system messages of a conversation, and all others.
System(s) == {i \in DOMAIN s : s[i].role = "system"}
Spoken(s) == DOMAIN s \ System(s)
Size(m) == Frame + Content(m)
Budget == MaxInput * 4

\* Mutant: a message that does not fit is left out, and older ones are tried.
KeepSkipping(m, kept, room) ==
  IF kept.full \/ (room < kept.used + Size(m) /\ kept.messages # <<>>) THEN kept
  ELSE [kept EXCEPT !.messages = <<m>> \o @, !.used = @ + Size(m)]
\* One turn of the loop from the newest message to the oldest.
Keep(m, kept, room) ==
  IF kept.full \/ (room < kept.used + Size(m) /\ kept.messages # <<>>)
  THEN [kept EXCEPT !.full = TRUE]
  ELSE [kept EXCEPT !.messages = <<m>> \o @, !.used = @ + Size(m)]

\* The walk over what was said, with used characters taken already.
Walk(spoken, used) ==
  LET kept[n \in 0..Len(spoken)] ==
        IF n = 0 THEN [messages |-> <<>>, used |-> used, full |-> FALSE]
        ELSE Keep(spoken[Len(spoken) - n + 1], kept[n - 1], Budget)
  IN kept[Len(spoken)].messages

\* _compact_payload: every system message, and the end of the rest.
Compacted(b) ==
  IF b.messages = Absent THEN b
  ELSE LET system == Picked(b.messages, System(b.messages))
           spoken == Picked(b.messages, Spoken(b.messages))
       IN [b EXCEPT !.messages = system \o Walk(spoken, Chars(system, Size))]

-----------------------------------------------------------------------------
\* Python's join: the texts that are not empty, with a gap between each two.
Joined(texts, gap) ==
  LET used == Picked(texts, {i \in DOMAIN texts : texts[i] > 0})
      behind(n) == n + gap
  IN IF used = <<>> THEN 0 ELSE Chars(used, behind) - gap

\* _stringify_content: the text of each part on a line.
Text(m) == Joined([i \in DOMAIN m.content |-> m.content[i].text], 1)

\* _to_anthropic_payload: the system messages are one text apart, a blank line
\* between each two, and everybody but the assistant is the user.  What stands
\* beside a text is dropped.  Without messages the prompt is what the user says.
ToAnthropic(b) ==
  LET messages == IF b.messages = Absent THEN <<>> ELSE b.messages
      said(m) == [role |-> IF m.role = "assistant" THEN m.role ELSE "user",
                  content |-> Text(m)]
      spoken == Picked(messages, Spoken(messages))
      system == Picked(messages, System(messages))
  IN [system |-> Joined([i \in DOMAIN system |-> Text(system[i])], 2),
      messages |->
        IF spoken # <<>> THEN [i \in DOMAIN spoken |-> said(spoken[i])]
        ELSE <<[role |-> "user", content |-> IF b.prompt = Absent THEN 0 ELSE b.prompt]>>]

\* _payload_for_provider.
PayloadFor(p, b) ==
  IF p = "anthropic" THEN ToAnthropic(Compacted(b)) ELSE Compacted(b)
=============================================================================
