--------------------------- MODULE ChatCompletion ---------------------------
(***************************************************************************)
(* One POST /v1/chat/completions: the route (app/main.py) and the provider *)
(* loop of LLMRouter, with and without streaming (app/services/router.py). *)
(* Requests share nothing but the rate limiter and the HTTP client, so one *)
(* is enough.                                                              *)
(***************************************************************************)
EXTENDS SseGuard, Payload, FiniteSets

CONSTANTS
  Preference,  \* provider_preference of the tenant
  Bodies       \* what clients send, as far as JSON and types go

ASSUME ChatAssumption ==
  /\ Preference \in Seq(Providers)
  /\ Bodies \subseteq ChatBody

Turns == Len(Preference)

VARIABLES
  body,      \* the payload
  tokens,    \* estimated_tokens: what the limiter is asked for
  paid,      \* what the limiter has charged (history)
  turn,      \* which provider of the preference it is the turn of
  verdict,   \* per turn: what the provider did (history)
  sources,   \* the turns whose bytes the client has been sent (history)
  pc         \* where the request is, or how it ended

routerVars == <<body, tokens, paid, turn, verdict, sources>>
vars == <<guardVars, routerVars, pc>>

\* A connection or timeout error, 429 or 5xx, another error status, a body
\* that is not JSON, a stream that breaks off, a rejection of a stream whose
\* body breaks off.
Transient == {"error", "exhausted", "refused", "garbled", "broken", "cut off"}
Verdicts == Transient \cup {"rejected", "undecodable", "answered"}

\* 400, 503, 429, the upstream's own 4xx, 200, 500, 502; a stream that ended as
\* the provider ended it, or with a gateway_error event; a client that left.
Ended == {"invalid", "no limiter", "over quota", "rejected", "answer", "crash",
          "unavailable", "done", "marker", "gone"}

-----------------------------------------------------------------------------
\* The body is no JSON object, or a member has another type than it must have.
Unreadable ==
  /\ pc = "new"
  /\ pc' = "invalid"
  /\ UNCHANGED <<guardVars, routerVars>>

\* Mutant: the limiter is not asked.
ReceiveUnlimited ==
  /\ pc = "new"
  /\ body' \in Bodies
  /\ \/ Valid(body') /\ tokens' = Estimate(body') /\ pc' = "ask"
     \/ ~Valid(body') /\ tokens' = tokens /\ pc' = "invalid"
  /\ UNCHANGED <<guardVars, paid, turn, verdict, sources>>
\* The body is read.  If it is valid the limiter is asked for its tokens.
Receive ==
  /\ pc = "new"
  /\ body' \in Bodies
  /\ \/ Valid(body') /\ tokens' = Estimate(body') /\ pc' = "limiter"
     \/ ~Valid(body') /\ tokens' = tokens /\ pc' = "invalid"
  /\ UNCHANGED <<guardVars, paid, turn, verdict, sources>>

\* Redis fails, before or after the script has charged the request.
NoLimiter ==
  /\ pc = "limiter"
  /\ pc' = "no limiter"
  /\ paid' \in {paid, paid + tokens}
  /\ UNCHANGED <<guardVars, body, tokens, turn, verdict, sources>>

OverQuota ==
  /\ pc = "limiter"
  /\ pc' = "over quota"
  /\ UNCHANGED <<guardVars, routerVars>>

Admitted ==
  /\ pc = "limiter"
  /\ pc' = "ask"
  /\ paid' = paid + tokens
  /\ UNCHANGED <<guardVars, body, tokens, turn, verdict, sources>>

\* It is the turn of a provider that is there.
Asking == pc = "ask" /\ turn <= Turns
Judge(v) == verdict' = [verdict EXCEPT ![turn] = v]

\* Mutant: what a provider rejects is tried on the next as well.
RetryRejected ==
  {"error", "exhausted", "refused", "rejected"} \cup IF body.stream THEN {} ELSE {"garbled"}
\* What is tried on the next provider.
Retryable ==
  {"error", "exhausted", "refused"} \cup IF body.stream THEN {} ELSE {"garbled"}

\* Mutant: the same provider is tried again.
SameTurn == turn' = turn
NextTurn == turn' = turn + 1

\* The provider cannot serve the request, and the next is tried after a pause.
FailOver ==
  /\ Asking
  /\ \E v \in Retryable : Judge(v)
  /\ NextTurn
  /\ UNCHANGED <<guardVars, body, tokens, paid, sources, pc>>

\* The provider says that the request is wrong: 400, 413 or 422.  Of a stream
\* the body is still to be read; otherwise it came with the status.
Reject ==
  /\ Asking
  /\ Judge("rejected")
  /\ pc' = IF body.stream THEN "rejecting" ELSE "rejected"
  /\ UNCHANGED <<guardVars, body, tokens, paid, turn, sources>>

\* The body of the rejection is read, and the client is told.
PassOn ==
  /\ pc = "rejecting"
  /\ pc' = "rejected"
  /\ UNCHANGED <<guardVars, routerVars>>

\* The connection breaks or times out before that: what was rejected is tried
\* on the next provider.
CutOff ==
  /\ pc = "rejecting"
  /\ Judge("cut off")
  /\ NextTurn
  /\ pc' = "ask"
  /\ UNCHANGED <<guardVars, body, tokens, paid, sources>>

\* A JSON answer.
Answer ==
  /\ Asking /\ ~body.stream
  /\ Judge("answered")
  /\ pc' = "answer"
  /\ UNCHANGED <<guardVars, body, tokens, paid, turn, sources>>

\* A body that is not even text: UnicodeDecodeError, which nobody catches.
Undecodable ==
  /\ Asking /\ ~body.stream
  /\ Judge("undecodable")
  /\ pc' = "crash"
  /\ UNCHANGED <<guardVars, body, tokens, paid, turn, sources>>

\* Every provider was tried.
GiveUp ==
  /\ pc = "ask" /\ turn > Turns
  /\ pc' = "unavailable"
  /\ UNCHANGED <<guardVars, routerVars>>

\* The provider begins to stream.
Begin ==
  /\ Asking /\ body.stream
  /\ Open
  /\ pc' = "relay"
  /\ UNCHANGED routerVars

Source == sources' = sources \cup IF released' = released THEN {} ELSE {turn}

\* A chunk arrives: nothing, an event or more, or a marker comes of it.
Chunk ==
  /\ pc = "relay"
  /\ \E n \in 1..Len(whole) : \/ Hold(n) /\ pc' = pc
                              \/ Release(n) /\ pc' = pc
                              \/ Trip(n) /\ pc' = "marker"
  /\ Source
  /\ UNCHANGED <<body, tokens, paid, turn, verdict>>

\* The provider closes the stream.
EndOfStream ==
  /\ pc = "relay"
  /\ \/ Finish /\ Judge("answered") /\ pc' = "done"
     \/ TripAtEnd /\ pc' = "marker" /\ UNCHANGED verdict
  /\ Source
  /\ UNCHANGED <<body, tokens, paid, turn>>

\* The connection breaks or times out: what is pending is dropped, and the
\* next provider is tried.
Break ==
  /\ pc = "relay"
  /\ Judge("broken")
  /\ NextTurn
  /\ pc' = "ask"
  /\ UNCHANGED <<guardVars, body, tokens, paid, sources>>

\* The client hangs up.
Disconnect ==
  /\ pc \notin Ended
  /\ pc' = "gone"
  /\ UNCHANGED <<guardVars, routerVars>>

Init ==
  /\ GuardInit
  /\ body = [messages |-> Absent, prompt |-> Absent, stream |-> FALSE]
  /\ tokens = 0 /\ paid = 0
  /\ turn = 1
  /\ verdict = [i \in 1..Turns |-> "none"]
  /\ sources = {}
  /\ pc = "new"

Upstream ==
  FailOver \/ Reject \/ PassOn \/ CutOff \/ Answer \/ Undecodable \/ GiveUp
    \/ Begin \/ Chunk \/ EndOfStream \/ Break
Next ==
  \/ Unreadable \/ Receive \/ NoLimiter \/ OverQuota \/ Admitted
  \/ Upstream \/ Disconnect

Spec == Init /\ [][Next]_vars

\* A provider answers or httpx times out, what it streams has an end, and the
\* client reads it or hangs up: so something comes of every request to one.
\* Nothing is assumed of the limiter, whose client has no timeout.
FairSpec == Spec /\ WF_vars(Upstream)

-----------------------------------------------------------------------------
\* The values of every variable.
TypeOK ==
  /\ GuardTypeOK
  /\ body \in ChatBody
  /\ tokens \in Nat /\ paid \in Nat
  /\ turn \in 1..(Turns + 1)
  /\ verdict \in [1..Turns -> Verdicts \cup {"none"}]
  /\ sources \subseteq 1..Turns
  /\ pc \in {"new", "limiter", "ask", "rejecting", "relay"} \cup Ended

\* The client is told of a failure only for a reason: 502 or the event
\* upstream_unavailable if each provider failed in a way that was worth a try
\* elsewhere, and a rejection if the last one asked rejected the request.
\* Whoever rejected or answered it was the last to be asked; but a stream's
\* rejection goes on to the next provider if its body breaks off (lines 161-221,
\* 232-290; 92-95 has it "returned to the caller as-is").
FailureIsTrue ==
  /\ pc = "unavailable" => \A i \in 1..Turns : verdict[i] \in Transient
  /\ pc = "rejected" => verdict[turn] = "rejected"
  /\ \A i \in 1..Turns :
       /\ verdict[i] \notin Transient => \A j \in (i + 1)..Turns : verdict[j] = "none"
       /\ verdict[i] = "cut off" => body.stream

\* A stream is terminated only for a marker its provider did send, unless an
\* event of it had to be cut (lines 319-328).
MarkerIsReal ==
  pc = "marker" /\ Uncut(whole) =>
    LET got == SubSeq(whole, 1, read) IN HasMarker(got) \/ HasMarker(Decoded(got))

\* A stream that ended well was relayed to its last byte (lines 333-344).
DoneIsComplete == pc = "done" => released = whole

\* After the event that was found unsafe nothing of the stream is relayed, and
\* nothing comes after the end of a response (lines 324-328, 268-275).
NothingAfterTheEnd ==
  [][(pc \in Ended \/ pc' = "marker") => (released' = released)]_vars

\* A request that the limiter admitted is answered, whichever providers fail and
\* wherever they break off (lines 155-290).
AdmittedRequestEnds == (pc = "ask") ~> (pc \in Ended)

-----------------------------------------------------------------------------
\* Who has been asked, and what each was sent.
Asked == {i \in 1..Turns : verdict[i] # "none" \/ (pc = "relay" /\ i = turn)}
Sent(i) == PayloadFor(Preference[i], body)

\* Every provider that is asked is sent all system messages and then the end of
\* the conversation in its order: without a gap, without more than fits into
\* max_input_tokens beside the newest message, and without less (lines 387-411).
SentIsTheEnd ==
  \A i \in Asked : Preference[i] # "anthropic" /\ body.messages # Absent =>
    LET sent == Sent(i).messages
        system == Picked(body.messages, System(body.messages))
        spoken == Picked(body.messages, Spoken(body.messages))
        last(n) == system \o SubSeq(spoken, Len(spoken) - n + 1, Len(spoken))
        fits(n) == n = 1 \/ Chars(last(n), Size) <= Budget
    IN \E n \in 0..Len(spoken) :
         /\ sent = last(n)
         /\ n = 0 => spoken = <<>>
         /\ n > 0 => fits(n)
         /\ n < Len(spoken) => ~fits(n + 1)

\* Nobody is sent more of a conversation than the tenant was charged for,
\* whatever is dropped or translated; only Anthropic may be sent one newline
\* more for each part with nothing but its text.  A prompt beside messages is not
\* counted, and is sent to Anthropic where the messages are all system messages;
\* other members of the body are not counted either (rate_limiter.py:217-234,
\* router.py:387-458).
Bare(m) == Cardinality({j \in DOMAIN m.content : m.content[j].beside = 0})
SentIsCharged ==
  \A i \in Asked : body.messages = Absent \/ body.prompt = Absent =>
    LET sent == Sent(i)
        said(m) == m.content
    IN IF Preference[i] = "anthropic"
       THEN sent.system + Chars(sent.messages, said)
              <= 4 * tokens + IF body.messages = Absent THEN 0 ELSE Chars(body.messages, Bare)
       ELSE (IF sent.messages = Absent THEN sent.prompt
             ELSE Chars(sent.messages, ValueChars)) <= 4 * tokens

\* All that the client is sent comes from one provider (router.py:229).
OneProvider == Cardinality(sources) <= 1
=============================================================================
