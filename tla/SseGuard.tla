------------------------------ MODULE SseGuard ------------------------------
(***************************************************************************)
(* LLMRouter._intercept_sse (app/services/router.py): the bytes one        *)
(* provider streams are scanned for markers and relayed event by event.    *)
(*                                                                         *)
(* Bytes are symbols.  "d" opens a data line with a delta in it and "e"    *)
(* closes it; the delta's text is what stands between.  "n" is a newline,  *)
(* two of them end an event.  A marker is "m", any number of fillers and   *)
(* "k", as the patterns are of any length: <tool ...> or ignore ...        *)
(* previous ...                                                            *)
(***************************************************************************)
EXTENDS Naturals, SequencesExt

CONSTANTS
  Symbols,      \* the alphabet, which has the symbols above
  Filler,       \* what a marker may have in the middle
  Streams,      \* what a provider may have to say
  MaxTail,      \* sse_scan_tail_bytes: how much is scanned again
  MaxPending    \* max_pending: how long an event may be

ASSUME GuardAssumption ==
  /\ {"d", "e", "n", "m", "k"} \subseteq Symbols
  /\ Filler \subseteq Symbols
  /\ Streams \subseteq Seq(Symbols)
  /\ MaxTail \in Nat \ {0}
  /\ MaxPending \in Nat \ {0}

VARIABLES
  whole,         \* all that the provider is going to say
  read,          \* how much of it has arrived
  pending,       \* what has arrived and was not released
  releasedTail,  \* the end of what was released
  decodedTail,   \* the end of the decoded text of what was released
  released       \* what was yielded to the client (history)

guardVars == <<whole, read, pending, releasedTail, decodedTail, released>>

-----------------------------------------------------------------------------
\* Where in s the events end: right after two newlines.
Boundaries(s) == {i \in 2..Len(s) : s[i - 1] = "n" /\ s[i] = "n"}

\* Line from..to of s is a whole data line.
IsDataLine(s, from, to) ==
  /\ from < to /\ s[from] = "d" /\ s[to] = "e"
  /\ from = 1 \/ s[from - 1] = "n"
  /\ to = Len(s) \/ s[to + 1] = "n"
  /\ \A i \in from..to : s[i] # "n"

\* Symbol i of s stands within a whole data line.
Carried(s, i) ==
  \E from \in 1..(i - 1), to \in (i + 1)..Len(s) : IsDataLine(s, from, to)

\* The decoded text: what the whole data lines of s carry, put together.
Decoded(s) ==
  LET text[i \in 0..Len(s)] ==
        IF i = 0 THEN <<>>
        ELSE IF Carried(s, i) THEN Append(text[i - 1], s[i]) ELSE text[i - 1]
  IN text[Len(s)]

\* What stands from i to j in s is a marker.
MarkerAt(s, i, j) ==
  i < j /\ s[i] = "m" /\ s[j] = "k" /\ \A l \in (i + 1)..(j - 1) : s[l] \in Filler
HasMarker(s) == \E i, j \in 1..Len(s) : MarkerAt(s, i, j)

\* Mutant: the tail is not cut to its length.
WholeTail(s) == s
Tailed(s) == SubSeq(s, IF Len(s) > MaxTail THEN Len(s) - MaxTail + 1 ELSE 1, Len(s))

\* Mutant: no more of the window is scanned than the tail is long.
UnsafeInTail(ready) ==
  \/ HasMarker(Tailed(releasedTail \o ready))
  \/ HasMarker(Tailed(decodedTail \o Decoded(ready)))
\* Mutant: only the bytes are scanned, not the text they carry.
UnsafeBytes(ready) == HasMarker(releasedTail \o ready)
\* Mutant: the bytes are scanned without what was released before.
UnsafeAlone(ready) ==
  HasMarker(ready) \/ HasMarker(decodedTail \o Decoded(ready))
Unsafe(ready) ==
  \/ HasMarker(releasedTail \o ready)
  \/ HasMarker(decodedTail \o Decoded(ready))

\* Mutant: up to the first boundary, not to the last.
FirstCut(s) ==
  IF Boundaries(s) # {} THEN CHOOSE i \in Boundaries(s) : \A j \in Boundaries(s) : i <= j
  ELSE IF Len(s) >= MaxPending THEN Len(s) ELSE 0
\* How much of s is ready: its complete events, or all when it is too long.
Cut(s) ==
  IF Boundaries(s) # {} THEN CHOOSE i \in Boundaries(s) : \A j \in Boundaries(s) : i >= j
  ELSE IF Len(s) >= MaxPending THEN Len(s) ELSE 0

-----------------------------------------------------------------------------
\* Mutant: the decoded tail of the stream before is kept.
OpenKeepingTail ==
  /\ whole' \in Streams
  /\ read' = 0
  /\ pending' = <<>> /\ releasedTail' = <<>> /\ released' = <<>>
  /\ UNCHANGED decodedTail
\* The generator is created over a provider's response.
Open ==
  /\ whole' \in Streams
  /\ read' = 0
  /\ pending' = <<>> /\ releasedTail' = <<>> /\ decodedTail' = <<>>
  /\ released' = <<>>

\* n symbols arrive, and ready(n) is what they complete.
Arrived(n) == pending \o SubSeq(whole, read + 1, read + n)
Arrives(n) == n \in 1..(Len(whole) - read) /\ read' = read + n
Ready(n) == SubSeq(Arrived(n), 1, Cut(Arrived(n)))
\* Mutant: what is ready stays pending.
RestAll(n) == Arrived(n)
Rest(n) == SubSeq(Arrived(n), Cut(Arrived(n)) + 1, Len(Arrived(n)))

\* No event is complete.
Hold(n) ==
  /\ Arrives(n)
  /\ Cut(Arrived(n)) = 0
  /\ pending' = Arrived(n)
  /\ UNCHANGED <<whole, releasedTail, decodedTail, released>>

\* What is ready is safe, and is yielded.
Release(n) ==
  /\ Arrives(n)
  /\ Cut(Arrived(n)) > 0 /\ ~Unsafe(Ready(n))
  /\ pending' = Rest(n)
  /\ releasedTail' = Tailed(releasedTail \o Ready(n))
  /\ decodedTail' = Tailed(decodedTail \o Decoded(Ready(n)))
  /\ released' = released \o Ready(n)
  /\ UNCHANGED whole

\* Mutant: the loop is left, and what is pending is flushed after the error.
TripAndFlush(n) ==
  /\ Arrives(n)
  /\ Cut(Arrived(n)) > 0 /\ Unsafe(Ready(n))
  /\ pending' = <<>>
  /\ released' = released \o Rest(n)
  /\ UNCHANGED <<whole, releasedTail, decodedTail>>
\* What is ready has a marker in it: it is dropped, with all that follows.
Trip(n) ==
  /\ Arrives(n)
  /\ Cut(Arrived(n)) > 0 /\ Unsafe(Ready(n))
  /\ pending' = Rest(n)
  /\ UNCHANGED <<whole, releasedTail, decodedTail, released>>

AtEnd == read = Len(whole)

\* Mutant: what was not closed by a boundary is lost.
FinishDropping ==
  /\ AtEnd /\ ~Unsafe(pending)
  /\ UNCHANGED guardVars
\* The stream is over and what is left of it is safe.
Finish ==
  /\ AtEnd /\ (pending # <<>> => ~Unsafe(pending))
  /\ released' = released \o pending
  /\ UNCHANGED <<whole, read, pending, releasedTail, decodedTail>>

\* The stream is over and what is left of it has a marker.
TripAtEnd ==
  /\ AtEnd /\ pending # <<>> /\ Unsafe(pending)
  /\ UNCHANGED guardVars

GuardInit ==
  /\ whole = <<>> /\ read = 0 /\ pending = <<>>
  /\ releasedTail = <<>> /\ decodedTail = <<>> /\ released = <<>>

GuardTypeOK ==
  /\ whole \in {<<>>} \cup Streams /\ read \in 0..Len(whole)
  /\ pending \in Seq(Symbols) /\ released \in Seq(Symbols)
  /\ releasedTail \in Seq(Symbols) /\ Len(releasedTail) <= MaxTail
  /\ decodedTail \in Seq(Symbols) /\ Len(decodedTail) <= MaxTail

-----------------------------------------------------------------------------
\* No event of s is so long that it is cut before it is complete.
Uncut(s) ==
  \A i \in 1..(Len(s) - MaxPending + 1) :
    Boundaries(SubSeq(s, i, i + MaxPending - 1)) # {}

\* The markers in s are too long for the tail to hold all but their last symbol.
OnlyLongMarkers(s) == \A i, j \in 1..Len(s) : MarkerAt(s, i, j) => j - i > MaxTail

\* No marker reaches the client in the bytes of one provider, however they are
\* chunked and cut, if the tail is long enough to hold its beginning (lines
\* 299-330).
NoMarkerInBytes == OnlyLongMarkers(released)

\* None reaches it in their decoded text either, whatever events it is spread
\* over, if the tail can hold its beginning and no event is so long that it had
\* to be cut (lines 37-46, 320-330).
NoMarkerInText == Uncut(whole) => OnlyLongMarkers(Decoded(released))

\* A marker within one event never reaches the client, however long it is and
\* wherever the network splits it: one that is relayed goes on over the end of
\* an event (lines 299-304).
Split(s, i, j) == \E b \in Boundaries(s) : i <= b /\ b < j
NoMarkerInAnEvent ==
  Uncut(whole) =>
    \A i, j \in 1..Len(released) : MarkerAt(released, i, j) => Split(released, i, j)

\* What the client gets is what the provider sent, in order, nothing missing
\* and nothing twice (lines 313-318, 332-344).
ReleasedIsWhatArrived ==
  IsPrefix(released, whole) /\ Len(released) <= read

\* No complete event waits for a later one (lines 314-318).
NoEventWaits == Boundaries(pending) = {}
=============================================================================
