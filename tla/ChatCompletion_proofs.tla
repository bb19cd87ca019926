------------------------- MODULE ChatCompletion_proofs -------------------------
(***************************************************************************)
(* Proofs about ChatCompletion and the SseGuard in it, for any symbols and *)
(* streams, any number of providers, and any length of tail and of what    *)
(* may be pending: the client is relayed exactly what the provider sent,   *)
(* and no marker in its bytes whose beginning the tail can hold.           *)
(***************************************************************************)
EXTENDS ChatCompletion, TLAPS, SequenceTheorems, WellFoundedInduction

-----------------------------------------------------------------------------
\* There is a number of providers.
LEMMA TurnsType == Turns \in Nat
BY ChatAssumption, LenProperties DEF Turns

\* A bounded set of naturals has a greatest element.
LEMMA GreatestExists ==
  ASSUME NEW n \in Nat, NEW B \in SUBSET (0..n), B # {}
  PROVE  \E i \in B : \A j \in B : i >= j
<1>. DEFINE T == {n - i : i \in B}
            R == OpToRel(<, Nat)
<1>0. \A i \in B : i \in Int /\ n - i \in Nat
  OBVIOUS
<1>1. T \subseteq Nat /\ T # {}
  BY <1>0
<1>2. IsWellFoundedOn(R, Nat)
  BY NatLessThanWellFounded
<1>3. PICK x \in T : \A y \in T : ~ (<<y, x>> \in R)
  <2>. HIDE DEF T, R
  <2>. QED  BY <1>1, <1>2, WFMin
<1>4. \A y \in T : ~ (y < x)
  BY <1>1, <1>3 DEF OpToRel
<1>5. PICK i \in B : x = n - i
  OBVIOUS
<1>6. \A j \in B : ~ (n - j < n - i)
  BY <1>4, <1>5
<1>7. \A j \in B : i >= j
  BY <1>0, <1>6
<1>. QED  BY <1>7

\* What holds of 0 and of each number after one it holds of holds up to n: an
\* induction over a set, by a least number that would not be in it.
LEMMA Upward ==
  ASSUME NEW n \in Nat, NEW S \in SUBSET (0..n), 0 \in S,
         \A i \in 1..n : i - 1 \in S => i \in S
  PROVE  \A i \in 0..n : i \in S
<1>. DEFINE T == (0..n) \ S
            R == OpToRel(<, Nat)
<1>1. CASE T = {}
  BY <1>1
<1>2. CASE T # {}
  <2>0. IsWellFoundedOn(R, Nat)
    BY NatLessThanWellFounded
  <2>1. T \subseteq Nat /\ IsWellFoundedOn(R, Nat)
    <3>. HIDE DEF R
    <3>. QED  BY <2>0
  <2>2. PICK x \in T : \A y \in T : ~ (<<y, x>> \in R)
    <3>. HIDE DEF T, R
    <3>. QED  BY <1>2, <2>1, WFMin
  <2>3. \A y \in T : ~ (y < x)
    BY <2>1, <2>2 DEF OpToRel
  <2>4. x \in 1..n /\ x - 1 \in 0..n /\ x - 1 < x
    OBVIOUS
  <2>5. x - 1 \in S
    BY <2>3, <2>4
  <2>. QED  BY <2>4, <2>5
<1>. QED  BY <1>1, <1>2

\* A cut is within what it cuts.
LEMMA CutIsWithin ==
  ASSUME NEW s \in Seq(Symbols)
  PROVE  Cut(s) \in 0..Len(s)
<1>1. Len(s) \in Nat
  BY LenProperties
<1>2. CASE Boundaries(s) = {}
  BY <1>1, <1>2 DEF Cut
<1>3. CASE Boundaries(s) # {}
  <2>1. Boundaries(s) \in SUBSET (0..Len(s))
    BY <1>1 DEF Boundaries
  <2>2. \E i \in Boundaries(s) : \A j \in Boundaries(s) : i >= j
    BY <1>1, <1>3, <2>1, GreatestExists
  <2>. QED  BY <1>3, <2>1, <2>2 DEF Cut
<1>. QED  BY <1>2, <1>3

\* A part of a sequence, element by element.
LEMMA PartOf ==
  ASSUME NEW s \in Seq(Symbols), NEW a \in Nat \ {0}, NEW b \in Nat, b <= Len(s), a <= b + 1
  PROVE  /\ SubSeq(s, a, b) \in Seq(Symbols)
         /\ Len(SubSeq(s, a, b)) = b - a + 1
         /\ \A i \in 1..(b - a + 1) : SubSeq(s, a, b)[i] = s[a + i - 1]
<1>1. \A i \in a..b : s[i] \in Symbols
  BY ElementOfSeq
<1>. QED  BY <1>1, SubSeqProperties

\* A tail is the end of what it is the tail of: all of it, or at least as much
\* as is kept.
TailOf(t, s) ==
  /\ Len(t) <= Len(s) /\ (Len(t) = Len(s) \/ Len(t) >= MaxTail)
  /\ \A i \in 1..Len(t) : t[i] = s[Len(s) - Len(t) + i]

LEMMA TailStays ==
  ASSUME NEW t \in Seq(Symbols), NEW s \in Seq(Symbols), NEW x \in Seq(Symbols), TailOf(t, s)
  PROVE  TailOf(t \o x, s \o x)
<1>. DEFINE tx == t \o x
            sx == s \o x
<1>0. MaxTail \in Nat \ {0}
  BY GuardAssumption
<1>1. /\ Len(t) \in Nat /\ Len(s) \in Nat /\ Len(x) \in Nat
      /\ Len(tx) = Len(t) + Len(x)
      /\ \A i \in 1..(Len(t) + Len(x)) : tx[i] = IF i <= Len(t) THEN t[i] ELSE x[i - Len(t)]
      /\ Len(sx) = Len(s) + Len(x)
      /\ \A i \in 1..(Len(s) + Len(x)) : sx[i] = IF i <= Len(s) THEN s[i] ELSE x[i - Len(s)]
  BY ConcatProperties, LenProperties
<1>. HIDE DEF tx, sx
<1>2. Len(tx) <= Len(sx) /\ (Len(tx) = Len(sx) \/ Len(tx) >= MaxTail)
  BY <1>0, <1>1 DEF TailOf
<1>3. ASSUME NEW i \in 1..Len(tx) PROVE tx[i] = sx[Len(sx) - Len(tx) + i]
  <2>. DEFINE j == Len(sx) - Len(tx) + i
  <2>1. /\ i \in 1..(Len(t) + Len(x)) /\ j = Len(s) - Len(t) + i
        /\ Len(t) <= Len(s) /\ j \in 1..(Len(s) + Len(x))
    BY <1>1, <1>2 DEF TailOf
  <2>. HIDE DEF j
  <2>2. CASE i <= Len(t)
    <3>1. j <= Len(s) /\ i \in 1..Len(t)
      BY <1>1, <2>1, <2>2
    <3>2. t[i] = s[j]
      BY <2>1, <3>1 DEF TailOf
    <3>3. tx[i] = sx[j]
      BY <1>1, <2>1, <2>2, <3>1, <3>2
    <3>. QED  BY <3>3 DEF j
  <2>3. CASE i > Len(t)
    <3>1. ~ (j <= Len(s)) /\ ~ (i <= Len(t)) /\ j - Len(s) = i - Len(t)
      BY <1>1, <2>1, <2>3
    <3>2. tx[i] = sx[j]
      BY <1>1, <2>1, <3>1
    <3>. QED  BY <3>2 DEF j
  <2>. QED  BY <1>1, <2>1, <2>2, <2>3
<1>. QED  BY <1>2, <1>3 DEF TailOf, tx, sx

LEMMA TailIsCut ==
  ASSUME NEW t \in Seq(Symbols), NEW s \in Seq(Symbols), TailOf(t, s)
  PROVE  Tailed(t) \in Seq(Symbols) /\ TailOf(Tailed(t), s)
<1>. DEFINE a == IF Len(t) > MaxTail THEN Len(t) - MaxTail + 1 ELSE 1
            r == SubSeq(t, a, Len(t))
<1>1. Len(t) \in Nat /\ Len(s) \in Nat /\ MaxTail \in Nat \ {0}
  BY LenProperties, GuardAssumption
<1>2. /\ a \in Nat \ {0} /\ a <= Len(t) + 1
      /\ a = 1 \/ Len(t) - a + 1 = MaxTail
  BY <1>1
<1>3. Tailed(t) = r
  BY DEF Tailed
<1>. HIDE DEF a
<1>4. /\ r \in Seq(Symbols) /\ Len(r) = Len(t) - a + 1
      /\ \A i \in 1..(Len(t) - a + 1) : r[i] = t[a + i - 1]
  BY <1>1, <1>2, PartOf
<1>. HIDE DEF r
<1>5. Len(r) <= Len(s) /\ (Len(r) = Len(s) \/ Len(r) >= MaxTail)
  BY <1>1, <1>2, <1>4 DEF TailOf
<1>6. ASSUME NEW i \in 1..Len(r) PROVE r[i] = s[Len(s) - Len(r) + i]
  <2>1. /\ i \in 1..(Len(t) - a + 1) /\ a + i - 1 \in 1..Len(t)
        /\ Len(s) - Len(t) + (a + i - 1) = Len(s) - Len(r) + i
    BY <1>1, <1>2, <1>4
  <2>2. r[i] = t[a + i - 1]
    BY <1>4, <2>1
  <2>3. t[a + i - 1] = s[Len(s) - Len(t) + (a + i - 1)]
    BY <2>1 DEF TailOf
  <2>. QED  BY <2>1, <2>2, <2>3
<1>. QED  BY <1>3, <1>4, <1>5, <1>6 DEF TailOf

LEMMA TailGoesOn ==
  ASSUME NEW t \in Seq(Symbols), NEW s \in Seq(Symbols), NEW x \in Seq(Symbols), TailOf(t, s)
  PROVE  Tailed(t \o x) \in Seq(Symbols) /\ TailOf(Tailed(t \o x), s \o x)
<1>1. t \o x \in Seq(Symbols) /\ s \o x \in Seq(Symbols)
  BY ConcatProperties
<1>2. TailOf(t \o x, s \o x)
  BY TailStays
<1>. QED  BY <1>1, <1>2, TailIsCut

\* A marker that is found in one sequence is found where that stands in another.
LEMMA MarkerShifts ==
  ASSUME NEW t, NEW s, NEW d \in Int, NEW i \in Int, NEW j \in Int,
         \A l \in i..j : t[l] = s[d + l]
  PROVE  MarkerAt(t, i, j) <=> MarkerAt(s, d + i, d + j)
<1>1. ASSUME MarkerAt(t, i, j) PROVE MarkerAt(s, d + i, d + j)
  <2>1. i < j /\ d + i < d + j /\ t[i] = s[d + i] /\ t[j] = s[d + j]
    BY <1>1 DEF MarkerAt
  <2>2. ASSUME NEW l \in (d + i + 1)..(d + j - 1) PROVE s[l] \in Filler
    <3>1. l - d \in (i + 1)..(j - 1) /\ l - d \in i..j /\ d + (l - d) = l
      OBVIOUS
    <3>2. t[l - d] \in Filler /\ t[l - d] = s[d + (l - d)]
      BY <1>1, <3>1 DEF MarkerAt
    <3>. QED  BY <3>1, <3>2
  <2>. QED  BY <1>1, <2>1, <2>2 DEF MarkerAt
<1>2. ASSUME MarkerAt(s, d + i, d + j) PROVE MarkerAt(t, i, j)
  <2>1. i < j
    BY <1>2 DEF MarkerAt
  <2>2. t[i] = s[d + i] /\ t[j] = s[d + j]
    BY <2>1
  <2>3. ASSUME NEW l \in (i + 1)..(j - 1) PROVE t[l] \in Filler
    <3>1. d + l \in (d + i + 1)..(d + j - 1) /\ l \in i..j
      OBVIOUS
    <3>. QED  BY <1>2, <3>1 DEF MarkerAt
  <2>. QED  BY <1>2, <2>1, <2>2, <2>3 DEF MarkerAt
<1>. QED  BY <1>1, <1>2

\* If no marker is in the window of tail and new text, any that reaches from the
\* old text into the new is longer than the tail: a shorter one would begin in
\* the tail.
LEMMA NoMarkerAcross ==
  ASSUME NEW old \in Seq(Symbols), NEW tail \in Seq(Symbols), NEW new \in Seq(Symbols),
         TailOf(tail, old), OnlyLongMarkers(old), ~HasMarker(tail \o new)
  PROVE  OnlyLongMarkers(old \o new)
<1>. DEFINE s == old \o new
            t == tail \o new
            d == Len(old) - Len(tail)
<1>1. /\ s \in Seq(Symbols) /\ t \in Seq(Symbols)
      /\ Len(old) \in Nat /\ Len(tail) \in Nat /\ Len(new) \in Nat
      /\ Len(s) = Len(old) + Len(new) /\ Len(t) = Len(tail) + Len(new)
      /\ \A i \in 1..Len(old) : s[i] = old[i]
  BY ConcatProperties, LenProperties
<1>2. TailOf(t, s)
  BY TailStays
<1>3. MaxTail \in Nat \ {0}
  BY GuardAssumption
<1>. HIDE DEF s, t
<1>4. /\ d \in Nat /\ Len(s) - Len(t) = d
      /\ \A l \in 1..Len(t) : t[l] = s[d + l]
  <2>1. d \in Nat /\ Len(s) - Len(t) = d
    BY <1>1 DEF TailOf
  <2>. QED  BY <1>2, <2>1 DEF TailOf
<1>5. d = 0 \/ Len(tail) >= MaxTail
  BY <1>1 DEF TailOf
<1>. HIDE DEF d
<1>6. ASSUME NEW i \in 1..Len(s), NEW j \in 1..Len(s), MarkerAt(s, i, j), ~(j - i > MaxTail)
      PROVE  FALSE
  <2>1. i < j
    BY <1>6 DEF MarkerAt
  <2>2. CASE j <= Len(old)
    <3>1. i \in 1..Len(old) /\ j \in 1..Len(old)
      BY <1>1, <2>1, <2>2
    <3>2. MarkerAt(old, i, j) <=> MarkerAt(s, 0 + i, 0 + j)
      <4>1. \A l \in i..j : old[l] = s[0 + l]
        BY <1>1, <3>1
      <4>2. i \in Int /\ j \in Int /\ 0 \in Int
        BY <3>1
      <4>. QED  BY <4>1, <4>2, MarkerShifts, ZenonT(30)
    <3>3. 0 + i = i /\ 0 + j = j
      BY <3>1
    <3>. QED  BY <1>6, <3>1, <3>2, <3>3 DEF OnlyLongMarkers
  <2>3. CASE j > Len(old)
    <3>1. PICK a : a = i - d
      OBVIOUS
    <3>2. PICK b : b = j - d
      OBVIOUS
    <3>3. d = Len(old) - Len(tail)
      BY DEF d
    <3>4. a \in 1..Len(t) /\ b \in 1..Len(t) /\ d + a = i /\ d + b = j
      <4>1. Len(s) = Len(t) + d /\ Len(t) \in Nat /\ i \in Int /\ j \in Int
        BY <1>1, <1>4
      <4>2. j - i <= MaxTail
        BY <1>3, <1>6, <4>1
      <4>3. d < i
        BY <1>1, <1>3, <1>4, <1>5, <1>6, <2>1, <2>3, <3>3, <4>1, <4>2
      <4>. QED  BY <1>4, <1>6, <2>1, <3>1, <3>2, <4>1, <4>3
    <3>5. MarkerAt(t, a, b) <=> MarkerAt(s, d + a, d + b)
      <4>1. \A l \in a..b : t[l] = s[d + l]
        BY <1>1, <1>4, <3>4
      <4>. QED  BY <1>4, <3>4, <4>1, MarkerShifts
    <3>6. HasMarker(t)
      BY <1>6, <3>4, <3>5 DEF HasMarker
    <3>. QED  BY <3>6 DEF t
  <2>. QED  BY <1>1, <2>2, <2>3
<1>7. OnlyLongMarkers(s)
  BY <1>6 DEF OnlyLongMarkers
<1>. QED  BY <1>7 DEF s

-----------------------------------------------------------------------------
(***************************************************************************)
(* StreamInv: what was released and what is pending are, in this order,    *)
(* what has arrived, and while the stream goes on the tail is the end of   *)
(* the released bytes.  NoMarkerInBytes needs the latter: the window joins *)
(* the tail to the new text where the client joins the old text to it.     *)
(***************************************************************************)
StreamType ==
  /\ whole \in Seq(Symbols) /\ read \in 0..Len(whole)
  /\ pending \in Seq(Symbols) /\ released \in Seq(Symbols)
  /\ releasedTail \in Seq(Symbols)

InPlace ==
  /\ Len(released) <= read
  /\ \A i \in 1..Len(released) : released[i] = whole[i]

Awaited ==
  /\ Len(released) + Len(pending) = read
  /\ \A i \in 1..Len(pending) : pending[i] = whole[Len(released) + i]
  /\ TailOf(releasedTail, released)

StreamInv ==
  /\ StreamType /\ InPlace /\ NoMarkerInBytes /\ DoneIsComplete
  /\ pc = "relay" => Awaited

\* What has arrived continues, with the new chunk, what was released.
LEMMA ArrivedType ==
  ASSUME StreamType, InPlace, Awaited, NEW n, Arrives(n)
  PROVE  /\ n \in Nat /\ read' = read + n /\ read' \in 0..Len(whole)
         /\ Arrived(n) \in Seq(Symbols)
         /\ Len(released) + Len(Arrived(n)) = read'
         /\ \A i \in 1..Len(Arrived(n)) : Arrived(n)[i] = whole[Len(released) + i]
<1>. DEFINE new == SubSeq(whole, read + 1, read + n)
<1>0. Len(released) + Len(pending) = read
  BY DEF Awaited
<1>1. /\ Len(whole) \in Nat /\ Len(pending) \in Nat /\ Len(released) \in Nat
      /\ read \in Nat /\ read <= Len(whole)
  BY LenProperties DEF StreamType
<1>2. n \in Nat \ {0} /\ read + n <= Len(whole) /\ read' = read + n
  BY <1>1 DEF Arrives
<1>3. /\ new \in Seq(Symbols) /\ Len(new) = n
      /\ \A i \in 1..n : new[i] = whole[read + i]
  <2>1. read + 1 \in Nat \ {0} /\ read + n \in Nat /\ read + 1 <= read + n + 1
    BY <1>1, <1>2
  <2>2. /\ new \in Seq(Symbols) /\ Len(new) = read + n - (read + 1) + 1
        /\ \A i \in 1..(read + n - (read + 1) + 1) : new[i] = whole[read + 1 + i - 1]
    BY <1>2, <2>1, PartOf DEF StreamType
  <2>3. /\ read + n - (read + 1) + 1 = n
        /\ \A i \in 1..n : read + 1 + i - 1 = read + i
    BY <1>1, <1>2
  <2>. HIDE DEF new
  <2>. QED  BY <2>2, <2>3
<1>. HIDE DEF new
<1>4. /\ pending \o new \in Seq(Symbols)
      /\ Len(pending \o new) = Len(pending) + Len(new)
      /\ \A i \in 1..(Len(pending) + Len(new)) :
           (pending \o new)[i] = IF i <= Len(pending) THEN pending[i] ELSE new[i - Len(pending)]
  BY <1>3, ConcatProperties DEF StreamType
<1>5. Arrived(n) = pending \o new
  BY DEF Arrived, new
<1>6. ASSUME NEW i \in 1..Len(Arrived(n))
      PROVE  Arrived(n)[i] = whole[Len(released) + i]
  <2>1. CASE i <= Len(pending)
    BY <1>1, <1>2, <1>3, <1>4, <1>5, <1>6, <2>1 DEF Awaited
  <2>2. CASE i > Len(pending)
    <3>1. i \in Nat /\ i - Len(pending) \in 1..n /\ Arrived(n)[i] = new[i - Len(pending)]
      BY <1>1, <1>2, <1>3, <1>4, <1>5, <1>6, <2>2
    <3>2. new[i - Len(pending)] = whole[read + (i - Len(pending))]
      BY <1>3, <3>1
    <3>3. read + (i - Len(pending)) = Len(released) + i
      BY <1>0, <1>1, <3>1
    <3>. QED  BY <3>1, <3>2, <3>3
  <2>. QED  BY <1>1, <1>3, <1>4, <1>5, <2>1, <2>2
<1>7. Len(released) + Len(Arrived(n)) = read'
  <2>1. Len(Arrived(n)) = Len(pending) + n
    BY <1>3, <1>4, <1>5
  <2>. QED  BY <1>0, <1>1, <1>2, <2>1
<1>. QED  BY <1>1, <1>2, <1>4, <1>5, <1>6, <1>7

\* What is ready and the rest are what has arrived, split.
LEMMA SplitType ==
  ASSUME StreamType, InPlace, Awaited, NEW n, Arrives(n)
  PROVE  LET c == Cut(Arrived(n)) IN
         /\ c \in 0..Len(Arrived(n))
         /\ Ready(n) \in Seq(Symbols) /\ Len(Ready(n)) = c
         /\ Rest(n) \in Seq(Symbols) /\ Len(Rest(n)) = Len(Arrived(n)) - c
         /\ \A i \in 1..Len(Ready(n)) : Ready(n)[i] = whole[Len(released) + i]
         /\ \A i \in 1..Len(Rest(n)) : Rest(n)[i] = whole[Len(released) + c + i]
<1>. DEFINE a == Arrived(n)
            c == Cut(a)
<1>1. /\ a \in Seq(Symbols) /\ Len(a) \in Nat
      /\ \A i \in 1..Len(a) : a[i] = whole[Len(released) + i]
  BY ArrivedType, LenProperties
<1>2. Len(released) \in Nat
  BY LenProperties DEF StreamType
<1>3. c \in 0..Len(a)
  BY <1>1, CutIsWithin
<1>4. Ready(n) = SubSeq(a, 1, c) /\ Rest(n) = SubSeq(a, c + 1, Len(a))
  BY DEF Ready, Rest
<1>. HIDE DEF a, c
<1>5. /\ SubSeq(a, 1, c) \in Seq(Symbols) /\ Len(SubSeq(a, 1, c)) = c
      /\ \A i \in 1..c : SubSeq(a, 1, c)[i] = a[i]
  <2>1. /\ SubSeq(a, 1, c) \in Seq(Symbols) /\ Len(SubSeq(a, 1, c)) = c - 1 + 1
        /\ \A i \in 1..(c - 1 + 1) : SubSeq(a, 1, c)[i] = a[1 + i - 1]
    BY <1>1, <1>3, PartOf
  <2>2. c - 1 + 1 = c /\ \A i \in 1..c : 1 + i - 1 = i
    BY <1>1, <1>3
  <2>. QED  BY <2>1, <2>2
<1>6. /\ SubSeq(a, c + 1, Len(a)) \in Seq(Symbols)
      /\ Len(SubSeq(a, c + 1, Len(a))) = Len(a) - c
      /\ \A i \in 1..(Len(a) - c) : SubSeq(a, c + 1, Len(a))[i] = a[c + i]
  <2>1. /\ SubSeq(a, c + 1, Len(a)) \in Seq(Symbols)
        /\ Len(SubSeq(a, c + 1, Len(a))) = Len(a) - (c + 1) + 1
        /\ \A i \in 1..(Len(a) - (c + 1) + 1) :
             SubSeq(a, c + 1, Len(a))[i] = a[c + 1 + i - 1]
    BY <1>1, <1>3, PartOf
  <2>2. Len(a) - (c + 1) + 1 = Len(a) - c /\ \A i \in 1..(Len(a) - c) : c + 1 + i - 1 = c + i
    BY <1>1, <1>3
  <2>. QED  BY <2>1, <2>2
<1>7. \A i \in 1..c : a[i] = whole[Len(released) + i]
  BY <1>1, <1>3
<1>8. \A i \in 1..(Len(a) - c) : a[c + i] = whole[Len(released) + c + i]
  <2>1. SUFFICES ASSUME NEW i \in 1..(Len(a) - c)
                 PROVE  a[c + i] = whole[Len(released) + c + i]
    OBVIOUS
  <2>2. c + i \in 1..Len(a) /\ Len(released) + (c + i) = Len(released) + c + i
    BY <1>1, <1>2, <1>3
  <2>. QED  BY <1>1, <2>2
<1>9. c = Cut(Arrived(n)) /\ a = Arrived(n)
  BY DEF a, c
<1>. QED  BY <1>3, <1>4, <1>5, <1>6, <1>7, <1>8, <1>9

\* Releasing what comes next, once its window was scanned, keeps what is
\* released in place and free of markers.
LEMMA ReleaseExtends ==
  ASSUME StreamType, InPlace, Awaited, NoMarkerInBytes,
         NEW text \in Seq(Symbols),
         \A i \in 1..Len(text) : text[i] = whole[Len(released) + i],
         ~HasMarker(releasedTail \o text),
         released' = released \o text, whole' = whole,
         read' \in Nat, Len(released) + Len(text) <= read'
  PROVE  /\ released' \in Seq(Symbols) /\ Len(released') = Len(released) + Len(text)
         /\ InPlace' /\ NoMarkerInBytes'
<1>1. Len(released) \in Nat /\ Len(text) \in Nat
  BY LenProperties DEF StreamType
<1>2. /\ released' \in Seq(Symbols) /\ Len(released') = Len(released) + Len(text)
      /\ \A i \in 1..(Len(released) + Len(text)) :
           released'[i] = IF i <= Len(released) THEN released[i] ELSE text[i - Len(released)]
  BY ConcatProperties DEF StreamType
<1>3. InPlace'
  <2>1. SUFFICES ASSUME NEW i \in 1..(Len(released) + Len(text))
                 PROVE  released'[i] = whole[i]
    BY <1>2 DEF InPlace
  <2>2. CASE i <= Len(released)
    BY <1>1, <1>2, <2>2 DEF InPlace
  <2>3. CASE i > Len(released)
    <3>1. i - Len(released) \in 1..Len(text) /\ Len(released) + (i - Len(released)) = i
      BY <1>1, <2>3
    <3>2. released'[i] = text[i - Len(released)]
      BY <1>1, <1>2, <2>3
    <3>. QED  BY <3>1, <3>2
  <2>. QED  BY <1>1, <2>2, <2>3
<1>4. NoMarkerInBytes'
  <2>1. OnlyLongMarkers(released \o text)
    BY NoMarkerAcross DEF StreamType, Awaited, NoMarkerInBytes
  <2>. QED  BY <2>1 DEF NoMarkerInBytes, OnlyLongMarkers
<1>. QED  BY <1>2, <1>3, <1>4

\* A chunk that completes nothing is pending, behind what was.
LEMMA HoldKeeps ==
  ASSUME StreamInv, pc = "relay", NEW n, Hold(n), pc' = pc
  PROVE  StreamInv'
<1>1. StreamType /\ InPlace /\ Awaited /\ Arrives(n)
  BY DEF StreamInv, Hold
<1>2. /\ n \in Nat /\ read' = read + n /\ read' \in 0..Len(whole)
      /\ Arrived(n) \in Seq(Symbols)
      /\ Len(released) + Len(Arrived(n)) = read'
      /\ \A i \in 1..Len(Arrived(n)) : Arrived(n)[i] = whole[Len(released) + i]
  BY <1>1, ArrivedType
<1>3. /\ pending' = Arrived(n) /\ whole' = whole /\ released' = released
      /\ releasedTail' = releasedTail
  BY DEF Hold
<1>4. StreamType'
  BY <1>1, <1>2, <1>3 DEF StreamType
<1>5. InPlace'
  <2>1. Len(released) <= read'
    <3>1. Len(released) \in Nat /\ read \in Nat
      BY <1>1, LenProperties DEF StreamType
    <3>. QED  BY <1>1, <1>2, <3>1 DEF InPlace
  <2>. QED  BY <1>1, <1>3, <2>1 DEF InPlace
<1>6. Awaited'
  BY <1>1, <1>2, <1>3 DEF Awaited
<1>7. NoMarkerInBytes'
  BY <1>3 DEF StreamInv, NoMarkerInBytes, OnlyLongMarkers, MarkerAt
<1>. QED  BY <1>4, <1>5, <1>6, <1>7 DEF StreamInv, DoneIsComplete

\* What is ready and safe is released, and the tail ends as it does.
LEMMA ReleaseKeeps ==
  ASSUME StreamInv, pc = "relay", NEW n, Release(n), pc' = pc
  PROVE  StreamInv'
<1>. DEFINE c == Cut(Arrived(n))
<1>1. StreamType /\ InPlace /\ Awaited /\ Arrives(n) /\ NoMarkerInBytes
  BY DEF StreamInv, Release
<1>2. /\ n \in Nat /\ read' = read + n /\ read' \in 0..Len(whole)
      /\ Arrived(n) \in Seq(Symbols) /\ Len(Arrived(n)) \in Nat
      /\ Len(released) + Len(Arrived(n)) = read'
  BY <1>1, ArrivedType, LenProperties
<1>3. /\ c \in 0..Len(Arrived(n))
      /\ Ready(n) \in Seq(Symbols) /\ Len(Ready(n)) = c
      /\ Rest(n) \in Seq(Symbols) /\ Len(Rest(n)) = Len(Arrived(n)) - c
      /\ \A i \in 1..Len(Ready(n)) : Ready(n)[i] = whole[Len(released) + i]
      /\ \A i \in 1..Len(Rest(n)) : Rest(n)[i] = whole[Len(released) + c + i]
  BY <1>1, SplitType
<1>4. /\ c > 0 /\ ~HasMarker(releasedTail \o Ready(n))
      /\ pending' = Rest(n) /\ whole' = whole /\ released' = released \o Ready(n)
      /\ releasedTail' = Tailed(releasedTail \o Ready(n))
  BY DEF Release, Unsafe
<1>. HIDE DEF c
<1>5. Len(released) \in Nat /\ Len(whole) \in Nat /\ Len(releasedTail) \in Nat
  BY <1>1, LenProperties DEF StreamType
<1>6. read' \in Nat /\ Len(released) + Len(Ready(n)) <= read'
  BY <1>2, <1>3, <1>5
<1>7. /\ released' \in Seq(Symbols) /\ Len(released') = Len(released) + Len(Ready(n))
      /\ InPlace' /\ NoMarkerInBytes'
  BY <1>1, <1>3, <1>4, <1>6, ReleaseExtends
<1>8. releasedTail' \in Seq(Symbols) /\ TailOf(releasedTail', released')
  BY <1>1, <1>3, <1>4, TailGoesOn DEF StreamType, Awaited
<1>9. StreamType'
  BY <1>1, <1>2, <1>3, <1>4, <1>7, <1>8 DEF StreamType
<1>10. Awaited'
  <2>1. Len(released') + Len(pending') = read'
    <3>1. Len(released') = Len(released) + c
      BY <1>3, <1>7
    <3>2. Len(pending') = Len(Arrived(n)) - c
      BY <1>3, <1>4
    <3>3. c \in Nat
      BY <1>2, <1>3
    <3>. QED  BY <1>2, <1>5, <3>1, <3>2, <3>3
  <2>2. \A i \in 1..Len(pending') : pending'[i] = whole'[Len(released') + i]
    <3>1. Len(released') = Len(released) + c
      BY <1>3, <1>7
    <3>. QED  BY <1>3, <1>4, <3>1
  <2>. QED  BY <1>7, <1>8, <2>1, <2>2 DEF Awaited
<1>. QED  BY <1>7, <1>9, <1>10 DEF StreamInv, DoneIsComplete

\* What is unsafe is dropped.
LEMMA TripKeeps ==
  ASSUME StreamInv, pc = "relay", NEW n, Trip(n), pc' = "marker"
  PROVE  StreamInv'
<1>1. StreamType /\ InPlace /\ Awaited /\ Arrives(n) /\ NoMarkerInBytes
  BY DEF StreamInv, Trip
<1>2. n \in Nat /\ read' = read + n /\ read' \in 0..Len(whole)
  BY <1>1, ArrivedType
<1>3. Rest(n) \in Seq(Symbols)
  BY <1>1, SplitType
<1>4. /\ pending' = Rest(n) /\ whole' = whole /\ released' = released
      /\ releasedTail' = releasedTail
  BY DEF Trip
<1>5. StreamType'
  BY <1>1, <1>2, <1>3, <1>4 DEF StreamType
<1>6. InPlace'
  <2>1. Len(released) \in Nat /\ read \in Nat
    BY <1>1, LenProperties DEF StreamType
  <2>. QED  BY <1>1, <1>2, <1>4, <2>1 DEF InPlace
<1>7. NoMarkerInBytes'
  BY <1>1, <1>4 DEF NoMarkerInBytes, OnlyLongMarkers, MarkerAt
<1>. QED  BY <1>5, <1>6, <1>7 DEF StreamInv, DoneIsComplete

\* At the end what is pending is released, which makes the stream complete.
LEMMA FinishKeeps ==
  ASSUME StreamInv, pc = "relay", Finish, pc' = "done"
  PROVE  StreamInv'
<1>1. StreamType /\ InPlace /\ Awaited /\ NoMarkerInBytes
  BY DEF StreamInv
<1>2. /\ Len(released) \in Nat /\ Len(pending) \in Nat /\ Len(whole) \in Nat
      /\ read = Len(whole)
  BY <1>1, LenProperties DEF StreamType, Finish, AtEnd
<1>3. /\ read' = read /\ whole' = whole /\ pending' = pending
      /\ releasedTail' = releasedTail /\ released' = released \o pending
  BY DEF Finish
<1>4. Len(released) + Len(pending) = read
      /\ \A i \in 1..Len(pending) : pending[i] = whole[Len(released) + i]
  BY <1>1 DEF Awaited
<1>5. /\ released' \in Seq(Symbols) /\ Len(released') = Len(whole)
      /\ InPlace' /\ NoMarkerInBytes'
  <2>1. CASE pending = <<>>
    <3>1. released' = released /\ Len(pending) = 0
      BY <1>1, <1>3, <2>1, ConcatEmptySeq DEF StreamType
    <3>. QED  BY <1>1, <1>2, <1>3, <1>4, <3>1
                 DEF StreamType, InPlace, NoMarkerInBytes, OnlyLongMarkers, MarkerAt
  <2>2. CASE pending # <<>>
    <3>1. ~HasMarker(releasedTail \o pending)
      BY <2>2 DEF Finish, Unsafe
    <3>2. pending \in Seq(Symbols) /\ read' \in Nat /\ Len(released) + Len(pending) <= read'
      BY <1>1, <1>2, <1>3, <1>4 DEF StreamType
    <3>. QED  BY <1>1, <1>2, <1>3, <1>4, <3>1, <3>2, ReleaseExtends
  <2>. QED  BY <2>1, <2>2
<1>6. StreamType'
  BY <1>1, <1>2, <1>3, <1>5 DEF StreamType
<1>7. released' = whole'
  <2>1. \A i \in 1..Len(released') : released'[i] = whole'[i]
    BY <1>5 DEF InPlace
  <2>2. whole' \in Seq(Symbols) /\ Len(released') = Len(whole')
    BY <1>3, <1>5, <1>6 DEF StreamType
  <2>. QED  BY <1>5, <2>1, <2>2, SeqEqual
<1>. QED  BY <1>5, <1>6, <1>7 DEF StreamInv, DoneIsComplete

-----------------------------------------------------------------------------
\* Nothing has arrived at first, nor when a provider begins to stream.
LEMMA NothingYet ==
  ASSUME whole \in Seq(Symbols), read = 0, pending = <<>>, releasedTail = <<>>,
         released = <<>>
  PROVE  StreamType /\ InPlace /\ NoMarkerInBytes /\ Awaited
<1>1. <<>> \in Seq(Symbols) /\ Len(<<>>) = 0 /\ Len(whole) \in Nat
  BY EmptySeq, LenProperties
<1>. QED  BY <1>1 DEF StreamType, InPlace, NoMarkerInBytes, OnlyLongMarkers, Awaited, TailOf

LEMMA InitStream == Init => StreamInv
<1>. SUFFICES ASSUME Init PROVE StreamInv
  OBVIOUS
<1>1. whole \in Seq(Symbols)
  BY DEF Init, GuardInit
<1>. QED  BY <1>1, NothingYet DEF Init, GuardInit, StreamInv, DoneIsComplete

LEMMA BeginKeeps == Begin => StreamInv'
<1>. SUFFICES ASSUME Begin PROVE StreamInv'
  OBVIOUS
<1>1. /\ whole' \in Seq(Symbols) /\ read' = 0 /\ pending' = <<>>
      /\ releasedTail' = <<>> /\ released' = <<>> /\ pc' = "relay"
  BY GuardAssumption DEF Begin, Open
<1>2. (StreamType /\ InPlace /\ NoMarkerInBytes /\ Awaited)'
  <2>1. <<>> \in Seq(Symbols) /\ Len(<<>>) = 0 /\ Len(whole') \in Nat
    BY <1>1, EmptySeq, LenProperties
  <2>. QED  BY <1>1, <2>1 DEF StreamType, InPlace, NoMarkerInBytes, OnlyLongMarkers, Awaited, TailOf
<1>. QED  BY <1>1, <1>2 DEF StreamInv, DoneIsComplete

\* What leaves the stream alone and does not end it well keeps the invariant.
LEMMA QuietKeeps ==
  ASSUME StreamInv, UNCHANGED guardVars, pc' = pc \/ pc' \notin {"relay", "done"}
  PROVE  StreamInv'
<1>1. /\ whole' = whole /\ read' = read /\ pending' = pending
      /\ releasedTail' = releasedTail /\ released' = released
  BY DEF guardVars
<1>. QED  BY <1>1 DEF StreamInv, StreamType, InPlace, NoMarkerInBytes, OnlyLongMarkers, MarkerAt, Awaited,
                      DoneIsComplete

LEMMA StepStream == StreamInv /\ [Next]_vars => StreamInv'
<1>. SUFFICES ASSUME StreamInv, [Next]_vars PROVE StreamInv'
  OBVIOUS
<1>1. CASE Unreadable \/ Receive \/ NoLimiter \/ OverQuota \/ Admitted
  BY <1>1, QuietKeeps DEF Unreadable, Receive, NoLimiter, OverQuota, Admitted
<1>2. CASE FailOver \/ Reject \/ PassOn \/ CutOff \/ Answer \/ Undecodable \/ GiveUp
  BY <1>2, QuietKeeps DEF FailOver, Reject, PassOn, CutOff, Answer, Undecodable, GiveUp
<1>3. CASE Break \/ Disconnect
  BY <1>3, QuietKeeps DEF Break, Disconnect
<1>4. CASE Begin
  BY <1>4, BeginKeeps
<1>5. CASE Chunk
  <2>1. PICK n \in 1..Len(whole) : \/ Hold(n) /\ pc' = pc
                                   \/ Release(n) /\ pc' = pc
                                   \/ Trip(n) /\ pc' = "marker"
    BY <1>5 DEF Chunk
  <2>2. pc = "relay"
    BY <1>5 DEF Chunk
  <2>. QED  BY <2>1, <2>2, HoldKeeps, ReleaseKeeps, TripKeeps
<1>6. CASE EndOfStream
  <2>1. pc = "relay"
    BY <1>6 DEF EndOfStream
  <2>2. CASE Finish /\ pc' = "done"
    BY <2>1, <2>2, FinishKeeps
  <2>3. CASE TripAtEnd /\ pc' = "marker"
    BY <2>3, QuietKeeps DEF TripAtEnd
  <2>. QED  BY <1>6, <2>2, <2>3 DEF EndOfStream
<1>7. CASE UNCHANGED vars
  BY <1>7, QuietKeeps DEF vars
<1>. QED  BY <1>1, <1>2, <1>3, <1>4, <1>5, <1>6, <1>7 DEF Next, Upstream

-----------------------------------------------------------------------------
\* However the bytes are chunked and wherever they are cut, a marker in them
\* reaches the client only if it is longer than the tail (router.py:319-332;
\* test_security_defaults.py:268-276 relays one that is).
THEOREM NoMarkerIsReleased == Spec => []NoMarkerInBytes
<1>1. StreamInv => NoMarkerInBytes
  BY DEF StreamInv
<1>. QED  BY <1>1, InitStream, StepStream, PTL DEF Spec

\* The client is relayed a prefix of what the provider sent and nothing that has
\* not arrived (router.py:313-318, 332, 344).
THEOREM RelayIsFaithful == Spec => []ReleasedIsWhatArrived
<1>1. StreamInv => ReleasedIsWhatArrived
  <2>. SUFFICES ASSUME StreamInv PROVE ReleasedIsWhatArrived
    OBVIOUS
  <2>. DEFINE l == Len(released)
  <2>1. /\ released \in Seq(Symbols) /\ whole \in Seq(Symbols)
        /\ l \in Nat /\ Len(whole) \in Nat /\ read \in 0..Len(whole)
    BY LenProperties DEF StreamInv, StreamType
  <2>2. l <= read /\ \A i \in 1..l : released[i] = whole[i]
    BY DEF StreamInv, InPlace
  <2>3. l <= Len(whole)
    BY <2>1, <2>2
  <2>. HIDE DEF l
  <2>4. /\ SubSeq(released, 1, l) \in Seq(Symbols) /\ Len(SubSeq(released, 1, l)) = l - 1 + 1
        /\ \A i \in 1..(l - 1 + 1) : SubSeq(released, 1, l)[i] = released[1 + i - 1]
    BY <2>1, PartOf DEF l
  <2>5. /\ SubSeq(whole, 1, l) \in Seq(Symbols) /\ Len(SubSeq(whole, 1, l)) = l - 1 + 1
        /\ \A i \in 1..(l - 1 + 1) : SubSeq(whole, 1, l)[i] = whole[1 + i - 1]
    BY <2>1, <2>3, PartOf
  <2>6. l - 1 + 1 = l /\ \A i \in 1..l : 1 + i - 1 = i
    BY <2>1
  <2>7. SubSeq(released, 1, l) = SubSeq(whole, 1, l)
    <3>1. \A i \in 1..Len(SubSeq(released, 1, l)) :
            SubSeq(released, 1, l)[i] = SubSeq(whole, 1, l)[i]
      BY <2>2, <2>4, <2>5, <2>6
    <3>. QED  BY <2>4, <2>5, <3>1, SeqEqual
  <2>. QED  BY <2>2, <2>3, <2>7 DEF ReleasedIsWhatArrived, IsPrefix, l
<1>. QED  BY <1>1, InitStream, StepStream, PTL DEF Spec

\* A stream that the provider ended, and that had no marker, is relayed to its
\* last byte (router.py:333-344).
THEOREM NothingIsLost == Spec => []DoneIsComplete
<1>1. StreamInv => DoneIsComplete
  BY DEF StreamInv
<1>. QED  BY <1>1, InitStream, StepStream, PTL DEF Spec

-----------------------------------------------------------------------------
(***************************************************************************)
(* Who has been asked: every provider before its turn failed in a way that *)
(* was worth a try elsewhere, and none after it was asked.                 *)
(***************************************************************************)
Pending == {"new", "limiter", "ask", "relay"}
TurnInv ==
  /\ turn \in 1..(Turns + 1)
  /\ verdict \in [1..Turns -> Verdicts \cup {"none"}]
  /\ \A i \in 1..Turns : i < turn => verdict[i] \in Transient
  /\ \A i \in 1..Turns : i > turn => verdict[i] = "none"
  /\ pc \in Pending /\ turn <= Turns => verdict[turn] = "none"
  /\ pc = "new" => turn = 1
  /\ pc = "relay" => turn <= Turns
  /\ pc = "unavailable" => turn > Turns
  /\ pc \in {"rejecting", "rejected"} => turn <= Turns /\ verdict[turn] = "rejected"

\* A transient verdict, and on to the next.
LEMMA FailingOverKeepsTurn ==
  ASSUME TurnInv, turn <= Turns, NEW v \in Transient, Judge(v), NextTurn, pc' \in {"ask"}
  PROVE  TurnInv'
<1>1. Turns \in Nat
  BY TurnsType
<1>2. turn' = turn + 1 /\ turn' \in 1..(Turns + 1) /\ turn \in 1..Turns
  BY <1>1 DEF TurnInv, NextTurn
<1>3. verdict' = [verdict EXCEPT ![turn] = v]
  BY DEF Judge
<1>4. verdict' \in [1..Turns -> Verdicts \cup {"none"}]
  BY <1>3 DEF TurnInv, Verdicts
<1>5. \A i \in 1..Turns : i < turn' => verdict'[i] \in Transient
  BY <1>2, <1>3 DEF TurnInv
<1>6. \A i \in 1..Turns : i >= turn' => verdict'[i] = "none"
  BY <1>2, <1>3 DEF TurnInv
<1>. QED  BY <1>1, <1>2, <1>4, <1>5, <1>6 DEF TurnInv

\* A verdict that ends the request, or will.
LEMMA EndingKeepsTurn ==
  ASSUME TurnInv, turn <= Turns, NEW v \in Verdicts, Judge(v), turn' = turn,
         pc' \in (Ended \ {"unavailable"}) \cup {"rejecting"},
         pc' \in {"rejecting", "rejected"} => v = "rejected"
  PROVE  TurnInv'
<1>1. Turns \in Nat
  BY TurnsType
<1>2. turn \in 1..Turns
  BY <1>1 DEF TurnInv
<1>3. verdict' = [verdict EXCEPT ![turn] = v]
  BY DEF Judge
<1>4. verdict' \in [1..Turns -> Verdicts \cup {"none"}]
  BY <1>3 DEF TurnInv
<1>5. \A i \in 1..Turns : i < turn => verdict'[i] \in Transient
  BY <1>2, <1>3 DEF TurnInv
<1>6. \A i \in 1..Turns : i > turn => verdict'[i] = "none"
  BY <1>2, <1>3 DEF TurnInv
<1>7. verdict'[turn] = v
  BY <1>2, <1>3 DEF TurnInv
<1>. QED  BY <1>1, <1>2, <1>4, <1>5, <1>6, <1>7 DEF TurnInv, Pending, Ended

\* No verdict, and no end but those that need none.
LEMMA QuietKeepsTurn ==
  ASSUME TurnInv, UNCHANGED <<turn, verdict>>,
         \/ pc' = pc
         \/ pc' \in Ended \ {"unavailable", "rejected"}
         \/ pc \in Pending /\ pc' \in {"limiter", "ask"}
         \/ pc \in Pending /\ turn <= Turns /\ pc' = "relay"
         \/ pc' = "unavailable" /\ turn > Turns
         \/ pc = "rejecting" /\ pc' = "rejected"
  PROVE  TurnInv'
BY DEF TurnInv, Pending, Ended

LEMMA InitTurn == Init => TurnInv
<1>1. Turns \in Nat
  BY TurnsType
<1>. QED  BY <1>1 DEF Init, TurnInv, Verdicts, Transient

LEMMA StepTurn == TurnInv /\ [Next]_vars => TurnInv'
<1>. SUFFICES ASSUME TurnInv, [Next]_vars PROVE TurnInv'
  OBVIOUS
<1>1. CASE Unreadable \/ Receive \/ NoLimiter \/ OverQuota \/ Admitted \/ Disconnect \/ PassOn
  BY <1>1, QuietKeepsTurn
     DEF Unreadable, Receive, PassOn, NoLimiter, OverQuota, Admitted, Disconnect, routerVars, Pending, Ended
<1>2. CASE FailOver
  <2>1. /\ turn <= Turns /\ NextTurn /\ pc' = "ask"
        /\ \E v \in Transient : Judge(v)
    BY <1>2 DEF FailOver, Asking, Retryable, Transient
  <2>. QED  BY <2>1, FailingOverKeepsTurn
<1>3. CASE Reject
  <2>1. /\ turn <= Turns /\ Judge("rejected") /\ turn' = turn
        /\ pc' \in {"rejecting", "rejected"}
    BY <1>3 DEF Reject, Asking
  <2>. QED  BY <2>1, EndingKeepsTurn DEF Verdicts, Ended
<1>4. CASE Answer
  <2>1. turn <= Turns /\ Judge("answered") /\ turn' = turn /\ pc' = "answer"
    BY <1>4 DEF Answer, Asking
  <2>. QED  BY <2>1, EndingKeepsTurn DEF Verdicts, Ended
<1>5. CASE Undecodable
  <2>1. turn <= Turns /\ Judge("undecodable") /\ turn' = turn /\ pc' = "crash"
    BY <1>5 DEF Undecodable, Asking
  <2>. QED  BY <2>1, EndingKeepsTurn DEF Verdicts, Ended
<1>6. CASE GiveUp
  BY <1>6, QuietKeepsTurn DEF GiveUp, routerVars
<1>7. CASE Begin
  BY <1>7, QuietKeepsTurn DEF Begin, Asking, routerVars, Pending
<1>8. CASE Chunk
  BY <1>8, QuietKeepsTurn DEF Chunk, Ended
<1>9. CASE EndOfStream
  <2>1. pc = "relay" /\ turn <= Turns /\ turn' = turn
    BY <1>9 DEF EndOfStream, TurnInv
  <2>2. CASE Judge("answered") /\ pc' = "done"
    BY <2>1, <2>2, EndingKeepsTurn DEF Verdicts, Ended
  <2>3. CASE pc' = "marker" /\ UNCHANGED verdict
    BY <2>1, <2>3, QuietKeepsTurn DEF Ended
  <2>. QED  BY <1>9, <2>2, <2>3 DEF EndOfStream
<1>10. CASE Break
  <2>1. turn <= Turns /\ Judge("broken") /\ NextTurn /\ pc' = "ask"
    BY <1>10 DEF Break, TurnInv
  <2>. QED  BY <2>1, FailingOverKeepsTurn DEF Transient
<1>12. CASE CutOff
  <2>1. turn <= Turns /\ Judge("cut off") /\ NextTurn /\ pc' = "ask"
    BY <1>12 DEF CutOff, TurnInv
  <2>. QED  BY <2>1, FailingOverKeepsTurn DEF Transient
<1>11. CASE UNCHANGED vars
  BY <1>11, QuietKeepsTurn DEF vars, routerVars
<1>. QED  BY <1>1, <1>2, <1>3, <1>4, <1>5, <1>6, <1>7, <1>8, <1>9, <1>10, <1>11, <1>12
             DEF Next, Upstream

\* Only a stream's rejection is still to be read, so only that is cut off.
IsStream == body.stream
CutInv == IsStream \/ (pc # "rejecting" /\ \A i \in 1..Turns : verdict[i] # "cut off")

LEMMA JudgedOtherwise ==
  ASSUME TurnInv, CutInv, body' = body, pc' # "rejecting",
         NEW v \in Verdicts \ {"cut off"}, Judge(v)
  PROVE  CutInv'
<1>1. IsStream' <=> IsStream
  BY DEF IsStream
<1>2. ASSUME NEW i \in 1..Turns, verdict[i] # "cut off" PROVE verdict'[i] # "cut off"
  BY <1>2 DEF Judge, TurnInv
<1>. QED  BY <1>1, <1>2 DEF CutInv

LEMMA NotJudged ==
  ASSUME CutInv, UNCHANGED <<body, verdict>>, pc' = pc \/ pc' # "rejecting"
  PROVE  CutInv'
<1>1. IsStream' <=> IsStream
  BY DEF IsStream
<1>. QED  BY <1>1 DEF CutInv

LEMMA StepCut == TurnInv /\ CutInv /\ [Next]_vars => CutInv'
<1>. SUFFICES ASSUME TurnInv, CutInv, [Next]_vars PROVE CutInv'
  OBVIOUS
<1>1. CASE Receive
  <2>1. pc = "new" /\ pc' \in {"limiter", "invalid"} /\ verdict' = verdict
    BY <1>1 DEF Receive
  <2>2. \A i \in 1..Turns : verdict[i] = "none"
    BY <2>1, TurnsType DEF TurnInv, Pending
  <2>. QED  BY <2>1, <2>2 DEF CutInv
<1>2. CASE Unreadable \/ NoLimiter \/ OverQuota \/ Admitted \/ Disconnect \/ PassOn
             \/ GiveUp \/ Begin
  BY <1>2, NotJudged DEF Unreadable, NoLimiter, OverQuota, Admitted, Disconnect, PassOn,
                         GiveUp, Begin, routerVars, Ended
<1>3. CASE FailOver
  <2>1. body' = body /\ pc' = "ask" /\ \E v \in Verdicts \ {"cut off"} : Judge(v)
    BY <1>3 DEF FailOver, Asking, Retryable, Verdicts, Transient
  <2>. QED  BY <2>1, JudgedOtherwise
<1>4. CASE Answer \/ Undecodable \/ Break
  <2>1. body' = body /\ pc' # "rejecting" /\ \E v \in Verdicts \ {"cut off"} : Judge(v)
    BY <1>4 DEF Answer, Undecodable, Break, Verdicts, Transient
  <2>. QED  BY <2>1, JudgedOtherwise
<1>5. CASE Reject
  <2>1. CASE IsStream
    <3>1. body' = body
      BY <1>5 DEF Reject
    <3>. QED  BY <2>1, <3>1 DEF CutInv, IsStream
  <2>2. CASE ~IsStream
    <3>1. body' = body /\ pc' # "rejecting" /\ \E v \in Verdicts \ {"cut off"} : Judge(v)
      BY <1>5, <2>2 DEF Reject, IsStream, Verdicts, Transient
    <3>. QED  BY <3>1, JudgedOtherwise
  <2>. QED  BY <2>1, <2>2
<1>6. CASE CutOff
  <2>1. IsStream /\ body' = body
    BY <1>6 DEF CutOff, CutInv
  <2>. QED  BY <2>1 DEF CutInv, IsStream
<1>7. CASE Chunk
  <2>1. body' = body /\ verdict' = verdict /\ pc' \in {pc, "marker"}
    BY <1>7 DEF Chunk
  <2>. QED  BY <2>1, NotJudged
<1>8. CASE EndOfStream
  <2>1. body' = body /\ pc' \in {"done", "marker"}
    BY <1>8 DEF EndOfStream
  <2>2. CASE Judge("answered")
    BY <2>1, <2>2, JudgedOtherwise DEF Verdicts
  <2>3. CASE UNCHANGED verdict
    BY <2>1, <2>3, NotJudged
  <2>. QED  BY <1>8, <2>2, <2>3 DEF EndOfStream
<1>9. CASE UNCHANGED vars
  BY <1>9, NotJudged DEF vars, routerVars
<1>. QED  BY <1>1, <1>2, <1>3, <1>4, <1>5, <1>6, <1>7, <1>8, <1>9 DEF Next, Upstream

\* With any number of providers the client is told that all are unavailable only
\* when each was tried and failed transiently, and nobody is asked after one that
\* rejected or answered the request, unless the body of a stream's rejection broke
\* off (router.py:161-221, 232-290).
THEOREM FailuresAreTrue == Spec => []FailureIsTrue
<1>1. TurnInv /\ CutInv => FailureIsTrue
  <2>. SUFFICES ASSUME TurnInv, CutInv PROVE FailureIsTrue
    OBVIOUS
  <2>1. Turns \in Nat /\ turn \in 1..(Turns + 1)
    BY TurnsType DEF TurnInv
  <2>2. pc = "unavailable" => \A i \in 1..Turns : verdict[i] \in Transient
    BY <2>1 DEF TurnInv
  <2>3. pc = "rejected" => verdict[turn] = "rejected"
    BY DEF TurnInv
  <2>4. ASSUME NEW i \in 1..Turns, verdict[i] \notin Transient, NEW j \in (i + 1)..Turns
        PROVE  verdict[j] = "none"
    <3>1. i >= turn
      BY <2>1, <2>4 DEF TurnInv
    <3>2. j \in 1..Turns /\ j > turn
      BY <2>1, <3>1
    <3>. QED  BY <3>2 DEF TurnInv
  <2>5. \A i \in 1..Turns : verdict[i] = "cut off" => IsStream
    BY DEF CutInv
  <2>6. \A i \in 1..Turns : verdict[i] = "cut off" => body.stream
    BY <2>5 DEF IsStream
  <2>. QED  BY <2>2, <2>3, <2>4, <2>6 DEF FailureIsTrue
<1>2. Init => CutInv
  BY DEF Init, CutInv
<1>. QED  BY <1>1, <1>2, InitTurn, StepTurn, StepCut, PTL DEF Spec

-----------------------------------------------------------------------------
\* The greatest boundary is where the cut is: behind it there is none.
LEMMA NothingBehindCut ==
  ASSUME NEW s \in Seq(Symbols)
  PROVE  \A i \in Boundaries(s) : i <= Cut(s)
<1>1. Len(s) \in Nat /\ Boundaries(s) \in SUBSET (0..Len(s))
  BY LenProperties DEF Boundaries
<1>2. CASE Boundaries(s) # {}
  <2>1. \E i \in Boundaries(s) : \A j \in Boundaries(s) : i >= j
    BY <1>1, <1>2, GreatestExists
  <2>2. Cut(s) \in Boundaries(s) /\ \A j \in Boundaries(s) : Cut(s) >= j
    BY <1>2, <2>1 DEF Cut
  <2>. QED  BY <1>1, <2>2
<1>. QED  BY <1>2

LEMMA RestHasNoBoundary ==
  ASSUME StreamType, InPlace, Awaited, NEW n, Arrives(n)
  PROVE  Boundaries(Rest(n)) = {}
<1>. DEFINE a == Arrived(n)
            c == Cut(a)
            r == SubSeq(a, c + 1, Len(a))
<1>1. a \in Seq(Symbols) /\ Len(a) \in Nat
  BY ArrivedType, LenProperties
<1>2. c \in 0..Len(a) /\ \A i \in Boundaries(a) : i <= c
  BY <1>1, CutIsWithin, NothingBehindCut
<1>3. Rest(n) = r
  BY DEF Rest
<1>. HIDE DEF a, c
<1>4. /\ Len(r) = Len(a) - (c + 1) + 1
      /\ \A i \in 1..(Len(a) - (c + 1) + 1) : r[i] = a[c + 1 + i - 1]
  BY <1>1, <1>2, PartOf
<1>. HIDE DEF r
<1>5. ASSUME NEW i \in Boundaries(r) PROVE FALSE
  <2>1. i \in 2..Len(r) /\ r[i - 1] = "n" /\ r[i] = "n"
    BY <1>5 DEF Boundaries
  <2>2. i \in 1..(Len(a) - (c + 1) + 1) /\ i - 1 \in 1..(Len(a) - (c + 1) + 1)
    BY <1>1, <1>2, <1>4, <2>1
  <2>3. c + 1 + i - 1 = c + i /\ c + 1 + (i - 1) - 1 = c + i - 1
    BY <1>2, <2>1
  <2>4. a[c + i - 1] = "n" /\ a[c + i] = "n"
    BY <1>4, <2>1, <2>2, <2>3
  <2>5. c + i \in 2..Len(a) /\ ~ (c + i <= c)
    BY <1>1, <1>2, <2>1, <2>2
  <2>6. c + i \in Boundaries(a)
    <3>1. PICK j \in 2..Len(a) : j = c + i
      BY <2>5
    <3>2. a[j - 1] = "n" /\ a[j] = "n"
      BY <1>1, <1>2, <2>1, <2>4, <3>1
    <3>. QED  BY <3>1, <3>2 DEF Boundaries
  <2>. QED  BY <1>2, <2>5, <2>6
<1>. QED  BY <1>3, <1>5

\* A complete event that has arrived has been relayed, or refused, with the chunk
\* that completed it (router.py:313-318): what waits has no boundary in it,
\* wherever the chunks were split.
THEOREM CompleteEventsAreRelayed == Spec => []NoEventWaits
<1>1. Init => NoEventWaits
  <2>1. Len(<<>>) = 0
    BY EmptySeq
  <2>. QED  BY <2>1 DEF Init, GuardInit, NoEventWaits, Boundaries
<1>2. StreamInv /\ NoEventWaits /\ [Next]_vars => NoEventWaits'
  <2>. SUFFICES ASSUME StreamInv, NoEventWaits, [Next]_vars PROVE NoEventWaits'
    OBVIOUS
  <2>1. CASE UNCHANGED pending
    BY <2>1 DEF NoEventWaits, Boundaries
  <2>2. CASE pending' = <<>>
    <3>1. Len(<<>>) = 0
      BY EmptySeq
    <3>. QED  BY <2>2, <3>1 DEF NoEventWaits, Boundaries
  <2>3. ASSUME pc = "relay", NEW n, Hold(n) PROVE NoEventWaits'
    <3>1. Arrived(n) \in Seq(Symbols) /\ pending' = Arrived(n) /\ Cut(Arrived(n)) = 0
      BY <2>3, ArrivedType DEF StreamInv, Hold
    <3>2. Boundaries(Arrived(n)) = {}
      BY <3>1, NothingBehindCut, LenProperties DEF Boundaries
    <3>. QED  BY <3>1, <3>2 DEF NoEventWaits, Boundaries
  <2>4. ASSUME pc = "relay", NEW n, Release(n) \/ Trip(n) PROVE NoEventWaits'
    <3>1. pending' = Rest(n) /\ Boundaries(Rest(n)) = {}
      BY <2>4, RestHasNoBoundary DEF StreamInv, Release, Trip
    <3>. QED  BY <3>1 DEF NoEventWaits, Boundaries
  <2>5. CASE Unreadable \/ Receive \/ NoLimiter \/ OverQuota \/ Admitted \/ Disconnect
    BY <2>1, <2>5 DEF Unreadable, Receive, NoLimiter, OverQuota, Admitted, Disconnect, guardVars
  <2>6. CASE FailOver \/ Reject \/ PassOn \/ CutOff \/ Answer \/ Undecodable \/ GiveUp \/ Break
    BY <2>1, <2>6 DEF FailOver, Reject, PassOn, CutOff, Answer, Undecodable, GiveUp, Break,
       guardVars
  <2>7. CASE Begin \/ EndOfStream \/ UNCHANGED vars
    BY <2>1, <2>2, <2>7 DEF Begin, Open, EndOfStream, Finish, TripAtEnd, vars, guardVars
  <2>8. CASE Chunk
    BY <2>3, <2>4, <2>8 DEF Chunk
  <2>. QED  BY <2>5, <2>6, <2>7, <2>8 DEF Next, Upstream
<1>. QED  BY <1>1, <1>2, InitStream, StepStream, PTL DEF Spec

\* What was yielded grows only while a stream is relayed, by an event that was
\* found safe or at the end of the stream: the step that finds a marker, and
\* whatever comes after an end, adds nothing (router.py:268-275, 324-328).
THEOREM NothingFollowsTheEnd == Spec => NothingAfterTheEnd
<1>1. [Next]_vars => [(pc \in Ended \/ pc' = "marker") => released' = released]_vars
  <2>. SUFFICES ASSUME Next, pc \in Ended \/ pc' = "marker" PROVE released' = released
    OBVIOUS
  <2>1. CASE Unreadable \/ Receive \/ NoLimiter \/ OverQuota \/ Admitted \/ Disconnect
    BY <2>1 DEF Unreadable, Receive, NoLimiter, OverQuota, Admitted, Disconnect, guardVars
  <2>2. CASE FailOver \/ Reject \/ PassOn \/ CutOff \/ Answer \/ Undecodable \/ GiveUp \/ Break
    BY <2>2 DEF FailOver, Reject, PassOn, CutOff, Answer, Undecodable, GiveUp, Break,
       guardVars
  <2>3. CASE Begin \/ EndOfStream
    BY <2>3 DEF Begin, Asking, EndOfStream, TripAtEnd, guardVars, Ended
  <2>4. CASE Chunk
    BY <2>4 DEF Chunk, Hold, Trip, Ended
  <2>. QED  BY <2>1, <2>2, <2>3, <2>4 DEF Next, Upstream
<1>. QED  BY <1>1, PTL DEF Spec, NothingAfterTheEnd
=============================================================================
