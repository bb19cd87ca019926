---------------------------- MODULE Payload_proofs ----------------------------
(***************************************************************************)
(* Proofs about what is sent to the providers, for any bodies, preference  *)
(* and max_input_tokens, and the lemmas about parts and sums of sequences  *)
(* they rest on; at the end the type invariant of ChatCompletion, which    *)
(* needs the invariants of the stream, its text, the turns and the body.   *)
(***************************************************************************)
EXTENDS SseText_proofs, FiniteSetTheorems

-----------------------------------------------------------------------------
(***************************************************************************)
(* Recursion up to a number.  That a recursive function is what it says    *)
(* is proved by looking at a least number where it would not be.           *)
(***************************************************************************)
\* Each value is made of the one before, by a step that may depend on the place.
Recursion(f, D, base, step, n) ==
  /\ f \in [0..n -> D] /\ f[0] = base
  /\ \A i \in 1..n : f[i] = step[i][f[i - 1]]

LEMMA RecursionExists ==
  ASSUME NEW D, NEW base \in D, NEW n \in Nat, NEW step \in [1..n -> [D -> D]]
  PROVE  \E f : Recursion(f, D, base, step, n)
<1>. DEFINE Has(m) == \E f : Recursion(f, D, base, step, m)
            S == {m \in 0..n : Has(m)}
<1>1. Has(0)
  <2>. DEFINE f == [i \in 0..0 |-> base]
  <2>1. Recursion(f, D, base, step, 0)
    BY DEF Recursion
  <2>. QED  BY <2>1
<1>2. ASSUME NEW m \in 1..n, Has(m - 1) PROVE Has(m)
  <2>1. PICK f : Recursion(f, D, base, step, m - 1)
    BY <1>2
  <2>. DEFINE g == [i \in 0..m |-> IF i = m THEN step[m][f[m - 1]] ELSE f[i]]
  <2>2. f \in [0..(m - 1) -> D] /\ f[m - 1] \in D /\ step[m][f[m - 1]] \in D
    BY <2>1 DEF Recursion
  <2>3. g \in [0..m -> D] /\ g[0] = base
    BY <2>1, <2>2 DEF Recursion
  <2>4. ASSUME NEW i \in 1..m PROVE g[i] = step[i][g[i - 1]]
    <3>1. CASE i = m
      <4>1. g[i] = step[m][f[m - 1]] /\ g[i - 1] = f[m - 1]
        BY <3>1
      <4>. HIDE DEF g
      <4>. QED  BY <3>1, <4>1
    <3>2. CASE i # m
      <4>1. i \in 1..(m - 1) /\ g[i] = f[i] /\ g[i - 1] = f[i - 1]
        BY <3>2
      <4>2. f[i] = step[i][f[i - 1]]
        BY <2>1, <4>1 DEF Recursion
      <4>. HIDE DEF g
      <4>. QED  BY <4>1, <4>2
    <3>. QED  BY <3>1, <3>2
  <2>. HIDE DEF g
  <2>5. Recursion(g, D, base, step, m)
    BY <2>3, <2>4 DEF Recursion
  <2>. QED  BY <2>5
<1>. HIDE DEF Has
<1>3. S \in SUBSET (0..n) /\ 0 \in S
  BY <1>1
<1>4. \A m \in 1..n : m - 1 \in S => m \in S
  BY <1>2
<1>5. n \in 0..n
  OBVIOUS
<1>6. n \in S
  <2>. HIDE DEF S
  <2>. QED  BY <1>3, <1>4, <1>5, Upward
<1>. QED  BY <1>6 DEF Has

-----------------------------------------------------------------------------
(***************************************************************************)
(* Picked: the elements of a sequence at some positions.                   *)
(***************************************************************************)
Picks(f, S, s, at) ==
  /\ f \in [0..Len(s) -> Seq(S)] /\ f[0] = <<>>
  /\ \A i \in 1..Len(s) : f[i] = IF i \in at THEN Append(f[i - 1], s[i]) ELSE f[i - 1]

LEMMA PickedIsEnd ==
  ASSUME NEW S, NEW s \in Seq(S), NEW at
  PROVE  /\ Len(s) \in Nat /\ Picked(s, at) \in Seq(S)
         /\ \E f : Picks(f, S, s, at) /\ Picked(s, at) = f[Len(s)]
<1>. DEFINE n == Len(s)
            Body(f) == [i \in 0..n |-> IF i = 0 THEN <<>>
                                       ELSE IF i \in at THEN Append(f[i - 1], s[i]) ELSE f[i - 1]]
            c == CHOOSE f : f = Body(f)
            step == [i \in 1..n |-> [x \in Seq(S) |-> IF i \in at THEN Append(x, s[i]) ELSE x]]
<1>1. n \in Nat /\ <<>> \in Seq(S) /\ \A i \in 1..n : s[i] \in S
  BY LenProperties, ElementOfSeq, EmptySeq
<1>2. Picked(s, at) = c[n]
  BY DEF Picked
<1>3. \E f : f = Body(f)
  <2>1. step \in [1..n -> [Seq(S) -> Seq(S)]]
    <3>1. \A i \in 1..n : \A x \in Seq(S) : Append(x, s[i]) \in Seq(S)
      BY <1>1, AppendProperties
    <3>. QED  BY <3>1
  <2>2. PICK f : Recursion(f, Seq(S), <<>>, step, n)
    <3>. HIDE DEF step, n
    <3>. QED  BY <1>1, <2>1, RecursionExists
  <2>3. f \in [0..n -> Seq(S)] /\ f[0] = <<>>
    BY <2>2 DEF Recursion
  <2>4. \A i \in 1..n : f[i] = IF i \in at THEN Append(f[i - 1], s[i]) ELSE f[i - 1]
    <3>. SUFFICES ASSUME NEW i \in 1..n
                  PROVE  f[i] = IF i \in at THEN Append(f[i - 1], s[i]) ELSE f[i - 1]
      OBVIOUS
    <3>1. f[i - 1] \in Seq(S)
      BY <1>1, <2>3
    <3>2. f[i] = step[i][f[i - 1]]
      <4>. HIDE DEF step
      <4>. QED  BY <2>2 DEF Recursion
    <3>. QED  BY <3>1, <3>2
  <2>5. \A i \in 0..n : f[i] = Body(f)[i]
    <3>. SUFFICES ASSUME NEW i \in 0..n PROVE f[i] = Body(f)[i]
      OBVIOUS
    <3>1. i = 0 \/ i \in 1..n
      BY <1>1
    <3>. QED  BY <2>3, <2>4, <3>1
  <2>6. f = Body(f)
    <3>1. f = [i \in 0..n |-> f[i]]
      BY <2>3
    <3>. QED  BY <2>5, <3>1
  <2>. QED  BY <2>6
<1>4. c = Body(c)
  BY <1>3
<1>. HIDE DEF c, step
<1>5. c[0] = <<>> /\ \A i \in 1..n : c[i] = IF i \in at THEN Append(c[i - 1], s[i]) ELSE c[i - 1]
  <2>1. 0 \in 0..n /\ \A i \in 1..n : i \in 0..n /\ i # 0
    BY <1>1
  <2>2. \A i \in 0..n : c[i] = IF i = 0 THEN <<>>
                               ELSE IF i \in at THEN Append(c[i - 1], s[i]) ELSE c[i - 1]
    BY <1>4
  <2>. QED  BY <2>1, <2>2
<1>6. \A i \in 0..n : c[i] \in Seq(S)
  <2>. DEFINE T == {i \in 0..n : c[i] \in Seq(S)}
  <2>0. 0 \in 0..n /\ c[0] \in Seq(S)
    BY <1>1, <1>5
  <2>1. T \in SUBSET (0..n) /\ 0 \in T
    BY <2>0
  <2>2. ASSUME NEW i \in 1..n, i - 1 \in T PROVE i \in T
    <3>1. i \in 0..n /\ c[i - 1] \in Seq(S) /\ Append(c[i - 1], s[i]) \in Seq(S)
      BY <1>1, <2>2, AppendProperties
    <3>. QED  BY <1>5, <3>1
  <2>3. \A i \in 0..n : i \in T
    <3>. HIDE DEF T
    <3>. QED  BY <1>1, <2>1, <2>2, Upward
  <2>. QED  BY <2>3
<1>7. c \in [0..n -> Seq(S)]
  BY <1>4, <1>6
<1>8. Picks(c, S, s, at)
  BY <1>5, <1>7 DEF Picks
<1>9. n \in 0..n
  BY <1>1
<1>. QED  BY <1>1, <1>2, <1>6, <1>8, <1>9

-----------------------------------------------------------------------------
(***************************************************************************)
(* Total: what a sequence of numbers adds up to.                           *)
(***************************************************************************)
SumsUp(f, s) ==
  /\ f \in [0..Len(s) -> Nat] /\ f[0] = 0
  /\ \A i \in 1..Len(s) : f[i] = f[i - 1] + s[i]

LEMMA NumbersAre ==
  ASSUME NEW s \in Seq(Nat)
  PROVE  /\ Len(s) \in Nat /\ Len(s) \in 0..Len(s) /\ 0 \in 0..Len(s)
         /\ DOMAIN s = 1..Len(s) /\ \A i \in 1..Len(s) : s[i] \in Nat
BY LenProperties, ElementOfSeq

\* Whatever counts like the sum is the sum.
LEMMA TotalIs ==
  ASSUME NEW s \in Seq(Nat), NEW f, SumsUp(f, s)
  PROVE  Total(s) = f[Len(s)]
<1>. DEFINE n == Len(s)
            Body(g) == [i \in 0..n |-> IF i = 0 THEN 0 ELSE g[i - 1] + s[i]]
            c == CHOOSE g : g = Body(g)
            S == {i \in 0..n : c[i] = f[i]}
<1>1. n \in Nat /\ n \in 0..n /\ 0 \in 0..n /\ \A i \in 1..n : s[i] \in Nat
  BY NumbersAre
<1>2. Total(s) = c[n]
  BY DEF Total
<1>3. f = Body(f)
  <2>1. \A i \in 0..n : f[i] = Body(f)[i]
    <3>. SUFFICES ASSUME NEW i \in 0..n PROVE f[i] = Body(f)[i]
      OBVIOUS
    <3>1. i = 0 \/ i \in 1..n
      BY <1>1
    <3>. QED  BY <3>1 DEF SumsUp
  <2>2. f = [i \in 0..n |-> f[i]]
    BY DEF SumsUp
  <2>. QED  BY <2>1, <2>2
<1>4. c = Body(c)
  BY <1>3
<1>. HIDE DEF c
<1>5. \A i \in 0..n : c[i] = IF i = 0 THEN 0 ELSE c[i - 1] + s[i]
  BY <1>4
<1>. HIDE DEF n
<1>6. f[0] = 0 /\ \A i \in 1..n : f[i] = f[i - 1] + s[i]
  BY DEF SumsUp, n
<1>7. S \in SUBSET (0..n) /\ 0 \in S
  BY <1>1, <1>5, <1>6
<1>8. ASSUME NEW i \in 1..n, i - 1 \in S PROVE i \in S
  <2>1. i \in 0..n /\ i # 0 /\ c[i - 1] = f[i - 1]
    BY <1>1, <1>8
  <2>. QED  BY <1>5, <1>6, <2>1
<1>9. n \in S
  <2>. HIDE DEF S
  <2>. QED  BY <1>1, <1>7, <1>8, Upward
<1>. QED  BY <1>2, <1>9 DEF n

LEMMA TotalIsEnd ==
  ASSUME NEW s \in Seq(Nat)
  PROVE  Total(s) \in Nat /\ \E f : SumsUp(f, s) /\ Total(s) = f[Len(s)]
<1>. DEFINE n == Len(s)
            step == [i \in 1..n |-> [x \in Nat |-> x + s[i]]]
<1>1. n \in Nat /\ n \in 0..n /\ \A i \in 1..n : s[i] \in Nat
  BY NumbersAre
<1>2. step \in [1..n -> [Nat -> Nat]]
  BY <1>1
<1>3. PICK f : Recursion(f, Nat, 0, step, n)
  <2>. HIDE DEF step, n
  <2>. QED  BY <1>1, <1>2, RecursionExists
<1>4. f \in [0..n -> Nat] /\ f[0] = 0
  BY <1>3 DEF Recursion
<1>5. ASSUME NEW i \in 1..n PROVE f[i] = f[i - 1] + s[i]
  <2>1. i - 1 \in 0..n /\ f[i - 1] \in Nat
    BY <1>1, <1>4
  <2>2. f[i] = step[i][f[i - 1]]
    <3>. HIDE DEF step
    <3>. QED  BY <1>3 DEF Recursion
  <2>. QED  BY <2>1, <2>2
<1>6. SumsUp(f, s)
  BY <1>4, <1>5 DEF SumsUp
<1>7. Total(s) = f[n]
  BY <1>6, TotalIs
<1>8. f[n] \in Nat
  BY <1>1, <1>4
<1>. QED  BY <1>6, <1>7, <1>8

\* The sum of two parts is the sum of their sums.
LEMMA TotalConcat ==
  ASSUME NEW s \in Seq(Nat), NEW t \in Seq(Nat)
  PROVE  s \o t \in Seq(Nat) /\ Total(s \o t) = Total(s) + Total(t)
<1>. DEFINE l == Len(s)
            k == Len(t)
            w == s \o t
<1>1. /\ l \in Nat /\ k \in Nat
      /\ \A i \in 1..l : s[i] \in Nat
      /\ \A i \in 1..k : t[i] \in Nat
  BY NumbersAre
<1>2. /\ w \in Seq(Nat) /\ Len(w) = l + k
      /\ \A i \in 1..(l + k) : w[i] = IF i <= l THEN s[i] ELSE t[i - l]
  BY ConcatProperties
<1>3. PICK f : SumsUp(f, s) /\ Total(s) = f[l]
  BY TotalIsEnd
<1>4. PICK g : SumsUp(g, t) /\ Total(t) = g[k]
  BY TotalIsEnd
<1>. HIDE DEF w
<1>. DEFINE h == [i \in 0..(l + k) |-> IF i <= l THEN f[i] ELSE f[l] + g[i - l]]
<1>5. /\ f \in [0..l -> Nat] /\ f[0] = 0 /\ \A i \in 1..l : f[i] = f[i - 1] + s[i]
      /\ g \in [0..k -> Nat] /\ g[0] = 0 /\ \A i \in 1..k : g[i] = g[i - 1] + t[i]
  BY <1>3, <1>4 DEF SumsUp
<1>. HIDE DEF l, k
<1>6. f[l] \in Nat
  BY <1>1, <1>5
<1>7. h \in [0..(l + k) -> Nat] /\ h[0] = 0
  <2>1. ASSUME NEW i \in 0..(l + k) PROVE h[i] \in Nat
    <3>1. CASE i <= l
      <4>1. i \in 0..l
        BY <1>1, <3>1
      <4>. QED  BY <1>5, <3>1, <4>1
    <3>2. CASE ~ (i <= l)
      <4>1. i - l \in 0..k
        BY <1>1, <3>2
      <4>. QED  BY <1>5, <1>6, <3>2, <4>1
    <3>. QED  BY <3>1, <3>2
  <2>2. 0 \in 0..(l + k) /\ 0 <= l
    BY <1>1
  <2>. QED  BY <1>5, <2>1, <2>2
<1>8. ASSUME NEW i \in 1..(l + k) PROVE h[i] = h[i - 1] + w[i]
  <2>1. i \in 0..(l + k) /\ i - 1 \in 0..(l + k)
    BY <1>1
  <2>2. CASE i <= l
    <3>1. i \in 1..l /\ i - 1 <= l
      BY <1>1, <2>2
    <3>2. h[i] = f[i] /\ h[i - 1] = f[i - 1] /\ w[i] = s[i]
      BY <1>2, <2>1, <2>2, <3>1
    <3>. HIDE DEF h
    <3>. QED  BY <1>5, <3>1, <3>2
  <2>3. CASE i = l + 1
    <3>1. 1 \in 1..k /\ i - l = 1 /\ i - 1 = l /\ ~ (i <= l) /\ l <= l
      BY <1>1, <2>3
    <3>2. h[i] = f[l] + g[1] /\ h[i - 1] = f[l] /\ w[i] = t[1]
      BY <1>2, <2>1, <3>1
    <3>3. g[1] = g[0] + t[1] /\ t[1] \in Nat
      <4>1. g[1] = g[1 - 1] + t[1] /\ 1 - 1 = 0
        BY <1>5, <3>1
      <4>. QED  BY <1>1, <3>1, <4>1
    <3>. HIDE DEF h
    <3>. QED  BY <1>5, <1>6, <3>2, <3>3
  <2>4. CASE l + 1 < i
    <3>1. i - l \in 1..k /\ (i - 1) - l = (i - l) - 1 /\ ~ (i <= l) /\ ~ (i - 1 <= l)
      BY <1>1, <2>4
    <3>2. h[i] = f[l] + g[i - l] /\ h[i - 1] = f[l] + g[(i - l) - 1] /\ w[i] = t[i - l]
      BY <1>2, <2>1, <3>1
    <3>3. g[i - l] = g[(i - l) - 1] + t[i - l] /\ t[i - l] \in Nat
      BY <1>1, <1>5, <3>1
    <3>4. g[(i - l) - 1] \in Nat
      <4>1. (i - l) - 1 \in 0..k
        BY <1>1, <3>1
      <4>. QED  BY <1>5, <4>1
    <3>. HIDE DEF h
    <3>. QED  BY <1>6, <3>2, <3>3, <3>4
  <2>. QED  BY <1>1, <2>2, <2>3, <2>4
<1>9. h[l + k] = f[l] + g[k]
  <2>1. l + k \in 0..(l + k) /\ (l + k) - l = k
    BY <1>1
  <2>2. CASE k = 0
    <3>1. l + k = l /\ l <= l
      BY <1>1, <2>2
    <3>. QED  BY <1>5, <1>6, <2>1, <2>2, <3>1
  <2>3. CASE k # 0
    <3>1. ~ (l + k <= l)
      BY <1>1, <2>3
    <3>. QED  BY <2>1, <3>1
  <2>. QED  BY <2>2, <2>3
<1>. HIDE DEF h
<1>10. SumsUp(h, w)
  BY <1>2, <1>7, <1>8 DEF SumsUp
<1>11. Total(w) = h[l + k]
  BY <1>2, <1>10, TotalIs
<1>. QED  BY <1>2, <1>3, <1>4, <1>9, <1>11 DEF w, l, k

LEMMA TotalOfOne ==
  ASSUME NEW x \in Nat
  PROVE  Total(<<>>) = 0 /\ <<x>> \in Seq(Nat) /\ Total(<<x>>) = x
<1>. DEFINE f == [i \in 0..0 |-> 0]
            g == [i \in 0..1 |-> IF i = 0 THEN 0 ELSE x]
<1>1. <<>> \in Seq(Nat) /\ Len(<<>>) = 0 /\ <<x>> \in Seq(Nat) /\ Len(<<x>>) = 1 /\ <<x>>[1] = x
  BY EmptySeq
<1>2. SumsUp(f, <<>>) /\ f[0] = 0
  BY <1>1 DEF SumsUp
<1>3. SumsUp(g, <<x>>) /\ g[1] = x
  BY <1>1 DEF SumsUp
<1>. HIDE DEF f, g
<1>. QED  BY <1>1, <1>2, <1>3, TotalIs

LEMMA TotalAppend ==
  ASSUME NEW s \in Seq(Nat), NEW x \in Nat
  PROVE  Append(s, x) \in Seq(Nat) /\ Total(Append(s, x)) = Total(s) + x
<1>1. Append(s, x) = s \o <<x>>
  BY AppendIsConcat
<1>. QED  BY <1>1, TotalConcat, TotalOfOne

\* Sums of the like are alike: what is smaller in every place is smaller, and
\* what is the sum in every place is the sum.
LEMMA TotalBelow ==
  ASSUME NEW s \in Seq(Nat), NEW t \in Seq(Nat), Len(s) = Len(t),
         \A i \in 1..Len(s) : s[i] <= t[i]
  PROVE  Total(s) <= Total(t)
<1>. DEFINE n == Len(s)
<1>1. PICK f : SumsUp(f, s) /\ Total(s) = f[n]
  BY TotalIsEnd
<1>2. PICK g : SumsUp(g, t) /\ Total(t) = g[n]
  BY TotalIsEnd
<1>3. /\ n \in Nat /\ n \in 0..n /\ 0 \in 0..n
      /\ \A i \in 1..n : s[i] \in Nat /\ t[i] \in Nat /\ s[i] <= t[i]
  BY NumbersAre
<1>4. /\ f \in [0..n -> Nat] /\ f[0] = 0 /\ \A i \in 1..n : f[i] = f[i - 1] + s[i]
      /\ g \in [0..n -> Nat] /\ g[0] = 0 /\ \A i \in 1..n : g[i] = g[i - 1] + t[i]
  BY <1>1, <1>2 DEF SumsUp
<1>. HIDE DEF n
<1>. DEFINE S == {i \in 0..n : f[i] <= g[i]}
<1>5. S \in SUBSET (0..n) /\ 0 \in S
  BY <1>3, <1>4
<1>6. ASSUME NEW i \in 1..n, i - 1 \in S PROVE i \in S
  <2>1. i \in 0..n /\ f[i - 1] <= g[i - 1] /\ f[i - 1] \in Nat /\ g[i - 1] \in Nat
    BY <1>3, <1>4, <1>6
  <2>2. s[i] \in Nat /\ t[i] \in Nat /\ s[i] <= t[i]
    BY <1>3
  <2>3. f[i] <= g[i]
    BY <1>4, <2>1, <2>2
  <2>. QED  BY <2>1, <2>3
<1>7. n \in S
  <2>. HIDE DEF S
  <2>. QED  BY <1>3, <1>5, <1>6, Upward
<1>. QED  BY <1>1, <1>2, <1>7

AddUp(s, t, u, n) ==
  \A i \in 1..n : s[i] \in Nat /\ t[i] \in Nat /\ u[i] = s[i] + t[i]
Sums(f, s, n) ==
  f \in [0..n -> Nat] /\ f[0] = 0 /\ \A i \in 1..n : f[i] = f[i - 1] + s[i]

LEMMA SumsAdd ==
  ASSUME NEW n \in Nat, NEW s, NEW t, NEW u, NEW f, NEW g,
         Sums(f, s, n), Sums(g, t, n), AddUp(s, t, u, n)
  PROVE  \E h : Sums(h, u, n) /\ h[n] = f[n] + g[n]
<1>0. /\ f \in [0..n -> Nat] /\ f[0] = 0 /\ \A i \in 1..n : f[i] = f[i - 1] + s[i]
      /\ g \in [0..n -> Nat] /\ g[0] = 0 /\ \A i \in 1..n : g[i] = g[i - 1] + t[i]
  BY DEF Sums
<1>. DEFINE h == [i \in 0..n |-> f[i] + g[i]]
<1>1. h \in [0..n -> Nat] /\ h[0] = 0 /\ h[n] = f[n] + g[n]
  BY <1>0
<1>2. ASSUME NEW i \in 1..n PROVE h[i] = h[i - 1] + u[i]
  <2>1. i \in 0..n /\ i - 1 \in 0..n
    OBVIOUS
  <2>2. h[i] = f[i] + g[i] /\ h[i - 1] = f[i - 1] + g[i - 1]
    BY <2>1
  <2>. DEFINE a == f[i - 1]
              b == g[i - 1]
              c == s[i]
              d == t[i]
  <2>3. a \in Nat /\ b \in Nat /\ c \in Nat /\ d \in Nat
    BY <1>0, <2>1 DEF AddUp
  <2>4. f[i] = a + c /\ g[i] = b + d /\ u[i] = c + d
    BY <1>0 DEF AddUp
  <2>. HIDE DEF h, a, b, c, d
  <2>5. h[i] = (a + c) + (b + d) /\ h[i - 1] + u[i] = (a + b) + (c + d)
    BY <2>2, <2>4 DEF a, b
  <2>6. (a + c) + (b + d) = (a + b) + (c + d)
    BY <2>3
  <2>. QED  BY <2>5, <2>6
<1>. QED  BY <1>1, <1>2 DEF Sums

LEMMA TotalAdds ==
  ASSUME NEW s \in Seq(Nat), NEW t \in Seq(Nat), NEW u \in Seq(Nat),
         Len(s) = Len(u), Len(t) = Len(u), \A i \in 1..Len(u) : u[i] = s[i] + t[i]
  PROVE  Total(u) = Total(s) + Total(t)
<1>. DEFINE n == Len(u)
<1>1. PICK f : SumsUp(f, s) /\ Total(s) = f[n]
  BY TotalIsEnd
<1>2. PICK g : SumsUp(g, t) /\ Total(t) = g[n]
  BY TotalIsEnd
<1>3. n \in Nat /\ AddUp(s, t, u, n)
  BY NumbersAre DEF AddUp
<1>4. Sums(f, s, n) /\ Sums(g, t, n)
  BY <1>1, <1>2 DEF Sums, SumsUp
<1>. HIDE DEF n
<1>5. PICK h : Sums(h, u, n) /\ h[n] = f[n] + g[n]
  BY <1>3, <1>4, SumsAdd
<1>6. SumsUp(h, u)
  BY <1>5 DEF Sums, SumsUp, n
<1>. QED  BY <1>1, <1>2, <1>5, <1>6, TotalIs DEF n

-----------------------------------------------------------------------------
(***************************************************************************)
(* What the elements of a sequence weigh: a number for each, and their sum.*)
(***************************************************************************)
Mapped(F, s) == [i \in DOMAIN s |-> F[s[i]]]
IsMap(F, S, R) == F \in [S -> R]
Weight(F, s) == Total(Mapped(F, s))

LEMMA AsSequence ==
  ASSUME NEW S, NEW n \in Nat, NEW f \in [1..n -> S]
  PROVE  f \in Seq(S) /\ Len(f) = n
OBVIOUS

LEMMA MappedType ==
  ASSUME NEW S, NEW R, NEW F, IsMap(F, S, R), NEW s \in Seq(S)
  PROVE  Mapped(F, s) \in Seq(R) /\ Len(Mapped(F, s)) = Len(s) /\ Len(s) \in Nat
<1>1. Len(s) \in Nat /\ DOMAIN s = 1..Len(s) /\ \A i \in 1..Len(s) : s[i] \in S
  BY LenProperties, ElementOfSeq
<1>2. Mapped(F, s) \in [1..Len(s) -> R]
  BY <1>1 DEF Mapped, IsMap
<1>. QED  BY <1>1, <1>2, AsSequence

LEMMA MappedAt ==
  ASSUME NEW S, NEW R, NEW F, IsMap(F, S, R), NEW s \in Seq(S), NEW i \in 1..Len(s)
  PROVE  Mapped(F, s)[i] = F[s[i]] /\ s[i] \in S /\ F[s[i]] \in R
<1>1. DOMAIN s = 1..Len(s) /\ s[i] \in S
  BY LenProperties, ElementOfSeq
<1>. QED  BY <1>1 DEF Mapped, IsMap

LEMMA MappedConcat ==
  ASSUME NEW S, NEW R, NEW F, IsMap(F, S, R), NEW s \in Seq(S), NEW t \in Seq(S)
  PROVE  s \o t \in Seq(S) /\ Mapped(F, s \o t) = Mapped(F, s) \o Mapped(F, t)
<1>. DEFINE w == s \o t
            a == Mapped(F, s)
            b == Mapped(F, t)
            m == Mapped(F, w)
            l == Len(s)
            k == Len(t)
<1>0. w \in Seq(S)
  BY ConcatProperties
<1>1. Len(w) = l + k
  BY ConcatProperties
<1>2. a \in Seq(R) /\ Len(a) = l /\ l \in Nat
  BY MappedType
<1>3. b \in Seq(R) /\ Len(b) = k /\ k \in Nat
  BY MappedType
<1>4. m \in Seq(R) /\ Len(m) = l + k
  <2>. HIDE DEF w, l, k
  <2>1. m \in Seq(R) /\ Len(m) = Len(w)
    BY <1>0, MappedType
  <2>. HIDE DEF m
  <2>. QED  BY <1>1, <2>1
<1>5. a \o b \in Seq(R) /\ Len(a \o b) = l + k
  <2>. HIDE DEF a, b, l, k
  <2>1. a \o b \in Seq(R) /\ Len(a \o b) = Len(a) + Len(b)
    BY <1>2, <1>3, ConcatProperties
  <2>. QED  BY <1>2, <1>3, <2>1
<1>6. ASSUME NEW i \in 1..(l + k) PROVE m[i] = (a \o b)[i]
  <2>1. w[i] = IF i <= l THEN s[i] ELSE t[i - l]
    BY ConcatProperties
  <2>2. m[i] = F[w[i]]
    <3>1. i \in 1..Len(w)
      BY <1>1
    <3>. HIDE DEF w
    <3>. QED  BY <1>0, <3>1, MappedAt
  <2>3. (a \o b)[i] = IF i <= l THEN a[i] ELSE b[i - l]
    <3>1. i \in 1..(Len(a) + Len(b))
      BY <1>2, <1>3
    <3>. HIDE DEF a, b
    <3>. QED  BY <1>2, <1>3, <3>1, ConcatProperties
  <2>4. CASE i <= l
    <3>1. i \in 1..l
      BY <1>2, <2>4
    <3>2. a[i] = F[s[i]]
      BY <3>1, MappedAt
    <3>. HIDE DEF a, b, m, w, l
    <3>. QED  BY <2>1, <2>2, <2>3, <2>4, <3>2
  <2>5. CASE ~ (i <= l)
    <3>1. i - l \in 1..k
      BY <1>2, <1>3, <2>5
    <3>2. b[i - l] = F[t[i - l]]
      BY <3>1, MappedAt
    <3>. HIDE DEF a, b, m, w, l
    <3>. QED  BY <2>1, <2>2, <2>3, <2>5, <3>2
  <2>. QED  BY <2>4, <2>5
<1>7. m = a \o b
  <2>. HIDE DEF a, b, m, l, k
  <2>. QED  BY <1>4, <1>5, <1>6, SeqEqual
<1>. QED  BY <1>0, <1>7

LEMMA WeightOfNone ==
  ASSUME NEW F
  PROVE  Weight(F, <<>>) = 0
<1>1. Mapped(F, <<>>) = <<>>
  BY DEF Mapped
<1>2. Total(<<>>) = 0
  BY TotalOfOne
<1>. QED  BY <1>1, <1>2 DEF Weight

LEMMA WeightOfOne ==
  ASSUME NEW S, NEW F, IsMap(F, S, Nat), NEW x \in S
  PROVE  <<x>> \in Seq(S) /\ F[x] \in Nat /\ Weight(F, <<x>>) = F[x]
<1>1. <<x>> \in Seq(S) /\ F[x] \in Nat
  BY DEF IsMap
<1>2. Mapped(F, <<x>>) = <<F[x]>>
  BY DEF Mapped
<1>3. Total(<<F[x]>>) = F[x]
  BY <1>1, TotalOfOne
<1>. QED  BY <1>1, <1>2, <1>3 DEF Weight

LEMMA WeightType ==
  ASSUME NEW S, NEW F, IsMap(F, S, Nat), NEW s \in Seq(S)
  PROVE  Weight(F, s) \in Nat
<1>1. Mapped(F, s) \in Seq(Nat)
  BY MappedType
<1>. QED  BY <1>1, TotalIsEnd DEF Weight

LEMMA WeightConcat ==
  ASSUME NEW S, NEW F, IsMap(F, S, Nat), NEW s \in Seq(S), NEW t \in Seq(S)
  PROVE  Weight(F, s \o t) = Weight(F, s) + Weight(F, t)
<1>1. Mapped(F, s) \in Seq(Nat) /\ Mapped(F, t) \in Seq(Nat)
  BY MappedType
<1>2. s \o t \in Seq(S)
  BY ConcatProperties
<1>4. Mapped(F, s \o t) = Mapped(F, s) \o Mapped(F, t)
  BY MappedConcat
<1>3. Total(Mapped(F, s) \o Mapped(F, t)) = Total(Mapped(F, s)) + Total(Mapped(F, t))
  BY <1>1, TotalConcat
<1>. QED  BY <1>2, <1>3, <1>4 DEF Weight

LEMMA WeightAppend ==
  ASSUME NEW S, NEW F, IsMap(F, S, Nat), NEW s \in Seq(S), NEW x \in S
  PROVE  Weight(F, Append(s, x)) = Weight(F, s) + F[x]
<1>1. Append(s, x) = s \o <<x>>
  BY AppendIsConcat
<1>2. <<x>> \in Seq(S) /\ Weight(F, <<x>>) = F[x]
  BY WeightOfOne
<1>3. Weight(F, s \o <<x>>) = Weight(F, s) + Weight(F, <<x>>)
  BY <1>2, WeightConcat
<1>. QED  BY <1>1, <1>2, <1>3

\* What was picked weighs as much as the whole in which the rest weighs nothing.
Counted(F, s, at) == [i \in 1..Len(s) |-> IF i \in at THEN F[s[i]] ELSE 0]

LEMMA WeightOfPicked ==
  ASSUME NEW S, NEW F, IsMap(F, S, Nat), NEW s \in Seq(S), NEW at
  PROVE  /\ Counted(F, s, at) \in Seq(Nat) /\ Len(Counted(F, s, at)) = Len(s)
         /\ Picked(s, at) \in Seq(S)
         /\ Weight(F, Picked(s, at)) = Total(Counted(F, s, at))
<1>. DEFINE n == Len(s)
            c == Counted(F, s, at)
<1>1. n \in Nat /\ n \in 0..n /\ \A i \in 1..n : s[i] \in S /\ F[s[i]] \in Nat
  BY LenProperties, ElementOfSeq DEF IsMap
<1>2. PICK p : Picks(p, S, s, at) /\ Picked(s, at) = p[n]
  BY PickedIsEnd
<1>3. /\ p \in [0..n -> Seq(S)] /\ p[0] = <<>>
      /\ \A i \in 1..n : p[i] = IF i \in at THEN Append(p[i - 1], s[i]) ELSE p[i - 1]
  BY <1>2 DEF Picks
<1>4. c \in [1..n -> Nat] /\ \A i \in 1..n : c[i] = IF i \in at THEN F[s[i]] ELSE 0
  BY <1>1 DEF Counted
<1>5. c \in Seq(Nat) /\ Len(c) = n
  BY <1>1, <1>4, AsSequence
<1>. HIDE DEF c
<1>. DEFINE q == [i \in 0..n |-> Weight(F, p[i])]
<1>6. \A i \in 0..n : q[i] = Weight(F, p[i]) /\ p[i] \in Seq(S) /\ q[i] \in Nat
  BY <1>3, WeightType
<1>7. q \in [0..n -> Nat] /\ q[0] = 0
  <2>1. 0 \in 0..n /\ Weight(F, <<>>) = 0
    BY <1>1, WeightOfNone
  <2>. QED  BY <1>3, <1>6, <2>1
<1>8. ASSUME NEW i \in 1..n PROVE q[i] = q[i - 1] + c[i]
  <2>1. i \in 0..n /\ i - 1 \in 0..n
    BY <1>1
  <2>2. q[i] = Weight(F, p[i]) /\ q[i - 1] = Weight(F, p[i - 1]) /\ q[i - 1] \in Nat
        /\ p[i - 1] \in Seq(S)
    BY <1>6, <2>1
  <2>3. s[i] \in S /\ p[i] = (IF i \in at THEN Append(p[i - 1], s[i]) ELSE p[i - 1])
        /\ c[i] = (IF i \in at THEN F[s[i]] ELSE 0)
    BY <1>1, <1>3, <1>4
  <2>. HIDE DEF q, n
  <2>4. CASE i \in at
    <3>1. Weight(F, Append(p[i - 1], s[i])) = Weight(F, p[i - 1]) + F[s[i]]
      <4>1. s[i] \in S /\ p[i - 1] \in Seq(S)
        BY <2>2, <2>3
      <4>. QED  BY <4>1, WeightAppend
    <3>. QED  BY <2>2, <2>3, <2>4, <3>1
  <2>5. CASE i \notin at
    <3>1. q[i] = q[i - 1] /\ c[i] = 0
      BY <2>2, <2>3, <2>5
    <3>. QED  BY <2>2, <3>1
  <2>. QED  BY <2>4, <2>5
<1>9. q[n] = Weight(F, Picked(s, at))
  BY <1>1, <1>2, <1>6
<1>. HIDE DEF q
<1>10. SumsUp(q, c)
  BY <1>5, <1>7, <1>8 DEF SumsUp
<1>11. Total(c) = q[n]
  BY <1>5, <1>10, TotalIs
<1>. QED  BY <1>2, <1>5, <1>9, <1>11, PickedIsEnd DEF c

-----------------------------------------------------------------------------
(***************************************************************************)
(* Texts that are joined: with a gap behind each they are no shorter.      *)
(***************************************************************************)
\* The first element weighs no more than the whole.
LEMMA FirstWeighs ==
  ASSUME NEW S, NEW F, IsMap(F, S, Nat), NEW s \in Seq(S), s # <<>>
  PROVE  s[1] \in S /\ F[s[1]] \in Nat /\ F[s[1]] <= Weight(F, s)
<1>. DEFINE x == s[1]
            rest == SubSeq(s, 2, Len(s))
<1>1. Len(s) \in Nat \ {0}
  BY EmptySeq
<1>2. 1 \in 1..Len(s) /\ Len(s) \in 1..Len(s)
  BY <1>1
<1>3. s = <<x>> \o rest
  <2>1. SubSeq(s, 1, Len(s)) = <<s[1]>> \o SubSeq(s, 1 + 1, Len(s))
    BY <1>2, SubSeqRecursiveFirst
  <2>2. SubSeq(s, 1, Len(s)) = s
    BY SubSeqFull
  <2>. QED  BY <2>1, <2>2
<1>4. x \in S
  BY <1>2, ElementOfSeq
<1>5. rest \in Seq(S)
  <2>1. \A i \in 2..Len(s) : i \in 1..Len(s)
    BY <1>1
  <2>2. 2 \in Int /\ Len(s) \in Int /\ \A i \in 2..Len(s) : s[i] \in S
    BY <1>1, <2>1, ElementOfSeq
  <2>. QED  BY <2>2, SubSeqProperties
<1>. HIDE DEF x, rest
<1>6. <<x>> \in Seq(S) /\ F[x] \in Nat /\ Weight(F, <<x>>) = F[x]
  BY <1>4, WeightOfOne
<1>7. Weight(F, <<x>> \o rest) = Weight(F, <<x>>) + Weight(F, rest) /\ Weight(F, rest) \in Nat
  BY <1>5, <1>6, WeightConcat, WeightType
<1>8. Weight(F, s) = F[x] + Weight(F, rest)
  BY <1>3, <1>6, <1>7
<1>. QED  BY <1>4, <1>6, <1>7, <1>8 DEF x

LEMMA JoinedIsShort ==
  ASSUME NEW gap \in Nat, NEW s \in Seq(Nat), NEW t \in Seq(Nat), Len(s) = Len(t),
         \A i \in 1..Len(s) : s[i] > 0 => s[i] + gap <= t[i]
  PROVE  Joined(s, gap) \in Nat /\ Joined(s, gap) <= Total(t)
<1>. DEFINE at == {i \in DOMAIN s : s[i] > 0}
            used == Picked(s, at)
            behind(n) == n + gap
            B == [n \in Nat |-> n + gap]
            c == Counted(B, s, at)
<1>1. IsMap(B, Nat, Nat)
  BY DEF IsMap
<1>2. DOMAIN s = 1..Len(s) /\ \A i \in 1..Len(s) : s[i] \in Nat /\ t[i] \in Nat
  BY NumbersAre
<1>3. ASSUME NEW i \in 1..Len(s) PROVE c[i] <= t[i]
  <2>1. c[i] = IF i \in at THEN B[s[i]] ELSE 0
    BY DEF Counted
  <2>2. s[i] \in Nat /\ t[i] \in Nat /\ (i \in at <=> s[i] > 0)
    BY <1>2
  <2>3. B[s[i]] = s[i] + gap
    BY <2>2
  <2>. HIDE DEF c, B, at
  <2>. QED  BY <2>1, <2>2, <2>3
<1>. HIDE DEF B, at
<1>4. c \in Seq(Nat) /\ Len(c) = Len(s) /\ used \in Seq(Nat) /\ Weight(B, used) = Total(c)
  BY <1>1, WeightOfPicked
<1>. HIDE DEF c, used
<1>5. Total(c) <= Total(t) /\ Total(c) \in Nat /\ Total(t) \in Nat
  BY <1>3, <1>4, TotalBelow, TotalIsEnd
<1>6. Joined(s, gap) = IF used = <<>> THEN 0 ELSE Chars(used, behind) - gap
  BY DEF Joined, used, at
<1>7. Chars(used, behind) = Weight(B, used)
  <2>1. \A i \in DOMAIN used : used[i] \in Nat
    BY <1>4, NumbersAre
  <2>2. [i \in DOMAIN used |-> behind(used[i])] = Mapped(B, used)
    BY <2>1 DEF Mapped, B
  <2>. QED  BY <2>2 DEF Chars, Weight
<1>8. used # <<>> => gap <= Weight(B, used)
  <2>. SUFFICES ASSUME used # <<>> PROVE gap <= Weight(B, used)
    OBVIOUS
  <2>1. used[1] \in Nat /\ B[used[1]] \in Nat /\ B[used[1]] <= Weight(B, used)
    BY <1>1, <1>4, FirstWeighs
  <2>2. B[used[1]] = used[1] + gap
    BY <2>1 DEF B
  <2>. QED  BY <1>4, <1>5, <2>1, <2>2
<1>. HIDE DEF behind
<1>9. CASE used = <<>>
  BY <1>5, <1>6, <1>9
<1>10. CASE used # <<>>
  <2>. DEFINE w == Weight(B, used)
  <2>1. w \in Nat /\ gap <= w /\ w <= Total(t) /\ Joined(s, gap) = w - gap
    BY <1>4, <1>5, <1>6, <1>7, <1>8, <1>10
  <2>. HIDE DEF w
  <2>. QED  BY <1>5, <2>1
<1>. QED  BY <1>9, <1>10

\* Places are counted by a one for each of them.
Ones(B, n) == [i \in 1..n |-> IF i \in B THEN 1 ELSE 0]

LEMMA CountIsTotal ==
  ASSUME NEW n \in Nat, NEW B \in SUBSET (1..n)
  PROVE  Ones(B, n) \in Seq(Nat) /\ Len(Ones(B, n)) = n /\ Total(Ones(B, n)) = Cardinality(B)
<1>. DEFINE upTo(i) == B \cap (1..i)
            c == Ones(B, n)
            f == [i \in 0..n |-> Cardinality(upTo(i))]
<1>1. c \in Seq(Nat) /\ Len(c) = n
  <2>1. c \in [1..n -> Nat]
    BY DEF Ones
  <2>. HIDE DEF c
  <2>. QED  BY <2>1, AsSequence
<1>2. \A i \in 1..n : c[i] = IF i \in B THEN 1 ELSE 0
  BY DEF Ones
<1>. HIDE DEF c
<1>3. ASSUME NEW i \in 0..n
      PROVE  IsFiniteSet(upTo(i)) /\ Cardinality(upTo(i)) \in Nat
  <2>1. IsFiniteSet(1..i) /\ upTo(i) \in SUBSET (1..i)
    BY FS_Interval
  <2>. HIDE DEF upTo
  <2>. QED  BY <2>1, FS_Subset, FS_CardinalityType
<1>4. ASSUME NEW i \in 1..n
      PROVE  Cardinality(upTo(i)) = Cardinality(upTo(i - 1)) + c[i]
  <2>1. i - 1 \in 0..n /\ i \notin upTo(i - 1)
    OBVIOUS
  <2>2. IsFiniteSet(upTo(i - 1)) /\ Cardinality(upTo(i - 1)) \in Nat
    <3>. HIDE DEF upTo
    <3>. QED  BY <1>3, <2>1
  <2>3. CASE i \in B
    <3>1. upTo(i) = upTo(i - 1) \cup {i}
      BY <2>3
    <3>. HIDE DEF upTo
    <3>2. Cardinality(upTo(i - 1) \cup {i}) = Cardinality(upTo(i - 1)) + 1
      BY <2>1, <2>2, FS_AddElement
    <3>. QED  BY <1>2, <2>3, <3>1, <3>2
  <2>4. CASE i \notin B
    <3>1. upTo(i) = upTo(i - 1)
      BY <2>4
    <3>. HIDE DEF upTo
    <3>. QED  BY <1>2, <2>2, <2>4, <3>1
  <2>. QED  BY <2>3, <2>4
<1>5. upTo(0) = {} /\ upTo(n) = B
  <2>1. 1..0 = {}
    OBVIOUS
  <2>. QED  BY <2>1
<1>. HIDE DEF upTo
<1>6. f \in [0..n -> Nat] /\ f[0] = 0 /\ f[n] = Cardinality(B)
  BY <1>3, <1>5, FS_EmptySet
<1>7. ASSUME NEW i \in 1..n PROVE f[i] = f[i - 1] + c[i]
  <2>1. i \in 0..n /\ i - 1 \in 0..n
    OBVIOUS
  <2>2. f[i] = Cardinality(upTo(i)) /\ f[i - 1] = Cardinality(upTo(i - 1))
    BY <2>1
  <2>. HIDE DEF f
  <2>. QED  BY <1>4, <2>2
<1>. HIDE DEF f
<1>8. SumsUp(f, c)
  BY <1>1, <1>6, <1>7 DEF SumsUp
<1>9. Total(c) = f[n]
  BY <1>1, <1>8, TotalIs
<1>. QED  BY <1>1, <1>6, <1>9 DEF c

-----------------------------------------------------------------------------
(***************************************************************************)
(* What a message counts, by each of the functions that count.             *)
(***************************************************************************)
PartTexts == [p \in Part |-> p.text]
PartSizes == [p \in Part |-> PartChars(p)]
Sizes == [m \in Message |-> Size(m)]
Texts == [m \in Message |-> Text(m)]
Values == [m \in Message |-> ValueChars(m)]
Bares == [m \in Message |-> Bare(m)]
\* A text with the blank line behind it, and what may be sent for a message.
Apart == [m \in Message |-> Text(m) + 2]
Owed == [m \in Message |-> ValueChars(m) + Bare(m)]

LEMMA PartMeasures == IsMap(PartTexts, Part, Nat) /\ IsMap(PartSizes, Part, Nat)
BY DEF IsMap, PartTexts, PartSizes, Part, PartChars

\* A text is no longer than the content but for a newline behind each bare part.
LEMMA TextIsShort ==
  ASSUME NEW parts \in Seq(Part), NEW texts, texts = [i \in DOMAIN parts |-> parts[i].text],
         NEW bare, bare = {i \in DOMAIN parts : parts[i].beside = 0}
  PROVE  /\ Joined(texts, 1) \in Nat /\ Cardinality(bare) \in Nat
         /\ Weight(PartSizes, parts) \in Nat
         /\ Joined(texts, 1) <= Weight(PartSizes, parts) + Cardinality(bare)
<1>. DEFINE n == Len(parts)
            sizes == Mapped(PartSizes, parts)
            ones == Ones(bare, n)
            t == [i \in 1..n |-> sizes[i] + ones[i]]
<1>1. n \in Nat /\ DOMAIN parts = 1..n /\ \A i \in 1..n : parts[i] \in Part
  BY LenProperties, ElementOfSeq
<1>2. sizes \in Seq(Nat) /\ Len(sizes) = n
  BY PartMeasures, MappedType
<1>3. texts \in Seq(Nat) /\ Len(texts) = n
  <2>1. texts \in [1..n -> Nat]
    BY <1>1 DEF Part
  <2>. HIDE DEF n
  <2>. QED  BY <1>1, <2>1, AsSequence
<1>4. bare \in SUBSET (1..n)
  BY <1>1
<1>5. ones \in Seq(Nat) /\ Len(ones) = n /\ Total(ones) = Cardinality(bare)
  <2>. HIDE DEF n
  <2>. QED  BY <1>1, <1>4, CountIsTotal
<1>6. ASSUME NEW i \in 1..n
      PROVE  /\ sizes[i] \in Nat /\ ones[i] \in Nat
             /\ texts[i] > 0 => texts[i] + 1 <= sizes[i] + ones[i]
  <2>1. parts[i] \in Part /\ i \in DOMAIN parts
    BY <1>1
  <2>2. parts[i].text \in Nat /\ parts[i].beside \in Nat
    BY <2>1 DEF Part
  <2>3. sizes[i] = parts[i].text + parts[i].beside
    BY <2>1 DEF Mapped, PartSizes, PartChars
  <2>4. texts[i] = parts[i].text
    BY <2>1
  <2>5. ones[i] = IF parts[i].beside = 0 THEN 1 ELSE 0
    BY <2>1 DEF Ones
  <2>. HIDE DEF sizes, ones
  <2>. QED  BY <2>2, <2>3, <2>4, <2>5
<1>. HIDE DEF sizes, ones
<1>7. \A i \in 1..n : t[i] = sizes[i] + ones[i] /\ t[i] \in Nat
  BY <1>6
<1>8. t \in Seq(Nat) /\ Len(t) = n
  <2>. HIDE DEF n
  <2>1. t \in [1..n -> Nat]
    BY <1>7
  <2>. HIDE DEF t
  <2>. QED  BY <1>1, <2>1, AsSequence
<1>. HIDE DEF t, n
<1>9. Joined(texts, 1) \in Nat /\ Joined(texts, 1) <= Total(t)
  <2>1. \A i \in 1..Len(texts) : texts[i] > 0 => texts[i] + 1 <= t[i]
    BY <1>3, <1>6, <1>7
  <2>. QED  BY <1>3, <1>8, <2>1, JoinedIsShort
<1>10. Total(t) = Total(sizes) + Total(ones)
  <2>1. \A i \in 1..Len(t) : t[i] = sizes[i] + ones[i]
    BY <1>7, <1>8
  <2>2. /\ sizes \in Seq(Nat) /\ ones \in Seq(Nat) /\ t \in Seq(Nat)
        /\ Len(sizes) = Len(t) /\ Len(ones) = Len(t)
    BY <1>2, <1>5, <1>8
  <2>. QED  BY <2>1, <2>2, TotalAdds, ZenonT(30)
<1>11. Total(sizes) \in Nat /\ Total(ones) \in Nat
  BY <1>2, <1>5, TotalIsEnd
<1>12. Total(sizes) = Weight(PartSizes, parts)
  BY DEF Weight, sizes
<1>. QED  BY <1>5, <1>9, <1>10, <1>11, <1>12

LEMMA MessageType ==
  ASSUME NEW m \in Message
  PROVE  /\ Text(m) \in Nat /\ Size(m) \in Nat /\ ValueChars(m) \in Nat /\ Bare(m) \in Nat
         /\ Text(m) + 2 <= ValueChars(m) + Bare(m)
<1>. DEFINE parts == m.content
            texts == [i \in DOMAIN parts |-> parts[i].text]
            bare == {i \in DOMAIN parts : parts[i].beside = 0}
            w == Weight(PartSizes, parts)
<1>1. parts \in Seq(Part) /\ m.beside \in Nat
  BY DEF Message
<1>2. /\ Text(m) = Joined(texts, 1) /\ Bare(m) = Cardinality(bare)
  BY DEF Text, Bare
<1>3. Content(m) = w + m.beside
  <2>1. \A i \in DOMAIN parts : parts[i] \in Part
    BY <1>1, LenProperties, ElementOfSeq
  <2>2. [i \in DOMAIN parts |-> PartChars(parts[i])] = Mapped(PartSizes, parts)
    BY <2>1 DEF Mapped, PartSizes
  <2>. QED  BY <2>2 DEF Content, Chars, Weight
<1>. HIDE DEF parts, w
<1>4. /\ Joined(texts, 1) \in Nat /\ Cardinality(bare) \in Nat /\ w \in Nat
      /\ Joined(texts, 1) <= w + Cardinality(bare)
  BY <1>1, TextIsShort DEF w
<1>5. RoleChars \in Nat /\ Frame \in Nat /\ 2 <= RoleChars
  BY PayloadAssumption
<1>. HIDE DEF texts, bare
<1>6. Text(m) \in Nat /\ Bare(m) \in Nat /\ Text(m) <= w + Bare(m)
  BY <1>2, <1>4
<1>7. PICK beside \in Nat : beside = m.beside
  BY <1>1
<1>8. Size(m) = Frame + (w + beside) /\ ValueChars(m) = RoleChars + (w + beside)
  BY <1>3, <1>7 DEF Size, ValueChars
<1>9. Size(m) \in Nat /\ ValueChars(m) \in Nat
  BY <1>4, <1>5, <1>8
<1>10. Text(m) + 2 <= ValueChars(m) + Bare(m)
  <2>1. PICK x \in Nat, y \in Nat : x = Text(m) /\ y = Bare(m)
    BY <1>6
  <2>2. x <= w + y /\ ValueChars(m) = RoleChars + (w + beside)
    BY <1>6, <1>8, <2>1
  <2>3. x + 2 <= (RoleChars + (w + beside)) + y
    BY <1>4, <1>5, <2>2
  <2>. QED  BY <2>1, <2>2, <2>3
<1>. QED  BY <1>6, <1>9, <1>10

LEMMA Measures ==
  /\ IsMap(Sizes, Message, Nat) /\ IsMap(Texts, Message, Nat) /\ IsMap(Values, Message, Nat)
  /\ IsMap(Bares, Message, Nat) /\ IsMap(Apart, Message, Nat) /\ IsMap(Owed, Message, Nat)
<1>1. ASSUME NEW m \in Message PROVE Text(m) + 2 \in Nat /\ ValueChars(m) + Bare(m) \in Nat
  BY MessageType
<1>. QED  BY <1>1, MessageType DEF IsMap, Sizes, Texts, Values, Bares, Apart, Owed

LEMMA CharsAre ==
  ASSUME NEW s \in Seq(Message)
  PROVE  /\ Chars(s, Size) = Weight(Sizes, s)
         /\ Chars(s, ValueChars) = Weight(Values, s)
         /\ Chars(s, Bare) = Weight(Bares, s)
<1>1. \A i \in DOMAIN s : s[i] \in Message
  BY LenProperties, ElementOfSeq
<1>2. [i \in DOMAIN s |-> Size(s[i])] = Mapped(Sizes, s)
  BY <1>1 DEF Mapped, Sizes
<1>3. [i \in DOMAIN s |-> ValueChars(s[i])] = Mapped(Values, s)
  BY <1>1 DEF Mapped, Values
<1>4. [i \in DOMAIN s |-> Bare(s[i])] = Mapped(Bares, s)
  BY <1>1 DEF Mapped, Bares
<1>. QED  BY <1>2, <1>3, <1>4 DEF Chars, Weight

-----------------------------------------------------------------------------
(***************************************************************************)
(* Compaction: the loop keeps the end of what was said.                    *)
(***************************************************************************)
EndOf(s, n) == SubSeq(s, Len(s) - n + 1, Len(s))

LEMMA EndOfType ==
  ASSUME NEW S, NEW s \in Seq(S), NEW n \in 0..Len(s)
  PROVE  EndOf(s, n) \in Seq(S) /\ Len(EndOf(s, n)) = n
<1>1. Len(s) \in Nat
  BY LenProperties
<1>2. /\ Len(s) - n + 1 \in Int /\ Len(s) \in Int
      /\ \A i \in (Len(s) - n + 1)..Len(s) : i \in 1..Len(s)
  BY <1>1
<1>3. \A i \in (Len(s) - n + 1)..Len(s) : s[i] \in S
  BY <1>2, ElementOfSeq
<1>4. /\ EndOf(s, n) \in Seq(S)
      /\ Len(EndOf(s, n)) = IF Len(s) - n + 1 <= Len(s) THEN Len(s) - (Len(s) - n + 1) + 1 ELSE 0
  BY <1>2, <1>3, SubSeqProperties DEF EndOf
<1>. QED  BY <1>1, <1>4

LEMMA EndOfNone ==
  ASSUME NEW S, NEW s \in Seq(S)
  PROVE  EndOf(s, 0) = <<>>
<1>1. Len(s) \in Nat
  BY LenProperties
<1>2. Len(s) - 0 + 1 \in Int /\ Len(s) \in Int /\ Len(s) < Len(s) - 0 + 1
  BY <1>1
<1>. QED  BY <1>2, SubSeqEmpty DEF EndOf

LEMMA EndOfMore ==
  ASSUME NEW S, NEW s \in Seq(S), NEW n \in 1..Len(s)
  PROVE  /\ n - 1 \in 0..Len(s) /\ s[Len(s) - n + 1] \in S
         /\ EndOf(s, n) = <<s[Len(s) - n + 1]>> \o EndOf(s, n - 1)
<1>1. Len(s) \in Nat
  BY LenProperties
<1>2. /\ n - 1 \in 0..Len(s) /\ Len(s) - n + 1 \in 1..Len(s)
      /\ Len(s) \in (Len(s) - n + 1)..Len(s)
      /\ (Len(s) - n + 1) + 1 = Len(s) - (n - 1) + 1
  BY <1>1
<1>3. EndOf(s, n) = <<s[Len(s) - n + 1]>> \o SubSeq(s, (Len(s) - n + 1) + 1, Len(s))
  BY <1>2, SubSeqRecursiveFirst DEF EndOf
<1>. QED  BY <1>2, <1>3, ElementOfSeq DEF EndOf

LEMMA EndWeighsMore ==
  ASSUME NEW s \in Seq(Message), NEW n \in 1..Len(s)
  PROVE  /\ Weight(Sizes, EndOf(s, n - 1)) \in Nat /\ Size(s[Len(s) - n + 1]) \in Nat
         /\ Weight(Sizes, EndOf(s, n)) =
              Size(s[Len(s) - n + 1]) + Weight(Sizes, EndOf(s, n - 1))
<1>. DEFINE m == s[Len(s) - n + 1]
            rest == EndOf(s, n - 1)
<1>1. m \in Message /\ EndOf(s, n) = <<m>> \o rest /\ n - 1 \in 0..Len(s)
  BY EndOfMore
<1>2. rest \in Seq(Message)
  BY <1>1, EndOfType
<1>. HIDE DEF m, rest
<1>3. IsMap(Sizes, Message, Nat)
  BY Measures
<1>4. <<m>> \in Seq(Message) /\ Weight(Sizes, <<m>>) = Sizes[m]
  BY <1>1, <1>3, WeightOfOne
<1>5. Sizes[m] = Size(m) /\ Size(m) \in Nat
  BY <1>1, MessageType DEF Sizes
<1>6. Weight(Sizes, <<m>> \o rest) = Weight(Sizes, <<m>>) + Weight(Sizes, rest)
  BY <1>2, <1>3, <1>4, WeightConcat
<1>7. Weight(Sizes, rest) \in Nat
  BY <1>2, <1>3, WeightType
<1>. QED  BY <1>1, <1>4, <1>5, <1>6, <1>7 DEF m, rest

\* What the loop knows: the messages kept so far, their characters, and whether
\* one did not fit.
Kept == [messages : Seq(Message), used : Nat, full : BOOLEAN]

LEMMA KeepType ==
  ASSUME NEW m \in Message, NEW k \in Kept
  PROVE  Keep(m, k, Budget) \in Kept
<1>1. Size(m) \in Nat
  BY MessageType
<1>2. k.messages \in Seq(Message) /\ k.used \in Nat /\ k.full \in BOOLEAN
  BY DEF Kept
<1>3. <<m>> \o k.messages \in Seq(Message)
  BY <1>2, ConcatProperties
<1>4. k.used + Size(m) \in Nat
  BY <1>1, <1>2
<1>5. [k EXCEPT !.full = TRUE] \in Kept
  BY DEF Kept
<1>6. [k EXCEPT !.messages = <<m>> \o @, !.used = @ + Size(m)] \in Kept
  BY <1>3, <1>4 DEF Kept
<1>. QED  BY <1>5, <1>6 DEF Keep

Walks(f, s, used) ==
  /\ f \in [0..Len(s) -> Kept]
  /\ f[0] = [messages |-> <<>>, used |-> used, full |-> FALSE]
  /\ \A n \in 1..Len(s) : f[n] = Keep(s[Len(s) - n + 1], f[n - 1], Budget)

LEMMA WalkIsEnd ==
  ASSUME NEW s \in Seq(Message), NEW used \in Nat
  PROVE  \E f : Walks(f, s, used) /\ Walk(s, used) = f[Len(s)].messages
<1>. DEFINE n == Len(s)
            start == [messages |-> <<>>, used |-> used, full |-> FALSE]
            Body(f) == [i \in 0..n |-> IF i = 0 THEN start
                                       ELSE Keep(s[n - i + 1], f[i - 1], Budget)]
            c == CHOOSE f : f = Body(f)
            step == [i \in 1..n |-> [x \in Kept |-> Keep(s[n - i + 1], x, Budget)]]
<1>1. n \in Nat /\ \A i \in 1..n : n - i + 1 \in 1..n /\ s[n - i + 1] \in Message
  <2>1. n \in Nat
    BY LenProperties
  <2>2. \A i \in 1..n : n - i + 1 \in 1..n
    BY <2>1
  <2>. QED  BY <2>1, <2>2, ElementOfSeq
<1>2. start \in Kept
  BY EmptySeq DEF Kept
<1>3. Walk(s, used) = c[n].messages
  BY DEF Walk
<1>. HIDE DEF start
<1>4. \E f : f = Body(f)
  <2>1. step \in [1..n -> [Kept -> Kept]]
    <3>1. \A i \in 1..n : \A x \in Kept : Keep(s[n - i + 1], x, Budget) \in Kept
      BY <1>1, KeepType
    <3>. QED  BY <3>1
  <2>2. PICK f : Recursion(f, Kept, start, step, n)
    <3>. HIDE DEF step, n
    <3>. QED  BY <1>1, <1>2, <2>1, RecursionExists
  <2>3. f \in [0..n -> Kept] /\ f[0] = start
    BY <2>2 DEF Recursion
  <2>4. ASSUME NEW i \in 1..n PROVE f[i] = Keep(s[n - i + 1], f[i - 1], Budget)
    <3>1. i - 1 \in 0..n
      BY <1>1
    <3>2. f[i - 1] \in Kept
      BY <2>3, <3>1
    <3>3. f[i] = step[i][f[i - 1]]
      <4>. HIDE DEF step
      <4>. QED  BY <2>2 DEF Recursion
    <3>. QED  BY <3>2, <3>3
  <2>5. ASSUME NEW i \in 0..n PROVE f[i] = Body(f)[i]
    <3>1. i = 0 \/ i \in 1..n
      BY <1>1
    <3>. QED  BY <2>3, <2>4, <3>1
  <2>6. f = [i \in 0..n |-> f[i]]
    BY <2>3
  <2>7. f = Body(f)
    BY <2>5, <2>6
  <2>. QED  BY <2>7
<1>5. c = Body(c)
  BY <1>4
<1>. HIDE DEF c, step
<1>6. c[0] = start /\ \A i \in 1..n : c[i] = Keep(s[n - i + 1], c[i - 1], Budget)
  <2>1. 0 \in 0..n /\ \A i \in 1..n : i \in 0..n /\ i # 0
    BY <1>1
  <2>2. \A i \in 0..n : c[i] = IF i = 0 THEN start ELSE Keep(s[n - i + 1], c[i - 1], Budget)
    BY <1>5
  <2>. QED  BY <2>1, <2>2
<1>7. \A i \in 0..n : c[i] \in Kept
  <2>. DEFINE T == {i \in 0..n : c[i] \in Kept}
  <2>0. 0 \in 0..n /\ c[0] \in Kept
    BY <1>1, <1>2, <1>6
  <2>1. T \in SUBSET (0..n) /\ 0 \in T
    BY <2>0
  <2>2. ASSUME NEW i \in 1..n, i - 1 \in T PROVE i \in T
    <3>1. i \in 0..n /\ c[i - 1] \in Kept /\ s[n - i + 1] \in Message
      BY <1>1, <2>2
    <3>2. Keep(s[n - i + 1], c[i - 1], Budget) \in Kept
      BY <3>1, KeepType
    <3>. QED  BY <1>6, <3>1, <3>2
  <2>3. \A i \in 0..n : i \in T
    <3>. HIDE DEF T
    <3>. QED  BY <1>1, <2>1, <2>2, Upward
  <2>. QED  BY <2>3
<1>8. c \in [0..n -> Kept]
  BY <1>5, <1>7
<1>9. Walks(c, s, used)
  BY <1>6, <1>8 DEF Walks, start
<1>. QED  BY <1>3, <1>9

\* After n turns: what is kept is an end of s, which fits beside what was used
\* before or is the newest message alone; and if the loop is over, the next
\* message is one that does not fit.
KeptEnd(k, s, used, n) ==
  \E e \in 0..n :
    /\ k.messages = EndOf(s, e)
    /\ k.used = used + Weight(Sizes, EndOf(s, e))
    /\ e > 1 => k.used <= Budget
    /\ ~k.full => e = n
    /\ k.full => e > 0 /\ e < n /\ Budget < used + Weight(Sizes, EndOf(s, e + 1))

LEMMA KeepsEnd ==
  ASSUME NEW s \in Seq(Message), NEW used \in Nat, NEW n \in 1..Len(s),
         NEW k \in Kept, KeptEnd(k, s, used, n - 1)
  PROVE  KeptEnd(Keep(s[Len(s) - n + 1], k, Budget), s, used, n)
<1>. DEFINE m == s[Len(s) - n + 1]
            k2 == Keep(m, k, Budget)
            w(e) == Weight(Sizes, EndOf(s, e))
<1>0. Len(s) \in Nat /\ Budget \in Nat
  BY LenProperties, PayloadAssumption DEF Budget
<1>1. PICK e \in 0..(n - 1) :
        /\ k.messages = EndOf(s, e)
        /\ k.used = used + w(e)
        /\ e > 1 => k.used <= Budget
        /\ ~k.full => e = n - 1
        /\ k.full => e > 0 /\ e < n - 1 /\ Budget < used + w(e + 1)
  BY DEF KeptEnd
<1>2. /\ w(n - 1) \in Nat /\ Size(m) \in Nat /\ w(n) = Size(m) + w(n - 1)
      /\ m \in Message /\ EndOf(s, n) = <<m>> \o EndOf(s, n - 1)
  BY EndWeighsMore, EndOfMore
<1>3. k.messages \in Seq(Message) /\ k.used \in Nat /\ k.full \in BOOLEAN
  BY DEF Kept
<1>4. Len(EndOf(s, n - 1)) = n - 1
  <2>1. n - 1 \in 0..Len(s)
    BY <1>0
  <2>. QED  BY <2>1, EndOfType
<1>. HIDE DEF m, w
<1>5. CASE k.full
  <2>1. k2 = [k EXCEPT !.full = TRUE]
    BY <1>5 DEF Keep
  <2>2. k2.messages = k.messages /\ k2.used = k.used /\ k2.full = TRUE
    BY <2>1 DEF Kept
  <2>3. e \in 0..n /\ e > 0 /\ e < n
    BY <1>1, <1>5
  <2>. HIDE DEF k2
  <2>. QED  BY <1>1, <1>5, <2>2, <2>3 DEF KeptEnd, w, k2, m
<1>6. CASE ~k.full /\ Budget < k.used + Size(m) /\ k.messages # <<>>
  <2>1. k2 = [k EXCEPT !.full = TRUE]
    BY <1>6 DEF Keep
  <2>2. k2.messages = k.messages /\ k2.used = k.used /\ k2.full = TRUE
    BY <2>1 DEF Kept
  <2>3. e = n - 1 /\ e # 0
    <3>1. e = 0 => EndOf(s, e) = <<>>
      BY EndOfNone
    <3>. QED  BY <1>1, <1>6, <3>1
  <2>4. e \in 0..n /\ e > 0 /\ e < n /\ e + 1 = n
    BY <2>3
  <2>5. Budget < used + w(e + 1)
    BY <1>0, <1>1, <1>2, <1>3, <1>6, <2>3, <2>4
  <2>. HIDE DEF k2
  <2>. QED  BY <1>1, <2>2, <2>4, <2>5 DEF KeptEnd, w, k2, m
<1>7. CASE ~k.full /\ ~ (Budget < k.used + Size(m) /\ k.messages # <<>>)
  <2>1. k2 = [k EXCEPT !.messages = <<m>> \o @, !.used = @ + Size(m)]
    BY <1>7 DEF Keep
  <2>2. k2.messages = <<m>> \o k.messages /\ k2.used = k.used + Size(m) /\ k2.full = FALSE
    BY <1>7, <2>1 DEF Kept
  <2>3. e = n - 1
    BY <1>1, <1>7
  <2>4. k2.messages = EndOf(s, n) /\ n \in 0..n
    BY <1>1, <1>2, <2>2, <2>3
  <2>5. k2.used = used + w(n)
    BY <1>1, <1>2, <2>2, <2>3
  <2>6. n > 1 => k2.used <= Budget
    <3>. SUFFICES ASSUME n > 1 PROVE k2.used <= Budget
      OBVIOUS
    <3>1. k.messages # <<>>
      <4>1. Len(k.messages) # 0
        BY <1>1, <1>4, <2>3
      <4>. QED  BY <4>1
    <3>2. ~ (Budget < k.used + Size(m))
      BY <1>7, <3>1
    <3>. HIDE DEF k2
    <3>. QED  BY <1>0, <1>2, <1>3, <2>2, <3>2
  <2>. HIDE DEF k2
  <2>. QED  BY <2>2, <2>4, <2>5, <2>6 DEF KeptEnd, w, k2, m
<1>. QED  BY <1>3, <1>5, <1>6, <1>7

LEMMA WalkKeepsEnd ==
  ASSUME NEW s \in Seq(Message), NEW used \in Nat
  PROVE  \E e \in 0..Len(s) :
           /\ Walk(s, used) = EndOf(s, e)
           /\ e = 0 => s = <<>>
           /\ e > 1 => used + Weight(Sizes, EndOf(s, e)) <= Budget
           /\ e < Len(s) => Budget < used + Weight(Sizes, EndOf(s, e + 1))
<1>. DEFINE n == Len(s)
<1>1. PICK f : Walks(f, s, used) /\ Walk(s, used) = f[n].messages
  BY WalkIsEnd
<1>2. n \in Nat /\ n \in 0..n /\ 0 \in 0..n
  BY LenProperties
<1>3. /\ \A i \in 0..n : f[i] \in Kept
      /\ f[0] = [messages |-> <<>>, used |-> used, full |-> FALSE]
      /\ \A i \in 1..n : f[i] = Keep(s[n - i + 1], f[i - 1], Budget)
  BY <1>1 DEF Walks
<1>. DEFINE T == {i \in 0..n : KeptEnd(f[i], s, used, i)}
<1>4. KeptEnd(f[0], s, used, 0)
  <2>1. EndOf(s, 0) = <<>> /\ Weight(Sizes, <<>>) = 0 /\ 0 \in 0..0 /\ ~ (0 > 1)
    BY EndOfNone, WeightOfNone
  <2>2. f[0].messages = <<>> /\ f[0].used = used /\ f[0].full = FALSE
    BY <1>3
  <2>3. used = used + 0
    OBVIOUS
  <2>. QED  BY <2>1, <2>2, <2>3 DEF KeptEnd
<1>5. T \in SUBSET (0..n) /\ 0 \in T
  BY <1>2, <1>4
<1>6. ASSUME NEW i \in 1..n, i - 1 \in T PROVE i \in T
  <2>1. i \in 0..n /\ f[i - 1] \in Kept /\ KeptEnd(f[i - 1], s, used, i - 1)
    BY <1>2, <1>3, <1>6
  <2>2. KeptEnd(Keep(s[n - i + 1], f[i - 1], Budget), s, used, i)
    BY <2>1, KeepsEnd
  <2>. QED  BY <1>3, <2>1, <2>2
<1>7. n \in T
  <2>. HIDE DEF T, n
  <2>. QED  BY <1>2, <1>5, <1>6, Upward
<1>8. PICK e \in 0..n :
        /\ f[n].messages = EndOf(s, e)
        /\ f[n].used = used + Weight(Sizes, EndOf(s, e))
        /\ e > 1 => f[n].used <= Budget
        /\ ~f[n].full => e = n
        /\ f[n].full => e > 0 /\ e < n /\ Budget < used + Weight(Sizes, EndOf(s, e + 1))
  BY <1>7 DEF KeptEnd
<1>9. e = 0 => s = <<>>
  <2>1. e = 0 => n = 0
    BY <1>8
  <2>. QED  BY <2>1
<1>. QED  BY <1>1, <1>2, <1>8, <1>9

LEMMA CompactedIs ==
  ASSUME NEW b \in ChatBody, b.messages # Absent,
         NEW system, system = Picked(b.messages, System(b.messages)),
         NEW spoken, spoken = Picked(b.messages, Spoken(b.messages))
  PROVE  /\ b.messages \in Seq(Message) /\ system \in Seq(Message) /\ spoken \in Seq(Message)
         /\ Compacted(b).prompt = b.prompt
         /\ \E e \in 0..Len(spoken) :
              /\ Compacted(b).messages = system \o EndOf(spoken, e)
              /\ e = 0 => spoken = <<>>
              /\ e > 1 => Weight(Sizes, system \o EndOf(spoken, e)) <= Budget
              /\ e < Len(spoken) => Budget < Weight(Sizes, system \o EndOf(spoken, e + 1))
<1>. DEFINE used == Chars(system, Size)
<1>1. b.messages \in Seq(Message)
  BY DEF ChatBody
<1>2. system \in Seq(Message) /\ spoken \in Seq(Message)
  BY <1>1, PickedIsEnd
<1>3. IsMap(Sizes, Message, Nat)
  BY Measures
<1>4. used = Weight(Sizes, system) /\ used \in Nat
  BY <1>2, <1>3, CharsAre, WeightType
<1>5. Compacted(b) = [b EXCEPT !.messages = system \o Walk(spoken, used)]
  BY DEF Compacted
<1>. HIDE DEF used
<1>6. Compacted(b).prompt = b.prompt /\ Compacted(b).messages = system \o Walk(spoken, used)
  BY <1>5 DEF ChatBody
<1>7. PICK e \in 0..Len(spoken) :
        /\ Walk(spoken, used) = EndOf(spoken, e)
        /\ e = 0 => spoken = <<>>
        /\ e > 1 => used + Weight(Sizes, EndOf(spoken, e)) <= Budget
        /\ e < Len(spoken) => Budget < used + Weight(Sizes, EndOf(spoken, e + 1))
  BY <1>2, <1>4, WalkKeepsEnd
<1>8. ASSUME NEW n \in 0..Len(spoken)
      PROVE  Weight(Sizes, system \o EndOf(spoken, n)) = used + Weight(Sizes, EndOf(spoken, n))
  <2>1. EndOf(spoken, n) \in Seq(Message)
    BY <1>2, EndOfType
  <2>. QED  BY <1>2, <1>3, <1>4, <2>1, WeightConcat
<1>9. e < Len(spoken) => e + 1 \in 0..Len(spoken)
  <2>1. Len(spoken) \in Nat
    BY <1>2, LenProperties
  <2>. QED  BY <2>1
<1>10. e > 1 => Weight(Sizes, system \o EndOf(spoken, e)) <= Budget
  BY <1>7, <1>8
<1>11. e < Len(spoken) => Budget < Weight(Sizes, system \o EndOf(spoken, e + 1))
  BY <1>7, <1>8, <1>9
<1>. QED  BY <1>1, <1>2, <1>6, <1>7, <1>10, <1>11

-----------------------------------------------------------------------------
(***************************************************************************)
(* The estimate.                                                           *)
(***************************************************************************)
\* What the body counts for the estimate.
Counts(b) == IF b.messages = Absent THEN b.prompt ELSE Weight(Values, b.messages)

LEMMA EstimateCovers ==
  ASSUME NEW b \in ChatBody, Valid(b)
  PROVE  Counts(b) \in Nat /\ Estimate(b) \in Nat /\ Counts(b) <= 4 * Estimate(b)
<1>1. Counts(b) \in Nat
  <2>1. CASE b.messages = Absent
    <3>1. b.prompt \in Nat
      BY <2>1 DEF Valid, ChatBody
    <3>. QED  BY <2>1, <3>1 DEF Counts
  <2>2. CASE b.messages # Absent
    <3>1. b.messages \in Seq(Message)
      BY <2>2 DEF ChatBody
    <3>. QED  BY <2>2, <3>1, Measures, WeightType DEF Counts
  <2>. QED  BY <2>1, <2>2
<1>2. Estimate(b) = LET tokens_ == InTokens(Counts(b)) IN IF tokens_ = 0 THEN 1 ELSE tokens_
  <2>1. b.messages # Absent => Chars(b.messages, ValueChars) = Weight(Values, b.messages)
    <3>1. b.messages # Absent => b.messages \in Seq(Message)
      BY DEF ChatBody
    <3>. QED  BY <3>1, CharsAre
  <2>. QED  BY <2>1 DEF Estimate, Counts
<1>. DEFINE c == Counts(b)
<1>. HIDE DEF c
<1>3. c \in Nat
  BY <1>1 DEF c
<1>4. (c + 3) \div 4 \in Nat /\ c <= 4 * ((c + 3) \div 4)
  BY <1>3
<1>5. Estimate(b) = IF (c + 3) \div 4 = 0 THEN 1 ELSE (c + 3) \div 4
  BY <1>2 DEF InTokens, c
<1>. QED  BY <1>3, <1>4, <1>5 DEF c

-----------------------------------------------------------------------------
(***************************************************************************)
(* Whoever is asked is asked with a valid body, whose tokens were counted. *)
(***************************************************************************)
Known == Valid(body) /\ tokens = Estimate(body)
BodyInv ==
  /\ body \in ChatBody /\ tokens \in Nat /\ paid \in Nat
  /\ pc \in {"limiter", "ask", "rejecting", "relay"} => Known
  /\ Known \/ \A i \in 1..Turns : verdict[i] = "none"
  /\ pc = "new" => \A i \in 1..Turns : verdict[i] = "none"

LEMMA InitBody == Init => BodyInv
BY DEF Init, BodyInv, ChatBody

LEMMA QuietKeepsBody ==
  ASSUME BodyInv, pc \in {"limiter", "ask", "rejecting", "relay"}, pc' # "new",
         UNCHANGED <<body, tokens>>, paid' \in {paid, paid + tokens}
  PROVE  BodyInv'
BY DEF BodyInv, Known

LEMMA StepBody == BodyInv /\ [Next]_vars => BodyInv'
<1>. SUFFICES ASSUME BodyInv, [Next]_vars PROVE BodyInv'
  OBVIOUS
<1>1. CASE UNCHANGED vars
  BY <1>1 DEF BodyInv, Known, vars, routerVars
<1>2. CASE Receive
  <2>0. paid' = paid
    BY <1>2 DEF Receive
  <2>1. PICK b \in Bodies :
          /\ body' = b
          /\ \/ Valid(b) /\ tokens' = Estimate(b) /\ pc' = "limiter"
             \/ ~Valid(b) /\ tokens' = tokens /\ pc' = "invalid"
    BY <1>2 DEF Receive
  <2>2. b \in ChatBody
    BY ChatAssumption
  <2>3. tokens' \in Nat
    BY <2>1, <2>2, EstimateCovers DEF BodyInv
  <2>4. verdict' = verdict /\ pc = "new"
    BY <1>2 DEF Receive
  <2>. QED  BY <2>0, <2>1, <2>2, <2>3, <2>4 DEF BodyInv, Known
<1>3. CASE Unreadable \/ Disconnect
  BY <1>3 DEF Unreadable, Disconnect, BodyInv, Known, routerVars
<1>4. CASE NoLimiter \/ OverQuota \/ Admitted
  BY <1>4, QuietKeepsBody DEF NoLimiter, OverQuota, Admitted, routerVars
<1>5. CASE FailOver \/ Reject \/ PassOn \/ CutOff \/ Answer \/ Undecodable \/ GiveUp
  BY <1>5, QuietKeepsBody DEF FailOver, Reject, PassOn, CutOff, Answer, Undecodable, GiveUp,
     Asking, routerVars
<1>6. CASE Begin \/ Break
  BY <1>6, QuietKeepsBody DEF Begin, Break, Asking, routerVars
<1>7. CASE Chunk \/ EndOfStream
  BY <1>7, QuietKeepsBody DEF Chunk, EndOfStream
<1>. QED  BY <1>1, <1>2, <1>3, <1>4, <1>5, <1>6, <1>7 DEF Next, Upstream

LEMMA BodyIsKnown == Spec => []BodyInv
BY InitBody, StepBody, PTL DEF Spec

LEMMA AskedIsKnown ==
  ASSUME BodyInv, NEW i \in Asked
  PROVE  body \in ChatBody /\ Known
BY DEF Asked, BodyInv

-----------------------------------------------------------------------------
\* Every provider that is asked is sent all system messages and the end of the
\* conversation, as long as it fits (_compact_payload).
THEOREM TheEndIsSent == Spec => []SentIsTheEnd
<1>1. BodyInv => SentIsTheEnd
  <2>. DEFINE system == Picked(body.messages, System(body.messages))
              spoken == Picked(body.messages, Spoken(body.messages))
  <2>. SUFFICES ASSUME BodyInv, NEW i \in Asked, Preference[i] # "anthropic",
                       body.messages # Absent
                PROVE  \E n \in 0..Len(spoken) :
                         /\ Sent(i).messages = system \o EndOf(spoken, n)
                         /\ n = 0 => spoken = <<>>
                         /\ n > 0 => n = 1 \/ Chars(system \o EndOf(spoken, n), Size) <= Budget
                         /\ n < Len(spoken) =>
                              ~ (n + 1 = 1 \/ Chars(system \o EndOf(spoken, n + 1), Size) <= Budget)
    BY DEF SentIsTheEnd, EndOf
  <2>. HIDE DEF system, spoken
  <2>1. body \in ChatBody
    BY AskedIsKnown
  <2>2. Sent(i) = Compacted(body)
    BY DEF Sent, PayloadFor
  <2>3. system \in Seq(Message) /\ spoken \in Seq(Message)
    BY <2>1, CompactedIs DEF system, spoken
  <2>4. PICK e \in 0..Len(spoken) :
          /\ Compacted(body).messages = system \o EndOf(spoken, e)
          /\ e = 0 => spoken = <<>>
          /\ e > 1 => Weight(Sizes, system \o EndOf(spoken, e)) <= Budget
          /\ e < Len(spoken) => Budget < Weight(Sizes, system \o EndOf(spoken, e + 1))
    BY <2>1, CompactedIs DEF system, spoken
  <2>5. Len(spoken) \in Nat /\ Budget \in Nat /\ (spoken = <<>> => Len(spoken) = 0)
    BY <2>3, LenProperties, PayloadAssumption DEF Budget
  <2>6. ASSUME NEW n \in 0..Len(spoken)
        PROVE  /\ Chars(system \o EndOf(spoken, n), Size) = Weight(Sizes, system \o EndOf(spoken, n))
               /\ Weight(Sizes, system \o EndOf(spoken, n)) \in Nat
    <3>1. EndOf(spoken, n) \in Seq(Message)
      BY <2>3, EndOfType
    <3>2. system \o EndOf(spoken, n) \in Seq(Message)
      BY <2>3, <3>1, ConcatProperties
    <3>. QED  BY <3>2, CharsAre, Measures, WeightType
  <2>7. e > 0 => e = 1 \/ Chars(system \o EndOf(spoken, e), Size) <= Budget
    BY <2>4, <2>6
  <2>8. e < Len(spoken) =>
          ~ (e + 1 = 1 \/ Chars(system \o EndOf(spoken, e + 1), Size) <= Budget)
    <3>. SUFFICES ASSUME e < Len(spoken)
                  PROVE  e + 1 # 1 /\ ~ (Chars(system \o EndOf(spoken, e + 1), Size) <= Budget)
      OBVIOUS
    <3>1. e # 0 /\ e + 1 # 1 /\ e + 1 \in 0..Len(spoken)
      BY <2>4, <2>5
    <3>2. Budget < Weight(Sizes, system \o EndOf(spoken, e + 1))
      BY <2>4
    <3>3. /\ Chars(system \o EndOf(spoken, e + 1), Size) = Weight(Sizes, system \o EndOf(spoken, e + 1))
          /\ Weight(Sizes, system \o EndOf(spoken, e + 1)) \in Nat
      BY <2>6, <3>1
    <3>. QED  BY <2>5, <3>1, <3>2, <3>3
  <2>. QED  BY <2>2, <2>4, <2>7, <2>8
<1>. QED  BY <1>1, BodyIsKnown, PTL

-----------------------------------------------------------------------------
(***************************************************************************)
(* What is sent, against what is counted.                                  *)
(***************************************************************************)
LEMMA PickedOfNone ==
  ASSUME NEW at
  PROVE  Picked(<<>>, at) = <<>>
<1>1. <<>> \in Seq(Nat) /\ Len(<<>>) = 0
  BY EmptySeq
<1>2. PICK f : Picks(f, Nat, <<>>, at) /\ Picked(<<>>, at) = f[Len(<<>>)]
  BY <1>1, PickedIsEnd
<1>. QED  BY <1>1, <1>2 DEF Picks

\* The system messages and all others weigh as much as the conversation.
LEMMA WeightOfParts ==
  ASSUME NEW F, IsMap(F, Message, Nat), NEW s \in Seq(Message)
  PROVE  /\ Picked(s, System(s)) \in Seq(Message) /\ Picked(s, Spoken(s)) \in Seq(Message)
         /\ Weight(F, s) = Weight(F, Picked(s, System(s))) + Weight(F, Picked(s, Spoken(s)))
<1>. DEFINE a == Counted(F, s, System(s))
            b == Counted(F, s, Spoken(s))
            m == Mapped(F, s)
<1>1. a \in Seq(Nat) /\ Len(a) = Len(s) /\ b \in Seq(Nat) /\ Len(b) = Len(s)
  BY WeightOfPicked
<1>2. m \in Seq(Nat) /\ Len(m) = Len(s)
  BY MappedType
<1>3. ASSUME NEW i \in 1..Len(s) PROVE m[i] = a[i] + b[i]
  <2>1. i \in DOMAIN s /\ F[s[i]] \in Nat /\ m[i] = F[s[i]]
    <3>1. DOMAIN s = 1..Len(s)
      BY LenProperties
    <3>. QED  BY <3>1, MappedAt
  <2>2. a[i] = (IF i \in System(s) THEN F[s[i]] ELSE 0)
        /\ b[i] = (IF i \in Spoken(s) THEN F[s[i]] ELSE 0)
    BY DEF Counted
  <2>3. i \in System(s) <=> i \notin Spoken(s)
    BY <2>1 DEF Spoken
  <2>. HIDE DEF a, b, m
  <2>. QED  BY <2>1, <2>2, <2>3
<1>. HIDE DEF a, b, m
<1>4. Total(m) = Total(a) + Total(b)
  BY <1>1, <1>2, <1>3, TotalAdds
<1>5. Picked(s, System(s)) \in Seq(Message) /\ Weight(F, Picked(s, System(s))) = Total(a)
  BY WeightOfPicked DEF a
<1>6. Picked(s, Spoken(s)) \in Seq(Message) /\ Weight(F, Picked(s, Spoken(s))) = Total(b)
  BY WeightOfPicked DEF b
<1>7. Weight(F, s) = Total(m)
  BY DEF Weight, m
<1>. QED  BY <1>4, <1>5, <1>6, <1>7

\* Texts weigh less than texts apart, and those no more than what may be sent.
LEMMA OwedIsEnough ==
  ASSUME NEW s \in Seq(Message)
  PROVE  /\ Weight(Texts, s) \in Nat /\ Weight(Apart, s) \in Nat /\ Weight(Owed, s) \in Nat
         /\ Weight(Texts, s) <= Weight(Apart, s) /\ Weight(Apart, s) <= Weight(Owed, s)
         /\ Weight(Values, s) \in Nat /\ Weight(Bares, s) \in Nat
         /\ Weight(Owed, s) = Weight(Values, s) + Weight(Bares, s)
<1>. DEFINE a == Mapped(Texts, s)
            b == Mapped(Apart, s)
            c == Mapped(Owed, s)
            d == Mapped(Values, s)
            e == Mapped(Bares, s)
<1>1. /\ a \in Seq(Nat) /\ Len(a) = Len(s) /\ b \in Seq(Nat) /\ Len(b) = Len(s)
      /\ c \in Seq(Nat) /\ Len(c) = Len(s) /\ d \in Seq(Nat) /\ Len(d) = Len(s)
      /\ e \in Seq(Nat) /\ Len(e) = Len(s)
  BY Measures, MappedType
<1>2. ASSUME NEW i \in 1..Len(s)
      PROVE  a[i] <= b[i] /\ b[i] <= c[i] /\ c[i] = d[i] + e[i]
  <2>1. s[i] \in Message /\ a[i] = Texts[s[i]] /\ b[i] = Apart[s[i]] /\ c[i] = Owed[s[i]]
        /\ d[i] = Values[s[i]] /\ e[i] = Bares[s[i]]
    BY Measures, MappedAt
  <2>2. /\ Texts[s[i]] = Text(s[i]) /\ Apart[s[i]] = Text(s[i]) + 2
        /\ Owed[s[i]] = ValueChars(s[i]) + Bare(s[i])
        /\ Values[s[i]] = ValueChars(s[i]) /\ Bares[s[i]] = Bare(s[i])
    BY <2>1 DEF Texts, Apart, Owed, Values, Bares
  <2>3. /\ Text(s[i]) \in Nat /\ ValueChars(s[i]) \in Nat /\ Bare(s[i]) \in Nat
        /\ Text(s[i]) + 2 <= ValueChars(s[i]) + Bare(s[i])
    BY <2>1, MessageType
  <2>. HIDE DEF a, b, c, d, e
  <2>. QED  BY <2>1, <2>2, <2>3
<1>. HIDE DEF a, b, c, d, e
<1>3. Total(a) <= Total(b)
  BY <1>1, <1>2, TotalBelow
<1>4. Total(b) <= Total(c)
  BY <1>1, <1>2, TotalBelow
<1>5. Total(c) = Total(d) + Total(e)
  BY <1>1, <1>2, TotalAdds
<1>6. /\ Total(a) \in Nat /\ Total(b) \in Nat /\ Total(c) \in Nat
      /\ Total(d) \in Nat /\ Total(e) \in Nat
  BY <1>1, TotalIsEnd
<1>. QED  BY <1>3, <1>4, <1>5, <1>6 DEF Weight, a, b, c, d, e

\* The system of a payload for Anthropic, and what its messages say.
LEMMA TranslatedSystem ==
  ASSUME NEW b, b.messages \in Seq(Message),
         NEW system, system = Picked(b.messages, System(b.messages))
  PROVE  ToAnthropic(b).system \in Nat /\ ToAnthropic(b).system <= Weight(Apart, system)
<1>. DEFINE parts == [i \in DOMAIN system |-> Text(system[i])]
            apart == Mapped(Apart, system)
<1>1. system \in Seq(Message) /\ b.messages # Absent
  BY PickedIsEnd, PayloadAssumption
<1>2. parts = Mapped(Texts, system)
  <2>1. \A i \in DOMAIN system : system[i] \in Message
    BY <1>1, LenProperties, ElementOfSeq
  <2>. QED  BY <2>1 DEF Mapped, Texts
<1>3. ToAnthropic(b).system = Joined(parts, 2)
  BY <1>1 DEF ToAnthropic
<1>. HIDE DEF parts
<1>4. /\ parts \in Seq(Nat) /\ Len(parts) = Len(system)
      /\ apart \in Seq(Nat) /\ Len(apart) = Len(system)
  BY <1>1, <1>2, Measures, MappedType
<1>5. ASSUME NEW i \in 1..Len(parts) PROVE parts[i] + 2 <= apart[i]
  <2>1. i \in 1..Len(system)
    BY <1>4
  <2>2. system[i] \in Message /\ parts[i] = Texts[system[i]] /\ apart[i] = Apart[system[i]]
    BY <1>1, <1>2, <2>1, Measures, MappedAt
  <2>3. Texts[system[i]] = Text(system[i]) /\ Apart[system[i]] = Text(system[i]) + 2
        /\ Text(system[i]) \in Nat
    BY <2>2, MessageType DEF Texts, Apart
  <2>. HIDE DEF apart
  <2>. QED  BY <2>2, <2>3
<1>6. Total(apart) = Weight(Apart, system)
  BY DEF Weight
<1>. HIDE DEF apart
<1>7. Joined(parts, 2) \in Nat /\ Joined(parts, 2) <= Total(apart)
  BY <1>4, <1>5, JoinedIsShort
<1>. QED  BY <1>3, <1>6, <1>7

Contents(messages) == [i \in DOMAIN messages |-> messages[i].content]

LEMMA TranslatedMessages ==
  ASSUME NEW b, b.messages \in Seq(Message), NEW spoken,
         spoken = Picked(b.messages, Spoken(b.messages)), spoken # <<>>
  PROVE  Total(Contents(ToAnthropic(b).messages)) = Weight(Texts, spoken)
<1>. DEFINE said(m) == [role |-> IF m.role = "assistant" THEN m.role ELSE "user",
                        content |-> Text(m)]
            told == [i \in DOMAIN spoken |-> said(spoken[i])]
<1>1. spoken \in Seq(Message) /\ b.messages # Absent
  BY PickedIsEnd, PayloadAssumption
<1>2. ToAnthropic(b).messages = told
  BY <1>1 DEF ToAnthropic
<1>3. \A i \in DOMAIN spoken : spoken[i] \in Message
  BY <1>1, LenProperties, ElementOfSeq
<1>4. Contents(told) = Mapped(Texts, spoken)
  BY <1>3 DEF Contents, Mapped, Texts
<1>. HIDE DEF told
<1>. QED  BY <1>2, <1>4 DEF Weight

\* Where nobody but the system says anything, the prompt is what the user says.
LEMMA TranslatedPrompt ==
  ASSUME NEW b, NEW prompt, prompt = (IF b.prompt = Absent THEN 0 ELSE b.prompt), prompt \in Nat,
         \/ b.messages = Absent
         \/ b.messages # Absent /\ Picked(b.messages, Spoken(b.messages)) = <<>>
  PROVE  Total(Contents(ToAnthropic(b).messages)) = prompt
<1>. DEFINE m == [role |-> "user", content |-> prompt]
<1>1. ToAnthropic(b).messages = <<m>>
  <2>1. CASE b.messages = Absent
    <3>1. Picked(<<>>, Spoken(<<>>)) = <<>>
      BY PickedOfNone
    <3>. QED  BY <2>1, <3>1 DEF ToAnthropic
  <2>2. CASE b.messages # Absent
    <3>1. Picked(b.messages, Spoken(b.messages)) = <<>>
      BY <2>2
    <3>. QED  BY <2>2, <3>1 DEF ToAnthropic
  <2>. QED  BY <2>1, <2>2
<1>2. Contents(<<m>>) = <<prompt>>
  BY DEF Contents
<1>. HIDE DEF m
<1>. QED  BY <1>1, <1>2, TotalOfOne

-----------------------------------------------------------------------------
\* What is compacted weighs no more than the whole.
LEMMA EndWeighsLess ==
  ASSUME NEW F, IsMap(F, Message, Nat), NEW s \in Seq(Message), NEW e \in 0..Len(s)
  PROVE  /\ Weight(F, EndOf(s, e)) \in Nat /\ Weight(F, s) \in Nat
         /\ Weight(F, EndOf(s, e)) <= Weight(F, s)
<1>. DEFINE k == Len(s) - e
            front == SubSeq(s, 1, k)
            end == EndOf(s, e)
<1>1. Len(s) \in Nat /\ 1 \in 1..(Len(s) + 1) /\ k \in (1 - 1)..Len(s) /\ Len(s) \in k..Len(s)
  BY LenProperties
<1>2. s = front \o end
  <2>1. SubSeq(s, 1, k) \o SubSeq(s, k + 1, Len(s)) = SubSeq(s, 1, Len(s))
    <3>. HIDE DEF k
    <3>. QED  BY <1>1, ConcatAdjacentSubSeq
  <2>2. SubSeq(s, 1, Len(s)) = s
    BY SubSeqFull
  <2>. QED  BY <2>1, <2>2 DEF EndOf
<1>3. end \in Seq(Message)
  BY EndOfType
<1>4. front \in Seq(Message)
  <2>1. 1 \in Int /\ k \in Int /\ \A i \in 1..k : i \in 1..Len(s)
    BY <1>1
  <2>2. \A i \in 1..k : s[i] \in Message
    BY <2>1, ElementOfSeq
  <2>. HIDE DEF k
  <2>. QED  BY <2>1, <2>2, SubSeqProperties
<1>. HIDE DEF front, end, k
<1>5. Weight(F, front \o end) = Weight(F, front) + Weight(F, end)
  BY <1>3, <1>4, WeightConcat
<1>6. Weight(F, front) \in Nat /\ Weight(F, end) \in Nat /\ Weight(F, s) \in Nat
  BY <1>3, <1>4, WeightType
<1>7. Weight(F, s) = Weight(F, front) + Weight(F, end)
  BY <1>2, <1>5
<1>8. Weight(F, end) <= Weight(F, s)
  BY <1>6, <1>7
<1>. QED  BY <1>6, <1>8 DEF end

LEMMA CompactedWeighsLess ==
  ASSUME NEW F, IsMap(F, Message, Nat), NEW b \in ChatBody, b.messages # Absent
  PROVE  /\ b.messages \in Seq(Message) /\ Compacted(b).messages \in Seq(Message)
         /\ Compacted(b).prompt = b.prompt
         /\ Weight(F, Compacted(b).messages) \in Nat /\ Weight(F, b.messages) \in Nat
         /\ Weight(F, Compacted(b).messages) <= Weight(F, b.messages)
<1>. DEFINE s == b.messages
            system == Picked(s, System(s))
            spoken == Picked(s, Spoken(s))
<1>1. s \in Seq(Message) /\ system \in Seq(Message) /\ spoken \in Seq(Message)
      /\ Compacted(b).prompt = b.prompt
  BY CompactedIs
<1>2. PICK e \in 0..Len(spoken) : Compacted(b).messages = system \o EndOf(spoken, e)
  BY CompactedIs
<1>3. Weight(F, s) = Weight(F, system) + Weight(F, spoken)
  BY <1>1, WeightOfParts
<1>. HIDE DEF s, system, spoken
<1>4. /\ Weight(F, EndOf(spoken, e)) \in Nat /\ Weight(F, spoken) \in Nat
      /\ Weight(F, EndOf(spoken, e)) <= Weight(F, spoken)
  BY <1>1, EndWeighsLess
<1>5. EndOf(spoken, e) \in Seq(Message)
  BY <1>1, EndOfType
<1>6. Weight(F, system \o EndOf(spoken, e)) = Weight(F, system) + Weight(F, EndOf(spoken, e))
  BY <1>1, <1>5, WeightConcat
<1>7. Weight(F, system) \in Nat /\ Weight(F, s) \in Nat
  BY <1>1, WeightType
<1>8. system \o EndOf(spoken, e) \in Seq(Message)
  BY <1>1, <1>5, ConcatProperties
<1>9. /\ Weight(F, system \o EndOf(spoken, e)) \in Nat
      /\ Weight(F, system \o EndOf(spoken, e)) <= Weight(F, s)
  BY <1>3, <1>4, <1>6, <1>7
<1>. QED  BY <1>1, <1>2, <1>7, <1>8, <1>9 DEF s

\* What Anthropic is sent of messages is within what was counted for them and a
\* newline for each bare part.
LEMMA TranslationIsCharged ==
  ASSUME NEW c, NEW s, c.messages = s, s \in Seq(Message), c.prompt = Absent
  PROVE  \E x \in Nat : /\ ToAnthropic(c).system + Total(Contents(ToAnthropic(c).messages)) = x
                        /\ x <= Weight(Owed, s)
<1>. DEFINE system == Picked(s, System(s))
            spoken == Picked(s, Spoken(s))
            A == ToAnthropic(c)
<1>1. system \in Seq(Message) /\ spoken \in Seq(Message)
      /\ Weight(Apart, s) = Weight(Apart, system) + Weight(Apart, spoken)
  BY Measures, WeightOfParts
<1>2. A.system \in Nat /\ A.system <= Weight(Apart, system)
  BY TranslatedSystem
<1>3. s # Absent
  BY PayloadAssumption
<1>4. /\ Total(Contents(A.messages)) \in Nat
      /\ Total(Contents(A.messages)) <= Weight(Apart, spoken)
  <2>1. Weight(Texts, spoken) \in Nat /\ Weight(Apart, spoken) \in Nat
        /\ Weight(Texts, spoken) <= Weight(Apart, spoken)
    <3>. HIDE DEF spoken
    <3>. QED  BY <1>1, OwedIsEnough
  <2>2. CASE spoken # <<>>
    <3>1. Total(Contents(A.messages)) = Weight(Texts, spoken)
      BY <2>2, TranslatedMessages
    <3>. QED  BY <2>1, <3>1
  <2>3. CASE spoken = <<>>
    <3>1. 0 = (IF c.prompt = Absent THEN 0 ELSE c.prompt) /\ 0 \in Nat
      OBVIOUS
    <3>2. c.messages # Absent /\ Picked(c.messages, Spoken(c.messages)) = <<>>
      BY <1>3, <2>3
    <3>. HIDE DEF spoken
    <3>3. Total(Contents(A.messages)) = 0
      BY <3>1, <3>2, TranslatedPrompt
    <3>. QED  BY <2>1, <3>3
  <2>. QED  BY <2>2, <2>3
<1>. HIDE DEF system, spoken, A
<1>5. Weight(Apart, s) \in Nat /\ Weight(Owed, s) \in Nat /\ Weight(Apart, s) <= Weight(Owed, s)
      /\ Weight(Apart, system) \in Nat /\ Weight(Apart, spoken) \in Nat
  BY <1>1, OwedIsEnough
<1>6. /\ A.system + Total(Contents(A.messages)) \in Nat
      /\ A.system + Total(Contents(A.messages)) <= Weight(Owed, s)
  BY <1>1, <1>2, <1>4, <1>5
<1>. QED  BY <1>6 DEF A

-----------------------------------------------------------------------------
\* Nobody is sent more of a conversation than the tenant was charged for; only
\* Anthropic may be sent a newline more for each part with nothing but its text
\* (rate_limiter.py:217-234, router.py:387-458).
THEOREM ChargesCoverWhatIsSent == Spec => []SentIsCharged
<1>1. BodyInv => SentIsCharged
  <2>. DEFINE C == Compacted(body)
              A == ToAnthropic(C)
              bare == IF body.messages = Absent THEN 0 ELSE Chars(body.messages, Bare)
              chars(sent) == IF sent.messages = Absent THEN sent.prompt
                             ELSE Chars(sent.messages, ValueChars)
  <2>. SUFFICES ASSUME BodyInv, NEW i \in Asked,
                       body.messages = Absent \/ body.prompt = Absent
                PROVE  IF Preference[i] = "anthropic"
                       THEN Sent(i).system + Total(Contents(Sent(i).messages)) <= 4 * tokens + bare
                       ELSE chars(Sent(i)) <= 4 * tokens
    BY DEF SentIsCharged, Chars, Contents
  <2>0. body \in ChatBody /\ Valid(body) /\ tokens = Estimate(body)
    BY AskedIsKnown DEF Known
  <2>1. Counts(body) \in Nat /\ tokens \in Nat /\ Counts(body) <= 4 * tokens
    BY <2>0, EstimateCovers
  <2>2. Preference[i] = "anthropic" => Sent(i) = A
    BY DEF Sent, PayloadFor
  <2>3. Preference[i] # "anthropic" => Sent(i) = C
    BY DEF Sent, PayloadFor
  <2>4. CASE body.messages = Absent
    <3>1. C = body /\ C.messages = Absent /\ body.prompt \in Nat /\ Counts(body) = body.prompt
          /\ C.prompt = body.prompt /\ body.prompt # Absent
      BY <2>0, <2>4, PayloadAssumption DEF Compacted, Valid, Counts, ChatBody
    <3>2. bare = 0
      BY <2>4
    <3>3. chars(C) = body.prompt
      BY <3>1
    <3>. HIDE DEF C, bare, chars
    <3>4. Total(Contents(A.messages)) = body.prompt
      <4>1. body.prompt = (IF C.prompt = Absent THEN 0 ELSE C.prompt)
        BY <3>1
      <4>. QED  BY <3>1, <4>1, TranslatedPrompt
    <3>5. A.system = 0
      <4>. DEFINE none == Picked(<<>>, System(<<>>))
                  parts == [j \in DOMAIN none |-> Text(none[j])]
      <4>1. none = <<>>
        BY PickedOfNone
      <4>2. A.system = Joined(parts, 2)
        BY <3>1 DEF ToAnthropic
      <4>3. parts = <<>>
        BY <4>1
      <4>. HIDE DEF parts, A
      <4>4. Joined(<<>>, 2) = 0
        BY PickedOfNone DEF Joined
      <4>. QED  BY <4>2, <4>3, <4>4
    <3>. HIDE DEF A
    <3>. QED  BY <2>1, <2>2, <2>3, <3>1, <3>2, <3>3, <3>4, <3>5
  <2>5. CASE body.messages # Absent
    <3>. DEFINE s == body.messages
                M == C.messages
    <3>1. C.prompt = Absent
      BY <2>0, <2>5, Measures, CompactedWeighsLess
    <3>2. s \in Seq(Message) /\ M \in Seq(Message)
          /\ Weight(Owed, M) \in Nat /\ Weight(Owed, s) \in Nat
          /\ Weight(Owed, M) <= Weight(Owed, s)
      BY <2>0, <2>5, Measures, CompactedWeighsLess
    <3>3. Weight(Values, M) \in Nat /\ Weight(Values, M) <= Weight(Values, s)
      BY <2>0, <2>5, Measures, CompactedWeighsLess
    <3>4. Counts(body) = Weight(Values, s)
      BY <2>5 DEF Counts
    <3>5. bare = Weight(Bares, s)
      <4>1. s \in Seq(Message) => Chars(s, Bare) = Weight(Bares, s)
        <5>. HIDE DEF s
        <5>. QED  BY CharsAre
      <4>. QED  BY <2>5, <3>2, <4>1
    <3>6. Weight(Owed, s) = Weight(Values, s) + Weight(Bares, s)
          /\ Weight(Values, s) \in Nat /\ Weight(Bares, s) \in Nat
      <4>. HIDE DEF s
      <4>. QED  BY <3>2, OwedIsEnough
    <3>. HIDE DEF C, bare
    <3>7. chars(C) = Weight(Values, M)
      <4>1. M # Absent
        BY <3>2, PayloadAssumption
      <4>2. Chars(M, ValueChars) = Weight(Values, M)
        <5>. HIDE DEF M
        <5>. QED  BY <3>2, CharsAre
      <4>. QED  BY <4>1, <4>2
    <3>. HIDE DEF chars
    <3>8. PICK x \in Nat : /\ A.system + Total(Contents(A.messages)) = x
                           /\ x <= Weight(Owed, M)
      BY <3>1, <3>2, TranslationIsCharged
    <3>9. ASSUME Preference[i] = "anthropic"
          PROVE  Sent(i).system + Total(Contents(Sent(i).messages)) <= 4 * tokens + bare
      <4>1. Sent(i).system + Total(Contents(Sent(i).messages)) = x
        BY <2>2, <3>8, <3>9
      <4>2. x <= 4 * tokens + bare
        BY <2>1, <3>2, <3>4, <3>5, <3>6, <3>8
      <4>. QED  BY <4>1, <4>2
    <3>. QED  BY <2>1, <2>3, <3>3, <3>4, <3>6, <3>7, <3>9
  <2>. QED  BY <2>4, <2>5
<1>. QED  BY <1>1, BodyIsKnown, PTL

-----------------------------------------------------------------------------
(***************************************************************************)
(* The type invariant takes what is known of the stream, of its text, of   *)
(* the turns and of the body; what is left is the size of the tails.       *)
(***************************************************************************)
ChatInv == StreamInv /\ TextInv /\ TurnInv /\ BodyInv

LEMMA ChatIsKnown == Spec => []ChatInv
<1>1. Init => ChatInv
  BY InitStream, InitText, InitTurn, InitBody DEF ChatInv
<1>2. ChatInv /\ [Next]_vars => ChatInv'
  BY StepStream, StepText, StepTurn, StepBody DEF ChatInv
<1>. QED  BY <1>1, <1>2, PTL DEF Spec

InBounds ==
  /\ whole \in {<<>>} \cup Streams
  /\ Len(releasedTail) <= MaxTail /\ Len(decodedTail) <= MaxTail
  /\ sources \subseteq 1..Turns
  /\ pc \in {"new", "limiter", "ask", "rejecting", "relay"} \cup Ended

LEMMA TailIsBounded ==
  ASSUME NEW s \in Seq(Symbols)
  PROVE  Len(Tailed(s)) <= MaxTail
<1>. DEFINE a == IF Len(s) > MaxTail THEN Len(s) - MaxTail + 1 ELSE 1
<1>1. Len(s) \in Nat /\ MaxTail \in Nat \ {0}
  BY LenProperties, GuardAssumption
<1>2. a \in Nat \ {0} /\ a <= Len(s) + 1 /\ Len(s) - a + 1 <= MaxTail
  BY <1>1
<1>3. Tailed(s) = SubSeq(s, a, Len(s))
  BY DEF Tailed
<1>. HIDE DEF a
<1>4. Len(SubSeq(s, a, Len(s))) = Len(s) - a + 1
  BY <1>1, <1>2, PartOf
<1>. QED  BY <1>2, <1>3, <1>4

LEMMA InitBounds == Init => InBounds
<1>1. Len(<<>>) = 0 /\ MaxTail \in Nat \ {0}
  BY EmptySeq, GuardAssumption
<1>. QED  BY <1>1 DEF Init, GuardInit, InBounds

LEMMA QuietKeepsBounds ==
  ASSUME InBounds, whole' = whole, releasedTail' = releasedTail, decodedTail' = decodedTail,
         sources' \subseteq 1..Turns, pc' \in {"ask", "rejecting", "relay", "limiter", pc} \cup Ended
  PROVE  InBounds'
BY DEF InBounds

LEMMA ReleaseKeepsBounds ==
  ASSUME StreamInv, TextInv, InBounds, pc = "relay", NEW n, Release(n), pc' = pc,
         sources' \subseteq 1..Turns
  PROVE  InBounds'
<1>1. StreamType /\ InPlace /\ Awaited /\ Arrives(n)
  BY DEF StreamInv, Release
<1>2. Ready(n) \in Seq(Symbols)
  BY <1>1, SplitType
<1>3. releasedTail \o Ready(n) \in Seq(Symbols)
  BY <1>1, <1>2, ConcatProperties DEF StreamType
<1>4. decodedTail \o Decoded(Ready(n)) \in Seq(Symbols)
  <2>1. Decoded(Ready(n)) \in Seq(Symbols)
    BY <1>2, DecodedIsEnd
  <2>. QED  BY <2>1, ConcatProperties DEF TextInv
<1>5. Len(releasedTail') <= MaxTail /\ Len(decodedTail') <= MaxTail
  BY <1>3, <1>4, TailIsBounded DEF Release
<1>6. whole' = whole
  BY DEF Release
<1>. QED  BY <1>5, <1>6 DEF InBounds

LEMMA StepBounds == ChatInv /\ InBounds /\ [Next]_vars => InBounds'
<1>. SUFFICES ASSUME ChatInv, InBounds, [Next]_vars PROVE InBounds'
  OBVIOUS
<1>1. CASE Unreadable \/ Receive \/ NoLimiter \/ OverQuota \/ Admitted \/ Disconnect
  BY <1>1, QuietKeepsBounds DEF Unreadable, Receive, NoLimiter, OverQuota, Admitted,
     Disconnect, routerVars, guardVars, Ended, InBounds
<1>2. CASE FailOver \/ Reject \/ PassOn \/ CutOff \/ Answer \/ Undecodable \/ GiveUp \/ Break
  BY <1>2, QuietKeepsBounds DEF FailOver, Reject, PassOn, CutOff, Answer, Undecodable, GiveUp, Break,
     routerVars, guardVars, Ended, InBounds
<1>3. CASE Begin
  <2>1. Len(<<>>) = 0 /\ MaxTail \in Nat \ {0}
    BY EmptySeq, GuardAssumption
  <2>. QED  BY <1>3, <2>1 DEF Begin, Open, InBounds, routerVars
<1>4. ASSUME pc = "relay", Source PROVE sources' \subseteq 1..Turns
  <2>1. Turns \in Nat /\ turn \in 1..Turns
    BY <1>4, TurnsType DEF ChatInv, TurnInv
  <2>. QED  BY <1>4, <2>1 DEF Source, InBounds
<1>5. CASE Chunk
  <2>1. PICK n \in 1..Len(whole) : \/ Hold(n) /\ pc' = pc
                                   \/ Release(n) /\ pc' = pc
                                   \/ Trip(n) /\ pc' = "marker"
    BY <1>5 DEF Chunk
  <2>2. pc = "relay" /\ sources' \subseteq 1..Turns
    BY <1>4, <1>5 DEF Chunk
  <2>3. CASE Release(n) /\ pc' = pc
    BY <2>2, <2>3, ReleaseKeepsBounds DEF ChatInv
  <2>4. CASE Hold(n) /\ pc' = pc
    BY <2>2, <2>4, QuietKeepsBounds DEF Hold
  <2>5. CASE Trip(n) /\ pc' = "marker"
    BY <2>2, <2>5, QuietKeepsBounds DEF Trip, Ended
  <2>. QED  BY <2>1, <2>3, <2>4, <2>5
<1>6. CASE EndOfStream
  <2>1. sources' \subseteq 1..Turns /\ pc' \in Ended
    BY <1>4, <1>6 DEF EndOfStream, Ended
  <2>2. whole' = whole /\ releasedTail' = releasedTail /\ decodedTail' = decodedTail
    BY <1>6 DEF EndOfStream, Finish, TripAtEnd, guardVars
  <2>. QED  BY <2>1, <2>2, QuietKeepsBounds
<1>7. CASE UNCHANGED vars
  BY <1>7 DEF vars, guardVars, routerVars, InBounds
<1>. QED  BY <1>1, <1>2, <1>3, <1>4, <1>5, <1>6, <1>7 DEF Next, Upstream

\* Whatever providers and clients do, the two tails stay within MAX_TAIL, turns
\* within the preference and every variable within its type.
THEOREM ChatTypeIsCorrect == Spec => []TypeOK
<1>1. ChatInv /\ InBounds => TypeOK
  <2>. SUFFICES ASSUME ChatInv, InBounds PROVE TypeOK
    OBVIOUS
  <2>1. GuardTypeOK
    BY DEF ChatInv, StreamInv, StreamType, TextInv, InBounds, GuardTypeOK
  <2>2. turn \in 1..(Turns + 1) /\ verdict \in [1..Turns -> Verdicts \cup {"none"}]
    BY DEF ChatInv, TurnInv
  <2>. QED  BY <2>1, <2>2 DEF ChatInv, BodyInv, InBounds, TypeOK
<1>2. Spec => []InBounds
  BY ChatIsKnown, InitBounds, StepBounds, PTL DEF Spec
<1>. QED  BY <1>1, <1>2, ChatIsKnown, PTL
=============================================================================
