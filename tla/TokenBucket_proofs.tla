-------------------------- MODULE TokenBucket_proofs --------------------------
(***************************************************************************)
(* Proofs about TokenBucket, for any set of checks, capacities, estimates, *)
(* window, lag and bound: no bucket overflows, no check is charged twice,  *)
(* no stretch of time exceeds the quota, and an expiry and a Retry-After   *)
(* give nothing away.                                                      *)
(***************************************************************************)
EXTENDS TokenBucket, TLAPS, SequenceTheorems, WellFoundedInduction

Contained(t) == t \in [Buckets -> Nat] /\ \A k \in Buckets : t[k] <= Full(k)

\* The capacity of a bucket and the cost of a check are natural numbers.
LEMMA AmountsAreNat ==
  ASSUME NEW k \in Buckets, NEW n \in Nat
  PROVE  Full(k) \in Nat /\ Cost(k, n) \in Nat /\ Capacity[k] \in Nat
<1>1. Capacity[k] \in Nat /\ Window \in Nat
  BY BucketAssumption
<1>2. Capacity[k] * Window \in Nat
  BY <1>1
<1>3. 1 * Window \in Nat /\ Most(1, n) * Window \in Nat
  BY <1>1 DEF Most
<1>. QED  BY <1>1, <1>2, <1>3 DEF Full, Cost

\* A loaded bucket holds a natural number of parts, and no more than its
\* capacity, however long it was left alone.
LEMMA LoadIsContained ==
  ASSUME TypeOK, NEW now1 \in Nat
  PROVE  Contained(Contents(now1))
<1>1. SUFFICES ASSUME NEW k \in Buckets
               PROVE  /\ Load(k, tokens, ts, Missing, now1) \in Nat
                      /\ Load(k, tokens, ts, Missing, now1) <= Full(k)
  BY DEF Contained, Contents
<1>2. Full(k) \in Nat /\ Capacity[k] \in Nat
  BY AmountsAreNat
<1>3. Less(now1, ts) \in Nat /\ tokens[k] \in Nat
  BY DEF TypeOK, Less
<1>4. Less(now1, ts) * Capacity[k] \in Nat
  BY <1>2, <1>3
<1>5. tokens[k] + Less(now1, ts) * Capacity[k] \in Nat
  BY <1>3, <1>4
<1>. QED  BY <1>2, <1>5 DEF Load, Least

\* Taking what a check costs leaves a bucket between empty and full.
LEMMA TakeIsContained ==
  ASSUME NEW t, Contained(t), NEW n \in Nat
  PROVE  Contained(Take(t, n))
<1>1. CASE ~Enough(t, n)
  BY <1>1 DEF Take
<1>2. CASE Enough(t, n)
  <2>1. SUFFICES ASSUME NEW k \in Buckets
                 PROVE  t[k] - Cost(k, n) \in Nat /\ t[k] - Cost(k, n) <= Full(k)
    BY <1>2 DEF Take, Contained
  <2>2. t[k] \in Nat /\ t[k] <= Full(k) /\ t[k] >= Cost(k, n)
    BY <1>2 DEF Contained, Enough
  <2>3. Full(k) \in Nat /\ Cost(k, n) \in Nat
    BY AmountsAreNat
  <2>. QED  BY <2>2, <2>3
<1>. QED  BY <1>1, <1>2

\* The script leaves both buckets as they must be and charges no other check.
LEMMA ExecuteType ==
  ASSUME TypeOK, NEW c \in Checks, Execute(c)
  PROVE  /\ Contained(tokens') /\ ts' \in Nat /\ slip' \in Nat /\ expiry' \in Nat
         /\ charged' \in [Checks -> Nat]
         /\ grants' \in Seq([n : Nat, at : Nat, slip : Nat])
         /\ charged' = IF Enough(Contents(now[c]), estimate[c])
                       THEN [charged EXCEPT ![c] = @ + 1] ELSE charged
<1>1. now[c] \in Nat /\ estimate[c] \in Nat /\ charged[c] \in Nat
  BY DEF TypeOK
<1>2. Contained(tokens')
  BY <1>1, LoadIsContained, TakeIsContained DEF Execute
<1>3. ts' \in Nat
  BY <1>1 DEF Execute, WriteTs
<1>7. slip' \in Nat
  <2>1. Less(RefilledTo, now[c]) \in Nat /\ slip \in Nat
    BY <1>1, BucketAssumption DEF TypeOK, Less, RefilledTo
  <2>. QED  BY <2>1 DEF Execute
<1>4. Ttl \in Nat /\ expiry' \in Nat
  BY BucketAssumption DEF Execute, Ttl, TypeOK
<1>5. CASE Enough(Contents(now[c]), estimate[c])
  <2>1. charged' = [charged EXCEPT ![c] = @ + 1]
    BY <1>5 DEF Execute
  <2>2. charged' \in [Checks -> Nat]
    BY <1>1, <2>1 DEF TypeOK
  <2>3. grants' = Append(grants, [n |-> estimate[c], at |-> now[c], slip |-> slip'])
    BY <1>5 DEF Execute
  <2>4. [n |-> estimate[c], at |-> now[c], slip |-> slip'] \in [n : Nat, at : Nat, slip : Nat]
    BY <1>1, <1>7 DEF TypeOK
  <2>5. grants \in Seq([n : Nat, at : Nat, slip : Nat])
    BY DEF TypeOK
  <2>6. grants' \in Seq([n : Nat, at : Nat, slip : Nat])
    BY <2>3, <2>4, <2>5, AppendProperties
  <2>. QED  BY <1>2, <1>3, <1>4, <1>5, <1>7, <2>1, <2>2, <2>6
<1>6. CASE ~Enough(Contents(now[c]), estimate[c])
  <2>1. charged' = charged /\ grants' = grants
    BY <1>6 DEF Execute
  <2>. QED  BY <1>2, <1>3, <1>4, <1>6, <1>7, <2>1 DEF TypeOK
<1>. QED  BY <1>5, <1>6

-----------------------------------------------------------------------------
\* Both buckets, the hashes and every check start as they must be.
LEMMA InitHolds == Init => TypeOK /\ ChargedOnce
<1>. SUFFICES ASSUME Init PROVE TypeOK /\ ChargedOnce
  OBVIOUS
<1>1. \A k \in Buckets : Full(k) \in Nat
  BY AmountsAreNat
<1>2. TypeOK
  <2>1. tokens \in [Buckets -> Nat] /\ \A k \in Buckets : tokens[k] <= Full(k)
    BY <1>1 DEF Init
  <2>2. grants \in Seq([n : Nat, at : Nat, slip : Nat])
    BY DEF Init
  <2>3. pc \in [Checks -> {"idle"} \cup InFlight \cup Ended]
    BY DEF Init
  <2>. QED  BY <2>1, <2>2, <2>3 DEF Init, TypeOK
<1>3. ChargedOnce
  BY DEF Init, ChargedOnce
<1>. QED  BY <1>2, <1>3

\* Every step keeps the types, and charges whom it allows exactly once.
LEMMA StepHolds == TypeOK /\ ChargedOnce /\ [Next]_vars => TypeOK' /\ ChargedOnce'
<1>. SUFFICES ASSUME TypeOK, ChargedOnce, [Next]_vars PROVE TypeOK' /\ ChargedOnce'
  OBVIOUS
<1>. USE DEF TypeOK, ChargedOnce, bucketVars, checkVars, InFlight, Ended
<1>1. ASSUME NEW c \in Checks, Check(c) PROVE TypeOK' /\ ChargedOnce'
  <2>1. \A n \in Estimates : n \in Nat
    BY BucketAssumption
  <2>2. TypeOK'
    BY <1>1, <2>1 DEF Check, Full
  <2>3. ChargedOnce'
    BY <1>1 DEF Check
  <2>. QED  BY <2>2, <2>3
<1>2. ASSUME NEW c \in Checks, ScriptLoad(c) PROVE TypeOK' /\ ChargedOnce'
  BY <1>2 DEF ScriptLoad, Full
<1>3. ASSUME NEW c \in Checks, EvalSha(c) PROVE TypeOK' /\ ChargedOnce'
  <2>1. charged[c] = 0
    BY <1>3 DEF EvalSha
  <2>2. /\ Contained(tokens') /\ ts' \in Nat /\ slip' \in Nat /\ expiry' \in Nat
        /\ charged' \in [Checks -> Nat]
        /\ grants' \in Seq([n : Nat, at : Nat, slip : Nat])
        /\ charged' = IF Enough(Contents(now[c]), estimate[c])
                      THEN [charged EXCEPT ![c] = @ + 1] ELSE charged
    BY <1>3, ExecuteType DEF EvalSha
  <2>3. pc' = [pc EXCEPT ![c] = IF Enough(Contents(now[c]), estimate[c])
                                THEN "allowed" ELSE "denied"]
    BY <1>3 DEF EvalSha
  <2>4. TypeOK'
    BY <1>3, <2>2, <2>3 DEF EvalSha, Contained, Full
  <2>5. ChargedOnce'
    BY <2>1, <2>2, <2>3
  <2>. QED  BY <2>4, <2>5
<1>4. ASSUME NEW c \in Checks, NoScript(c) PROVE TypeOK' /\ ChargedOnce'
  BY <1>4 DEF NoScript, Full
<1>5. ASSUME NEW c \in Checks, RedisFails(c) PROVE TypeOK' /\ ChargedOnce'
  BY <1>5 DEF RedisFails, Full
<1>6. ASSUME NEW c \in Checks, ReplyLost(c) PROVE TypeOK' /\ ChargedOnce'
  <2>1. charged[c] = 0
    BY <1>6 DEF ReplyLost
  <2>2. /\ Contained(tokens') /\ ts' \in Nat /\ slip' \in Nat /\ expiry' \in Nat
        /\ charged' \in [Checks -> Nat]
        /\ grants' \in Seq([n : Nat, at : Nat, slip : Nat])
        /\ charged' = IF Enough(Contents(now[c]), estimate[c])
                      THEN [charged EXCEPT ![c] = @ + 1] ELSE charged
    BY <1>6, ExecuteType DEF ReplyLost
  <2>3. TypeOK'
    BY <1>6, <2>2 DEF ReplyLost, Contained, Full
  <2>4. ChargedOnce'
    BY <1>6, <2>1, <2>2 DEF ReplyLost
  <2>. QED  BY <2>3, <2>4
<1>7. CASE ScriptsLost
  BY <1>7 DEF ScriptsLost, Full
<1>8. CASE Tick
  BY <1>8 DEF Tick, Full
<1>9. CASE UNCHANGED vars
  BY <1>9 DEF vars, Full
<1>. QED  BY <1>1, <1>2, <1>3, <1>4, <1>5, <1>6, <1>7, <1>8, <1>9 DEF Next

\* No bucket is ever below zero or above its capacity (load_bucket's math.min,
\* rate_limiter.py:41-43), and every variable keeps its type.
THEOREM BucketsNeverOverflow == Spec => []TypeOK
<1>1. TypeOK /\ ChargedOnce /\ [Next]_vars => (TypeOK /\ ChargedOnce)'
  BY StepHolds
<1>. QED  BY <1>1, InitHolds, PTL DEF Spec

\* Whatever is lost, the script or the reply, a check is charged once if it is
\* allowed, never if it is denied, and at most once if it fails
\* (rate_limiter.py:183-194).
THEOREM NobodyIsChargedTwice == Spec => []ChargedOnce
<1>1. TypeOK /\ ChargedOnce /\ [Next]_vars => (TypeOK /\ ChargedOnce)'
  BY StepHolds
<1>. QED  BY <1>1, InitHolds, PTL DEF Spec

-----------------------------------------------------------------------------
(***************************************************************************)
(* Sums of costs.  Granted is a recursive function over a stretch of       *)
(* grants; its defining equation, and that it is the only function to have *)
(* it, are proved by looking at a least position where it would fail.      *)
(***************************************************************************)
Grant == [n : Nat, at : Nat, slip : Nat]
SumOf(f, k, g, i, j) ==
  f = [m \in (i - 1)..j |-> IF m = i - 1 THEN 0 ELSE f[m - 1] + Cost(k, g[m].n)]
NatSumOf(f, k, g, i, j) == SumOf(f, k, g, i, j) /\ f \in [(i - 1)..j -> Nat]
SameCosts(g, h, i, j) == \A m \in i..j : g[m].n = h[m].n
Spent(k, g, i, j) == (CHOOSE f : SumOf(f, k, g, i, j))[j]

LEMMA GrantedIsSpent ==
  ASSUME NEW k, NEW i, NEW j
  PROVE  Granted(k, i, j) = Spent(k, grants, i, j)
BY DEF Granted, Spent, SumOf

\* A set of naturals has a least element.
LEMMA LeastExists ==
  ASSUME NEW T \in SUBSET Nat, T # {}
  PROVE  \E x \in T : \A y \in T : ~ (y < x)
<1>. DEFINE R == OpToRel(<, Nat)
<1>1. IsWellFoundedOn(R, Nat)
  BY NatLessThanWellFounded
<1>2. PICK x \in T : \A y \in T : ~ (<<y, x>> \in R)
  <2>. HIDE DEF R
  <2>. QED  BY <1>1, WFMin
<1>. QED  BY <1>2 DEF OpToRel

\* A running sum can be carried on by one grant...
LEMMA SumExtends ==
  ASSUME NEW k \in Buckets, NEW g \in Seq(Grant), NEW i \in Nat \ {0},
         NEW j \in Nat, i <= j, j <= Len(g),
         NEW f, NatSumOf(f, k, g, i, j - 1)
  PROVE  \E h : NatSumOf(h, k, g, i, j)
<1>. DEFINE h == [m \in (i - 1)..j |->
                    IF m = j THEN f[j - 1] + Cost(k, g[j].n) ELSE f[m]]
<1>1. Len(g) \in Nat /\ j \in 1..Len(g)
  BY LenProperties
<1>2. g[j] \in Grant
  BY <1>1, ElementOfSeq
<1>3. Cost(k, g[j].n) \in Nat
  BY <1>2, AmountsAreNat DEF Grant
<1>4. /\ f \in [(i - 1)..(j - 1) -> Nat]
      /\ f[j - 1] \in Nat /\ f[j - 1] + Cost(k, g[j].n) \in Nat
  BY <1>3 DEF NatSumOf
<1>5. h \in [(i - 1)..j -> Nat]
  BY <1>4
<1>6. \A m \in (i - 1)..(j - 1) :
        f[m] = IF m = i - 1 THEN 0 ELSE f[m - 1] + Cost(k, g[m].n)
  BY DEF NatSumOf, SumOf
<1>7. \A m \in (i - 1)..j : h[m] = IF m = i - 1 THEN 0 ELSE h[m - 1] + Cost(k, g[m].n)
  <2>. SUFFICES ASSUME NEW m \in (i - 1)..j
                PROVE  h[m] = IF m = i - 1 THEN 0 ELSE h[m - 1] + Cost(k, g[m].n)
    OBVIOUS
  <2>1. CASE m = j
    BY <2>1
  <2>2. CASE m # j
    <3>1. m \in (i - 1)..(j - 1) /\ h[m] = f[m]
      BY <2>2
    <3>2. m # i - 1 => h[m - 1] = f[m - 1]
      BY <2>2
    <3>. QED  BY <1>6, <3>1, <3>2
  <2>. QED  BY <2>1, <2>2
<1>8. h = [m \in (i - 1)..j |-> IF m = i - 1 THEN 0 ELSE h[m - 1] + Cost(k, g[m].n)]
  <2>1. h = [m \in (i - 1)..j |-> h[m]]
    BY <1>5
  <2>. HIDE DEF h
  <2>. QED  BY <1>7, <2>1
<1>. HIDE DEF h
<1>. QED  BY <1>5, <1>8 DEF NatSumOf, SumOf

\* ... so that every stretch of grants has one...
LEMMA SumExists ==
  ASSUME NEW k \in Buckets, NEW g \in Seq(Grant), NEW i \in Nat \ {0},
         NEW j \in Nat, i - 1 <= j, j <= Len(g)
  PROVE  \E f : NatSumOf(f, k, g, i, j)
<1>. DEFINE Has(m) == \E f : NatSumOf(f, k, g, i, m)
            T == {m \in Nat : i - 1 <= m /\ m <= Len(g) /\ ~Has(m)}
<1>1. Has(i - 1)
  <2>. DEFINE f == [m \in (i - 1)..(i - 1) |-> 0]
  <2>1. NatSumOf(f, k, g, i, i - 1)
    BY DEF NatSumOf, SumOf
  <2>. QED  BY <2>1
<1>2. \A m \in Nat : i <= m /\ m <= Len(g) /\ Has(m - 1) => Has(m)
  BY SumExtends
<1>. HIDE DEF Has
<1>3. CASE T = {}
  BY <1>3 DEF Has
<1>4. CASE T # {}
  <2>1. T \in SUBSET Nat /\ Len(g) \in Nat
    BY LenProperties
  <2>2. PICK x \in T : \A y \in T : ~ (y < x)
    <3>. HIDE DEF T
    <3>. QED  BY <1>4, <2>1, LeastExists
  <2>3. x # i - 1 => Has(x - 1)
    BY <2>1, <2>2
  <2>. QED  BY <1>1, <1>2, <2>1, <2>2, <2>3
<1>. QED  BY <1>3, <1>4

\* ... which depends on these grants only, not on what came after them.
LEMMA SumsAgree ==
  ASSUME NEW k \in Buckets, NEW g, NEW h, NEW i \in Nat \ {0}, NEW j \in Nat,
         NEW l \in Nat, j <= l, SameCosts(g, h, i, j),
         NEW f, SumOf(f, k, g, i, j), NEW e, SumOf(e, k, h, i, l)
  PROVE  \A m \in (i - 1)..j : f[m] = e[m]
<1>. DEFINE T == {m \in (i - 1)..j : f[m] # e[m]}
<1>1. CASE T = {}
  BY <1>1
<1>2. CASE T # {}
  <2>1. T \in SUBSET Nat
    OBVIOUS
  <2>2. PICK x \in T : \A y \in T : ~ (y < x)
    <3>. HIDE DEF T
    <3>. QED  BY <1>2, <2>1, LeastExists
  <2>3. x \in (i - 1)..j /\ f[x] # e[x]
    BY <2>2
  <2>4. f[x] = IF x = i - 1 THEN 0 ELSE f[x - 1] + Cost(k, g[x].n)
    BY <2>3 DEF SumOf
  <2>5. e[x] = IF x = i - 1 THEN 0 ELSE e[x - 1] + Cost(k, h[x].n)
    BY <2>3 DEF SumOf
  <2>6. x # i - 1 => f[x - 1] = e[x - 1] /\ g[x].n = h[x].n
    BY <2>2, <2>3 DEF SameCosts
  <2>. QED  BY <2>3, <2>4, <2>5, <2>6
<1>. QED  BY <1>1, <1>2

\* What a stretch spent is the end of its running sum.
LEMMA SpentIsSum ==
  ASSUME NEW k \in Buckets, NEW g \in Seq(Grant), NEW i \in Nat \ {0},
         NEW j \in Nat, i - 1 <= j, j <= Len(g)
  PROVE  \E f : NatSumOf(f, k, g, i, j) /\ Spent(k, g, i, j) = f[j]
<1>1. PICK f : NatSumOf(f, k, g, i, j)
  BY SumExists
<1>. DEFINE c == CHOOSE x : SumOf(x, k, g, i, j)
<1>2. SumOf(c, k, g, i, j) /\ SumOf(f, k, g, i, j)
  BY <1>1 DEF NatSumOf
<1>3. Spent(k, g, i, j) = c[j]
  BY DEF Spent
<1>. HIDE DEF c
<1>4. SameCosts(g, g, i, j) /\ j <= j /\ j \in (i - 1)..j
  BY DEF SameCosts
<1>5. c[j] = f[j]
  BY <1>2, <1>4, SumsAgree
<1>. QED  BY <1>1, <1>3, <1>5

\* What is spent is a natural number; nothing is spent in an empty stretch; a
\* further grant adds its cost and leaves earlier stretches as they are.
LEMMA SpentMore ==
  ASSUME NEW k \in Buckets, NEW g \in Seq(Grant), NEW h \in Seq(Grant),
         NEW n \in Nat, Len(g) = n, Len(h) = n + 1, \A m \in 1..n : h[m] = g[m],
         NEW i \in Nat \ {0}, i <= n + 1
  PROVE  /\ \A j \in (i - 1)..n : Spent(k, g, i, j) \in Nat
                                  /\ Spent(k, h, i, j) = Spent(k, g, i, j)
         /\ Spent(k, g, i, i - 1) = 0
         /\ Spent(k, h, i, n + 1) = Spent(k, g, i, n) + Cost(k, h[n + 1].n)
<1>1. ASSUME NEW j \in (i - 1)..n
      PROVE  Spent(k, g, i, j) \in Nat /\ Spent(k, h, i, j) = Spent(k, g, i, j)
  <2>0. j \in Nat /\ i - 1 <= j /\ j <= Len(g) /\ j <= Len(h) /\ j <= j
    OBVIOUS
  <2>1. PICK f : NatSumOf(f, k, g, i, j) /\ Spent(k, g, i, j) = f[j]
    BY <2>0, SpentIsSum
  <2>2. PICK e : NatSumOf(e, k, h, i, j) /\ Spent(k, h, i, j) = e[j]
    BY <2>0, SpentIsSum
  <2>3. SameCosts(g, h, i, j)
    BY DEF SameCosts
  <2>4. SumOf(f, k, g, i, j) /\ SumOf(e, k, h, i, j)
    BY <2>1, <2>2 DEF NatSumOf
  <2>5. \A m \in (i - 1)..j : f[m] = e[m]
    BY <2>0, <2>3, <2>4, SumsAgree
  <2>. QED  BY <2>0, <2>1, <2>2, <2>5 DEF NatSumOf
<1>2. Spent(k, g, i, i - 1) = 0
  <2>0. i - 1 \in Nat /\ i - 1 <= i - 1 /\ i - 1 <= Len(g)
    OBVIOUS
  <2>1. PICK f : NatSumOf(f, k, g, i, i - 1) /\ Spent(k, g, i, i - 1) = f[i - 1]
    BY <2>0, SpentIsSum
  <2>. QED  BY <2>1 DEF NatSumOf, SumOf
<1>3. Spent(k, h, i, n + 1) = Spent(k, g, i, n) + Cost(k, h[n + 1].n)
  <2>0. /\ i - 1 <= n /\ n <= Len(g) /\ n <= n + 1
        /\ n + 1 \in Nat /\ i - 1 <= n + 1 /\ n + 1 <= Len(h)
    OBVIOUS
  <2>1. PICK f : NatSumOf(f, k, g, i, n) /\ Spent(k, g, i, n) = f[n]
    BY <2>0, SpentIsSum
  <2>2. PICK e : NatSumOf(e, k, h, i, n + 1) /\ Spent(k, h, i, n + 1) = e[n + 1]
    BY <2>0, SpentIsSum
  <2>3. SameCosts(g, h, i, n)
    BY DEF SameCosts
  <2>4. SumOf(f, k, g, i, n) /\ SumOf(e, k, h, i, n + 1)
    BY <2>1, <2>2 DEF NatSumOf
  <2>5. \A m \in (i - 1)..n : f[m] = e[m]
    BY <2>0, <2>3, <2>4, SumsAgree
  <2>6. e[n + 1] = e[n + 1 - 1] + Cost(k, h[n + 1].n)
    <3>1. n + 1 \in (i - 1)..(n + 1) /\ n + 1 # i - 1
      OBVIOUS
    <3>2. \A m \in (i - 1)..(n + 1) :
            e[m] = IF m = i - 1 THEN 0 ELSE e[m - 1] + Cost(k, h[m].n)
      BY <2>4 DEF SumOf
    <3>. QED  BY <3>1, <3>2
  <2>. QED  BY <2>0, <2>1, <2>2, <2>5, <2>6
<1>. QED  BY <1>1, <1>2, <1>3

-----------------------------------------------------------------------------
(***************************************************************************)
(* The quota.  LateInv: a check in flight has read the clock before, and    *)
(* after a grant the hashes live for Ttl from ts on.  QuotaInv: what is in *)
(* a bucket and what was taken from it since grant i come to no more than  *)
(* its capacity and the refill since then, by ts and by the time that was  *)
(* refilled more than once; this sum only grows.  A full bucket in the     *)
(* place of one that expired is covered by a refill of Window.             *)
(***************************************************************************)
Stamp(i) == grants[i].at + grants[i].slip
LateInv ==
  /\ \A c \in Checks : pc[c] \in InFlight => now[c] <= clock
  /\ grants # <<>> => ts + Ttl <= expiry
Covered(k, i) ==
  /\ Stamp(i) <= ts + slip
  /\ tokens[k] + Spent(k, grants, i, Len(grants))
       <= Full(k) + ((ts + slip) - Stamp(i)) * Capacity[k]
QuotaInv ==
  /\ QuotaHolds
  /\ \A k \in Buckets : \A i \in DOMAIN grants : Covered(k, i)

\* Refills are in proportion to time.
LEMMA Proportional ==
  ASSUME NEW a \in Nat, NEW b \in Nat, NEW c \in Nat
  PROVE  /\ (a + b) * c = a * c + b * c
         /\ a <= b => a * c <= b * c
         /\ a * c \in Nat
OBVIOUS

\* Every grant is a record of naturals, and what is spent since is one.
LEMMA GrantsType ==
  ASSUME TypeOK
  PROVE  /\ grants \in Seq(Grant) /\ Len(grants) \in Nat /\ DOMAIN grants = 1..Len(grants)
         /\ \A i \in DOMAIN grants : Stamp(i) \in Nat
         /\ \A k \in Buckets : \A i \in DOMAIN grants :
              Spent(k, grants, i, Len(grants)) \in Nat
<1>1. /\ grants \in Seq(Grant) /\ Len(grants) \in Nat /\ DOMAIN grants = 1..Len(grants)
  BY LenProperties DEF TypeOK, Grant
<1>2. \A i \in DOMAIN grants : grants[i] \in Grant
  BY <1>1, ElementOfSeq
<1>3. \A i \in DOMAIN grants : Stamp(i) \in Nat
  BY <1>2 DEF Stamp, Grant
<1>4. ASSUME NEW k \in Buckets, NEW i \in DOMAIN grants
      PROVE  Spent(k, grants, i, Len(grants)) \in Nat
  <2>1. i \in Nat \ {0} /\ i - 1 <= Len(grants) /\ Len(grants) <= Len(grants)
    BY <1>1
  <2>2. PICK f : NatSumOf(f, k, grants, i, Len(grants))
                 /\ Spent(k, grants, i, Len(grants)) = f[Len(grants)]
    BY <1>1, <2>1, SpentIsSum
  <2>. QED  BY <1>1, <2>1, <2>2 DEF NatSumOf
<1>. QED  BY <1>1, <1>3, <1>4

\* The hashes that are missing were forgotten two Windows after ts.
LEMMA MissingIsOld ==
  ASSUME TypeOK, LateInv, Missing, grants # <<>>
  PROVE  ts + 2 * Window <= clock
BY BucketAssumption DEF TypeOK, LateInv, Missing, Ttl

\* What a check finds in a bucket is covered by the time that passed.
LEMMA LoadIsCovered ==
  ASSUME TypeOK, LateInv, NEW c \in Checks, pc[c] \in InFlight, Execute(c),
         NEW k \in Buckets, NEW i \in DOMAIN grants, Covered(k, i)
  PROVE  /\ Stamp(i) <= ts' + slip'
         /\ Contents(now[c])[k] + Spent(k, grants, i, Len(grants))
              <= Full(k) + ((ts' + slip') - Stamp(i)) * Capacity[k]
<1>. DEFINE a == now[c]
            C == Capacity[k]
            S == Spent(k, grants, i, Len(grants))
            D == (ts + slip) - Stamp(i)
            have == Contents(a)[k]
<1>1. a \in Nat /\ ts \in Nat /\ slip \in Nat /\ tokens[k] \in Nat
  BY DEF TypeOK
<1>2. C \in Nat /\ Full(k) \in Nat /\ Window \in Nat /\ Full(k) = C * Window
  BY AmountsAreNat, BucketAssumption DEF Full
<1>3. S \in Nat /\ Stamp(i) \in Nat /\ grants # <<>>
  BY GrantsType
<1>4. D \in Nat
  BY <1>1, <1>3 DEF Covered
<1>5. tokens[k] + S <= Full(k) + D * C
  BY DEF Covered
<1>6. have \in Nat /\ have = Load(k, tokens, ts, Missing, a)
  BY <1>1, LoadIsContained DEF Contained, Contents
<1>7. ts' = a /\ slip' = slip + Less(RefilledTo, a)
  BY DEF Execute, WriteTs
<1>8. \E e \in Nat : ts' + slip' = ts + slip + e /\ have + S <= Full(k) + (D * C + e * C)
  <2>1. CASE ~Missing
    <3>. DEFINE e == Less(a, ts)
    <3>1. e \in Nat /\ ts' + slip' = ts + slip + e
      BY <1>1, <1>7, <2>1 DEF Less, RefilledTo
    <3>2. have = Least(Full(k), tokens[k] + e * C)
      BY <1>6, <2>1 DEF Load
    <3>. HIDE DEF e, D, S, C, have, a
    <3>3. e * C \in Nat /\ D * C \in Nat
      BY <1>2, <1>4, <3>1, Proportional
    <3>4. have <= tokens[k] + e * C
      BY <1>1, <1>2, <3>2, <3>3 DEF Least
    <3>5. have + S <= Full(k) + (D * C + e * C)
      <4>. DEFINE eC == e * C
                  dC == D * C
                  f == Full(k)
                  t == tokens[k]
      <4>1. eC \in Nat /\ dC \in Nat /\ f \in Nat /\ t \in Nat /\ have \in Nat /\ S \in Nat
        BY <1>1, <1>2, <1>3, <1>6, <3>3
      <4>2. t + S <= f + dC /\ have <= t + eC
        BY <1>5, <3>4
      <4>. HIDE DEF eC, dC, f, t
      <4>3. have + S <= f + (dC + eC)
        BY <4>1, <4>2
      <4>. QED  BY <4>3 DEF eC, dC, f, t
    <3>. QED  BY <3>1, <3>5
  <2>2. CASE Missing
    <3>. DEFINE e == (a - ts) + Less(ts + Window, a)
    <3>2. e \in Nat /\ Window <= e /\ ts' + slip' = ts + slip + e
      BY <1>1, <1>2, <1>7, <2>2 DEF Less, RefilledTo
    <3>3. have = Full(k)
      BY <1>6, <2>2 DEF Load
    <3>. HIDE DEF e, D, S, C, have, a
    <3>4. /\ Window * C <= e * C /\ e * C \in Nat /\ D * C \in Nat
          /\ Full(k) = Window * C
      BY <1>2, <1>4, <3>2, Proportional
    <3>5. have + S <= Full(k) + (D * C + e * C)
      <4>. DEFINE eC == e * C
                  dC == D * C
                  f == Full(k)
                  t == tokens[k]
      <4>1. eC \in Nat /\ dC \in Nat /\ f \in Nat /\ t \in Nat /\ have \in Nat /\ S \in Nat
        BY <1>1, <1>2, <1>3, <1>6, <3>4
      <4>2. t + S <= f + dC /\ have = f /\ f <= eC
        BY <1>5, <3>3, <3>4
      <4>. HIDE DEF eC, dC, f, t
      <4>3. have + S <= f + (dC + eC)
        BY <4>1, <4>2
      <4>. QED  BY <4>3 DEF eC, dC, f, t
    <3>. QED  BY <3>2, <3>5
  <2>. QED  BY <2>1, <2>2
<1>9. PICK e \in Nat : ts' + slip' = ts + slip + e
                       /\ have + S <= Full(k) + (D * C + e * C)
  BY <1>8
<1>10. (D + e) * C = D * C + e * C
  <2>. HIDE DEF D, C
  <2>. QED  BY <1>2, <1>4, <1>9, Proportional
<1>11. (ts' + slip') - Stamp(i) = D + e /\ Stamp(i) <= ts' + slip'
  BY <1>1, <1>3, <1>4, <1>9
<1>12. have + S <= Full(k) + ((ts' + slip') - Stamp(i)) * C
  <2>. HIDE DEF D, S, C, have
  <2>. QED  BY <1>9, <1>10, <1>11
<1>. QED  BY <1>11, <1>12

\* QuotaHolds speaks of nothing but the grants.
SpentHolds(g) ==
  \A k \in Buckets : \A i, j \in DOMAIN g :
    i <= j => Spent(k, g, i, j)
                <= Full(k) + ((g[j].at + g[j].slip) - (g[i].at + g[i].slip)) * Capacity[k]
LEMMA QuotaIsSpent ==
  (QuotaHolds <=> SpentHolds(grants)) /\ (QuotaHolds' <=> SpentHolds(grants'))
<1>1. \A k, i, j : Granted(k, i, j) = Spent(k, grants, i, j)
  BY DEF Granted, Spent, SumOf
<1>2. \A k, i, j : Granted(k, i, j)' = Spent(k, grants', i, j)
  BY DEF Granted, Spent, SumOf
<1>3. QuotaHolds <=> SpentHolds(grants)
  BY <1>1 DEF QuotaHolds, SpentHolds
<1>4. QuotaHolds' <=> SpentHolds(grants')
  BY <1>2 DEF QuotaHolds, SpentHolds
<1>. QED  BY <1>3, <1>4

\* A check that is denied leaves the buckets as it found them.
LEMMA DeniedQuota ==
  ASSUME TypeOK, LateInv, QuotaInv, NEW c \in Checks, pc[c] \in InFlight, Execute(c),
         ~Enough(Contents(now[c]), estimate[c])
  PROVE  QuotaInv'
<1>1. tokens' = Contents(now[c]) /\ grants' = grants
  BY DEF Execute, Take
<1>2. QuotaHolds'
  BY <1>1, QuotaIsSpent DEF QuotaInv
<1>3. \A k \in Buckets : \A i \in DOMAIN grants : Covered(k, i)'
  BY <1>1, LoadIsCovered DEF QuotaInv, Covered, Stamp
<1>. QED  BY <1>1, <1>2, <1>3 DEF QuotaInv

\* One that is allowed takes its cost out of them and puts it down as spent.
LEMMA AllowedQuota ==
  ASSUME TypeOK, LateInv, QuotaInv, NEW c \in Checks, pc[c] \in InFlight, Execute(c),
         Enough(Contents(now[c]), estimate[c])
  PROVE  QuotaInv'
<1>. DEFINE have == Contents(now[c])
            n == Len(grants)
            X == ts' + slip'
            h == grants'
            cost(k) == Cost(k, estimate[c])
<1>1. n \in Nat /\ grants \in Seq(Grant) /\ DOMAIN grants = 1..n
  BY GrantsType
<1>2. /\ h \in Seq(Grant) /\ Len(h) = n + 1 /\ DOMAIN h = 1..(n + 1)
      /\ \A m \in 1..n : h[m] = grants[m]
      /\ h[n + 1].n = estimate[c] /\ h[n + 1].at + h[n + 1].slip = X
  <2>1. h \in Seq(Grant)
    BY ExecuteType DEF Grant
  <2>2. h = Append(grants, [n |-> estimate[c], at |-> now[c], slip |-> slip']) /\ ts' = now[c]
    BY DEF Execute, WriteTs
  <2>3. [n |-> estimate[c], at |-> now[c], slip |-> slip'] \in Grant
    BY ExecuteType DEF Grant, TypeOK
  <2>. QED  BY <1>1, <2>1, <2>2, <2>3, AppendProperties, LenProperties
<1>3. ASSUME NEW k \in Buckets
      PROVE  /\ have[k] \in Nat /\ cost(k) \in Nat /\ Full(k) \in Nat /\ Capacity[k] \in Nat
             /\ cost(k) <= have[k] /\ have[k] <= Full(k) /\ tokens'[k] = have[k] - cost(k)
  <2>1. now[c] \in Nat /\ estimate[c] \in Nat
    BY DEF TypeOK
  <2>2. have[k] \in Nat /\ have[k] <= Full(k)
    BY <2>1, LoadIsContained DEF Contained
  <2>3. cost(k) \in Nat /\ Full(k) \in Nat /\ Capacity[k] \in Nat
    BY <2>1, AmountsAreNat
  <2>. QED  BY <2>2, <2>3 DEF Execute, Take, Enough
<1>more. ASSUME NEW k \in Buckets, NEW i \in 1..(n + 1)
      PROVE  /\ Spent(k, h, i, n + 1) = Spent(k, grants, i, n) + Cost(k, h[n + 1].n)
             /\ Spent(k, grants, i, i - 1) = 0
             /\ \A j \in (i - 1)..n : Spent(k, h, i, j) = Spent(k, grants, i, j)
  <2>1. i \in Nat \ {0} /\ i <= n + 1 /\ Len(grants) = n
    BY <1>1
  <2>. HIDE DEF h, n
  <2>. QED  BY <1>1, <1>2, <2>1, SpentMore
<1>4. ASSUME NEW k \in Buckets, NEW i \in 1..n
      PROVE  /\ h[i].at + h[i].slip <= X
             /\ have[k] + Spent(k, grants, i, n)
                  <= Full(k) + (X - (h[i].at + h[i].slip)) * Capacity[k]
             /\ Spent(k, grants, i, n) \in Nat
             /\ Spent(k, h, i, n + 1) = Spent(k, grants, i, n) + cost(k)
             /\ \A j \in i..n : Spent(k, h, i, j) = Spent(k, grants, i, j)
  <2>1. Covered(k, i) /\ Stamp(i) = h[i].at + h[i].slip
    BY <1>1, <1>2 DEF QuotaInv, Stamp
  <2>2. /\ Stamp(i) <= X
        /\ have[k] + Spent(k, grants, i, n) <= Full(k) + (X - Stamp(i)) * Capacity[k]
    BY <1>1, <2>1, LoadIsCovered
  <2>3. Spent(k, grants, i, n) \in Nat
    BY <1>1, GrantsType
  <2>4. /\ Spent(k, h, i, n + 1) = Spent(k, grants, i, n) + Cost(k, h[n + 1].n)
        /\ \A j \in (i - 1)..n : Spent(k, h, i, j) = Spent(k, grants, i, j)
    <3>1. i \in 1..(n + 1)
      BY <1>1
    <3>. HIDE DEF h, n
    <3>. QED  BY <3>1, <1>more
  <2>5. \A j \in i..n : j \in (i - 1)..n
    BY <1>1
  <2>. QED  BY <1>2, <2>1, <2>2, <2>3, <2>4, <2>5
<1>5. \A k \in Buckets : Spent(k, h, n + 1, n + 1) = cost(k)
  <2>. SUFFICES ASSUME NEW k \in Buckets PROVE Spent(k, h, n + 1, n + 1) = cost(k)
    OBVIOUS
  <2>. DEFINE i == n + 1
  <2>1. i \in 1..(n + 1) /\ i - 1 = n
    BY <1>1
  <2>2. /\ Spent(k, grants, i, i - 1) = 0
        /\ Spent(k, h, i, n + 1) = Spent(k, grants, i, n) + Cost(k, h[n + 1].n)
    <3>. HIDE DEF h, n, i
    <3>. QED  BY <2>1, <1>more
  <2>. QED  BY <1>2, <1>3, <2>1, <2>2
<1>. HIDE DEF have, n, X, h, cost
<1>6. SpentHolds(h)
  <2>. SUFFICES ASSUME NEW k \in Buckets, NEW i \in 1..(n + 1), NEW j \in 1..(n + 1), i <= j
                PROVE  Spent(k, h, i, j)
                         <= Full(k) + ((h[j].at + h[j].slip) - (h[i].at + h[i].slip))
                                      * Capacity[k]
    BY <1>2 DEF SpentHolds
  <2>1. CASE j \in 1..n
    <3>1. SpentHolds(grants)
      BY QuotaIsSpent DEF QuotaInv
    <3>2. i \in 1..n /\ j \in i..n
      BY <1>1, <2>1
    <3>3. h[i] = grants[i] /\ h[j] = grants[j] /\ Spent(k, h, i, j) = Spent(k, grants, i, j)
      BY <1>2, <1>4, <2>1, <3>2
    <3>. QED  BY <1>1, <2>1, <3>1, <3>2, <3>3 DEF SpentHolds
  <2>2. CASE j = n + 1 /\ i \in 1..n
    <3>. DEFINE V == Full(k) + (X - (h[i].at + h[i].slip)) * Capacity[k]
                S == Spent(k, grants, i, n)
    <3>1. have[k] + S <= V /\ S \in Nat /\ Spent(k, h, i, j) = S + cost(k)
      BY <1>4, <2>2
    <3>2. X - (h[i].at + h[i].slip) \in Int /\ V \in Int
      <4>1. h[i] \in Grant /\ h[j] \in Grant
        BY <1>2, <2>2, ElementOfSeq
      <4>2. X \in Nat /\ h[i].at + h[i].slip \in Nat
        BY <1>2, <2>2, <4>1 DEF Grant
      <4>. QED  BY <1>3, <4>2
    <3>3. V = Full(k) + ((h[j].at + h[j].slip) - (h[i].at + h[i].slip)) * Capacity[k]
      BY <1>2, <2>2
    <3>. HIDE DEF V, S
    <3>4. Spent(k, h, i, j) <= V
      BY <1>3, <3>1, <3>2
    <3>. QED  BY <3>3, <3>4
  <2>3. CASE j = n + 1 /\ i = n + 1
    <3>1. Spent(k, h, i, j) = cost(k) /\ cost(k) <= Full(k)
      BY <1>3, <1>5, <2>3
    <3>2. (h[j].at + h[j].slip) - (h[i].at + h[i].slip) = 0
      <4>1. h[j] \in Grant
        BY <1>2, ElementOfSeq
      <4>. QED  BY <2>3, <4>1 DEF Grant
    <3>. QED  BY <1>3, <3>1, <3>2
  <2>. QED  BY <1>1, <2>1, <2>2, <2>3
<1>7. \A k \in Buckets : \A i \in DOMAIN h :
        /\ h[i].at + h[i].slip <= X
        /\ tokens'[k] + Spent(k, h, i, Len(h))
             <= Full(k) + (X - (h[i].at + h[i].slip)) * Capacity[k]
  <2>. SUFFICES ASSUME NEW k \in Buckets, NEW i \in 1..(n + 1)
                PROVE  /\ h[i].at + h[i].slip <= X
                       /\ tokens'[k] + Spent(k, h, i, n + 1)
                            <= Full(k) + (X - (h[i].at + h[i].slip)) * Capacity[k]
    BY <1>2
  <2>1. CASE i \in 1..n
    <3>1. tokens'[k] + Spent(k, h, i, n + 1) = have[k] + Spent(k, grants, i, n)
      BY <1>3, <1>4, <2>1
    <3>. QED  BY <1>4, <2>1, <3>1
  <2>2. CASE i = n + 1
    <3>1. tokens'[k] + Spent(k, h, i, n + 1) = have[k]
      BY <1>3, <1>5, <2>2
    <3>2. h[i].at + h[i].slip = X /\ X \in Nat
      <4>1. h[i] \in Grant
        BY <1>2, <2>2, ElementOfSeq
      <4>. QED  BY <1>2, <2>2, <4>1 DEF Grant
    <3>3. (X - (h[i].at + h[i].slip)) * Capacity[k] = 0
      BY <1>3, <3>2
    <3>. QED  BY <1>3, <3>1, <3>2, <3>3
  <2>. QED  BY <1>1, <2>1, <2>2
<1>8. QuotaHolds'
  BY <1>6, QuotaIsSpent DEF h
<1>9. \A k \in Buckets : \A i \in DOMAIN grants' : Covered(k, i)'
  BY <1>7 DEF h, X, Covered, Stamp
<1>. QED  BY <1>8, <1>9 DEF QuotaInv

\* The script sets the hashes to live on from a clock no older than ts.
LEMMA ExecuteLate ==
  ASSUME TypeOK, LateInv, NEW c \in Checks, pc[c] \in InFlight, Execute(c)
  PROVE  ts' + Ttl <= expiry'
<1>1. now[c] \in Nat /\ clock \in Nat /\ now[c] <= clock /\ Ttl \in Nat
  BY BucketAssumption DEF TypeOK, LateInv, Ttl
<1>2. ts' = now[c] /\ expiry' = clock + Ttl
  BY DEF Execute, WriteTs
<1>. QED  BY <1>1, <1>2

LEMMA InitQuota == Init => LateInv /\ QuotaInv
<1>. SUFFICES ASSUME Init PROVE LateInv /\ QuotaInv
  OBVIOUS
<1>1. DOMAIN grants = {}
  BY DEF Init
<1>. QED  BY <1>1 DEF Init, LateInv, QuotaInv, QuotaHolds, InFlight

\* What neither runs the script nor moves the clock.
LEMMA QuotaQuiet ==
  ASSUME QuotaInv, UNCHANGED <<bucketVars, grants>>
  PROVE  QuotaInv'
<1>1. QuotaHolds'
  BY QuotaIsSpent DEF QuotaInv
<1>. QED  BY <1>1 DEF QuotaInv, Covered, Stamp, bucketVars

LEMMA StepQuota ==
  TypeOK /\ LateInv /\ QuotaInv /\ [Next]_vars => LateInv' /\ QuotaInv'
<1>. SUFFICES ASSUME TypeOK, LateInv, QuotaInv, [Next]_vars PROVE LateInv' /\ QuotaInv'
  OBVIOUS
<1>. USE DEF checkVars, InFlight, Ended
<1>1. ASSUME NEW c \in Checks, Check(c) PROVE LateInv' /\ QuotaInv'
  <2>1. clock \in Nat
    BY DEF TypeOK
  <2>. QED  BY <1>1, <2>1, QuotaQuiet DEF Check, bucketVars, LateInv, TypeOK
<1>2. ASSUME NEW c \in Checks, ScriptLoad(c) \/ NoScript(c) \/ RedisFails(c)
      PROVE  LateInv' /\ QuotaInv'
  <2>1. /\ UNCHANGED <<bucketVars, grants, clock, now>>
        /\ \A d \in Checks : pc'[d] \in InFlight => pc[d] \in InFlight
    BY <1>2 DEF ScriptLoad, NoScript, RedisFails, TypeOK
  <2>. QED  BY <2>1, QuotaQuiet DEF bucketVars, LateInv
<1>3. ASSUME NEW c \in Checks, EvalSha(c) \/ ReplyLost(c) PROVE LateInv' /\ QuotaInv'
  <2>1. Execute(c) /\ pc[c] \in InFlight
    BY <1>3 DEF EvalSha, ReplyLost
  <2>2. QuotaInv'
    BY <2>1, AllowedQuota, DeniedQuota
  <2>3. ts' + Ttl <= expiry'
    BY <2>1, ExecuteLate
  <2>4. /\ UNCHANGED <<clock, now>>
        /\ \A d \in Checks : pc'[d] \in InFlight => pc[d] \in InFlight
    BY <1>3 DEF EvalSha, ReplyLost, TypeOK
  <2>. QED  BY <2>2, <2>3, <2>4 DEF LateInv
<1>4. CASE ScriptsLost \/ UNCHANGED vars
  <2>1. UNCHANGED <<bucketVars, grants, clock, now, pc>>
    BY <1>4 DEF ScriptsLost, vars
  <2>. QED  BY <2>1, QuotaQuiet DEF bucketVars, LateInv
<1>5. CASE Tick
  <2>1. clock' = clock + 1 /\ UNCHANGED <<bucketVars, grants, now, pc>>
    BY <1>5 DEF Tick
  <2>2. clock \in Nat /\ \A c \in Checks : now[c] \in Nat
    BY DEF TypeOK
  <2>3. LateInv'
    BY <2>1, <2>2 DEF bucketVars, LateInv
  <2>. QED  BY <2>1, <2>3, QuotaQuiet
<1>. QED  BY <1>1, <1>2, <1>3, <1>4, <1>5 DEF Next

\* In no stretch of time is more granted than a full bucket, its refill, and
\* the refill of the time that was refilled more than once, however late checks
\* reach Redis and however often hashes expire (rate_limiter.py:41-58).
THEOREM TheQuotaHolds == Spec => []QuotaHolds
<1>1. QuotaInv => QuotaHolds
  BY DEF QuotaInv
<1>. QED  BY <1>1, InitHolds, StepHolds, InitQuota, StepQuota, PTL DEF Spec

\* The hashes expire only when both buckets are full again, even by the now_ms
\* of a check that is a whole Window late (rate_limiter.py:56-58, 168).
THEOREM ExpiryGivesNothingAway == Spec => []ExpiryIsHarmless
<1>1. TypeOK /\ LateInv => ExpiryIsHarmless
  <2>. SUFFICES ASSUME TypeOK, LateInv, Missing, grants # <<>>, NEW k \in Buckets
                PROVE  Load(k, tokens, ts, FALSE, Less(clock, Window)) = Full(k)
    BY DEF ExpiryIsHarmless
  <2>. DEFINE e == Less(Less(clock, Window), ts)
              C == Capacity[k]
  <2>1. ts + 2 * Window <= clock
    BY MissingIsOld
  <2>2. e \in Nat /\ Window <= e /\ Window \in Nat
    BY <2>1, BucketAssumption DEF TypeOK, Less
  <2>3. C \in Nat /\ Full(k) \in Nat /\ Full(k) = C * Window /\ tokens[k] \in Nat
    BY AmountsAreNat DEF TypeOK, Full
  <2>4. Load(k, tokens, ts, FALSE, Less(clock, Window)) = Least(Full(k), tokens[k] + e * C)
    BY DEF Load
  <2>. HIDE DEF e, C
  <2>5. Window * C <= e * C /\ e * C \in Nat /\ Window * C = C * Window
    BY <2>2, <2>3, Proportional
  <2>6. Full(k) <= tokens[k] + e * C
    BY <2>3, <2>5
  <2>. QED  BY <2>3, <2>4, <2>5, <2>6 DEF Least
<1>. QED  BY <1>1, InitHolds, StepHolds, InitQuota, StepQuota, PTL DEF Spec

-----------------------------------------------------------------------------
\* Rounding up covers what is wanted, and one less does not.
LEMMA RoundedUp ==
  ASSUME NEW a \in Nat, NEW b \in Nat \ {0}
  PROVE  /\ CeilDiv(a, b) \in Nat /\ CeilDiv(a, b) * b >= a
         /\ a > 0 => CeilDiv(a, b) >= 1 /\ (CeilDiv(a, b) - 1) * b < a
BY DEF CeilDiv

\* What a bucket holds after a wait.
LEMMA LoadLater ==
  ASSUME TypeOK, NEW t, Contained(t), NEW k \in Buckets, NEW w \in Nat
  PROVE  Load(k, t, clock, FALSE, clock + w) = Least(Full(k), t[k] + w * Capacity[k])
BY DEF Load, Less, TypeOK

\* The wait for bucket k is the first after which n can be paid from it.
LEMMA WaitIsRight ==
  ASSUME TypeOK, NEW t, Contained(t), NEW k \in Buckets, NEW n \in Nat,
         Cost(k, n) <= Full(k), NEW w \in Nat
  PROVE  LET wait == CeilDiv(Less(Cost(k, n), t[k]), Capacity[k]) IN
         /\ wait \in Nat
         /\ wait <= w => Load(k, t, clock, FALSE, clock + w) >= Cost(k, n)
         /\ w < wait => ~(Load(k, t, clock, FALSE, clock + w) >= Cost(k, n))
         /\ wait = 0 => t[k] >= Cost(k, n)
<1>. DEFINE lack == Less(Cost(k, n), t[k])
            C == Capacity[k]
            wait == CeilDiv(lack, C)
            cost == Cost(k, n)
            left == t[k]
            later == Load(k, t, clock, FALSE, clock + w)
<1>1. cost \in Nat /\ left \in Nat /\ C \in Nat \ {0} /\ Full(k) \in Nat /\ cost <= Full(k)
  BY AmountsAreNat, BucketAssumption DEF Contained
<1>2. lack \in Nat /\ cost <= left + lack /\ (lack > 0 => cost = left + lack)
  BY <1>1 DEF Less
<1>3. /\ wait \in Nat /\ wait * C >= lack
      /\ lack > 0 => wait >= 1 /\ (wait - 1) * C < lack
  <2>. HIDE DEF lack, C
  <2>. QED  BY <1>1, <1>2, RoundedUp
<1>4. lack = 0 => wait = 0
  <2>1. (0 + C - 1) \div C = 0
    <3>. HIDE DEF C
    <3>. QED  BY <1>1
  <2>. QED  BY <2>1 DEF CeilDiv
<1>5. later = Least(Full(k), left + w * C)
  BY LoadLater
<1>. HIDE DEF lack, C, wait, cost, left, later
<1>6. w * C \in Nat /\ wait * C \in Nat
  BY <1>1, <1>3, Proportional
<1>7. wait <= w => later >= cost
  <2>. SUFFICES ASSUME wait <= w PROVE left + w * C >= cost
    BY <1>1, <1>5, <1>6 DEF Least
  <2>1. wait * C <= w * C
    BY <1>1, <1>3, Proportional
  <2>. QED  BY <1>1, <1>2, <1>3, <1>6, <2>1
<1>8. w < wait => ~(later >= cost)
  <2>. SUFFICES ASSUME w < wait PROVE left + w * C < cost
    BY <1>1, <1>5, <1>6 DEF Least
  <2>1. lack > 0 /\ wait - 1 \in Nat /\ w <= wait - 1
    BY <1>2, <1>3, <1>4
  <2>2. w * C <= (wait - 1) * C /\ (wait - 1) * C \in Nat
    BY <1>1, <2>1, Proportional
  <2>. QED  BY <1>1, <1>2, <1>3, <1>6, <2>1, <2>2
<1>9. wait = 0 => left >= cost
  BY <1>1, <1>2, <1>3
<1>. QED  BY <1>3, <1>7, <1>8, <1>9 DEF wait, lack, C, cost, left, later

\* When both buckets can hold what n costs, the reset is the first moment at
\* which n can be paid from them.
LEMMA ResetIsRight ==
  ASSUME TypeOK, NEW t, Contained(t), NEW n \in Nat, Affordable(n)
  PROVE  /\ Reset(t, n) \in Nat
         /\ \A w \in Nat : AllowedAfter(t, n, w) <=> Reset(t, n) <= w
<1>. DEFINE wait(k) == CeilDiv(Less(Cost(k, n), t[k]), Capacity[k])
            reset == Reset(t, n)
<1>1. \A k \in Buckets : Cost(k, n) <= Full(k)
  BY DEF Affordable
<1>2. \A k \in Buckets : wait(k) \in Nat
  BY <1>1, WaitIsRight
<1>3. \A k \in Buckets : \A w \in Nat :
        Load(k, t, clock, FALSE, clock + w) >= Cost(k, n) <=> wait(k) <= w
  <2>. SUFFICES ASSUME NEW k \in Buckets, NEW w \in Nat
                PROVE  Load(k, t, clock, FALSE, clock + w) >= Cost(k, n)
                         <=> wait(k) <= w
    OBVIOUS
  <2>1. /\ wait(k) <= w => Load(k, t, clock, FALSE, clock + w) >= Cost(k, n)
        /\ w < wait(k) => ~(Load(k, t, clock, FALSE, clock + w) >= Cost(k, n))
    BY <1>1, WaitIsRight
  <2>2. wait(k) <= w \/ w < wait(k)
    <3>1. wait(k) \in Nat
      BY <1>2
    <3>. HIDE DEF wait
    <3>. QED  BY <3>1
  <2>. QED  BY <2>1, <2>2
<1>4. reset = Most(wait("rpm"), wait("tpm"))
  BY DEF Reset
<1>. HIDE DEF wait, reset
<1>5. reset \in Nat /\ \A w \in Nat : reset <= w <=> \A k \in Buckets : wait(k) <= w
  BY <1>2, <1>4 DEF Most, Buckets
<1>6. ASSUME NEW w \in Nat PROVE AllowedAfter(t, n, w) <=> reset <= w
  BY <1>3, <1>5 DEF AllowedAfter, Enough
<1>. QED  BY <1>5, <1>6 DEF reset

\* A reset is a number of ticks, for whatever it was asked.
LEMMA ResetIsNat ==
  ASSUME NEW t, Contained(t), NEW n \in Nat
  PROVE  Reset(t, n) \in Nat
<1>. DEFINE wait(k) == CeilDiv(Less(Cost(k, n), t[k]), Capacity[k])
<1>1. ASSUME NEW k \in Buckets PROVE wait(k) \in Nat
  <2>. DEFINE lack == Less(Cost(k, n), t[k])
              C == Capacity[k]
  <2>1. lack \in Nat /\ C \in Nat \ {0}
    BY AmountsAreNat, BucketAssumption DEF Contained, Less
  <2>. HIDE DEF lack, C
  <2>2. CeilDiv(lack, C) \in Nat
    BY <2>1, RoundedUp
  <2>. QED  BY <2>2 DEF lack, C
<1>2. Reset(t, n) = Most(wait("rpm"), wait("tpm"))
  BY DEF Reset
<1>. HIDE DEF wait
<1>. QED  BY <1>1, <1>2 DEF Most, Buckets

\* The seconds told are the first that cover the reset.
LEMMA RetryAfterIsRounded ==
  ASSUME NEW t, NEW n, Reset(t, n) \in Nat
  PROVE  /\ RetryAfter(t, n) \in Nat \ {0} /\ RetryAfter(t, n) * Second \in Nat
         /\ Reset(t, n) <= RetryAfter(t, n) * Second
         /\ RetryAfter(t, n) * Second > Second =>
              /\ RetryAfter(t, n) * Second - Second \in Nat
              /\ RetryAfter(t, n) * Second - Second < Reset(t, n)
<1>. DEFINE reset == Reset(t, n)
            ceil == CeilDiv(reset, Second)
            told == RetryAfter(t, n)
<1>1. Second \in Nat \ {0} /\ reset \in Nat
  BY BucketAssumption
<1>2. told = Most(1, ceil)
  BY DEF RetryAfter
<1>3. /\ ceil \in Nat /\ ceil * Second >= reset
      /\ reset > 0 => ceil >= 1 /\ (ceil - 1) * Second < reset
  <2>. HIDE DEF reset
  <2>. QED  BY <1>1, RoundedUp
<1>. HIDE DEF reset, ceil, told
<1>4. told \in Nat \ {0} /\ ceil <= told /\ (told > 1 => told = ceil)
  BY <1>2, <1>3 DEF Most
<1>5. told * Second \in Nat /\ ceil * Second <= told * Second /\ ceil * Second \in Nat
  BY <1>1, <1>3, <1>4, Proportional
<1>6. ASSUME told * Second > Second
      PROVE  told * Second - Second \in Nat /\ told * Second - Second < reset
  <2>1. told > 1
    <3>1. told # 1
      BY <1>1, <1>6
    <3>. QED  BY <1>4, <3>1
  <2>2. told - 1 \in Nat /\ told = (told - 1) + 1
    BY <1>4
  <2>3. told * Second = (told - 1) * Second + Second
    <3>1. ((told - 1) + 1) * Second = (told - 1) * Second + 1 * Second
      BY <1>1, <2>2, Proportional
    <3>. QED  BY <1>1, <2>2, <3>1
  <2>4. (told - 1) * Second \in Nat
    BY <1>1, <2>2, Proportional
  <2>5. reset > 0
    <3>1. ASSUME reset = 0 PROVE FALSE
      <4>1. (0 + Second - 1) \div Second = 0
        BY <1>1
      <4>2. ceil = 0
        BY <3>1, <4>1 DEF ceil, CeilDiv
      <4>. QED  BY <1>4, <2>1, <4>2
    <3>. QED  BY <1>1, <3>1
  <2>6. (told - 1) * Second < reset
    BY <1>3, <1>4, <2>1, <2>5
  <2>. QED  BY <1>1, <2>3, <2>4, <2>6
<1>. QED  BY <1>1, <1>3, <1>4, <1>5, <1>6 DEF reset, told

\* Who waits as many seconds as told is admitted, and was not a second before;
\* who asks for more than a bucket holds is not (rate_limiter.py:60-71, 94, 157).
THEOREM RetryAfterTellsTheTime == Spec => []RetryAfterIsRight
<1>1. TypeOK => RetryAfterIsRight
  <2>. SUFFICES ASSUME TypeOK, NEW n \in Estimates \cup 0..(Capacity["tpm"] + 1),
                       ~Enough(Contents(clock), n)
                PROVE  LET have == Contents(clock)
                           told == RetryAfter(have, n) * Second
                       IN /\ AllowedAfter(have, n, told) <=> Affordable(n)
                          /\ told > Second => ~AllowedAfter(have, n, told - Second)
    BY DEF RetryAfterIsRight
  <2>. DEFINE have == Contents(clock)
              reset == Reset(have, n)
              told == RetryAfter(have, n) * Second
  <2>1. n \in Nat /\ Contained(have) /\ clock \in Nat
    BY BucketAssumption, LoadIsContained DEF TypeOK
  <2>. HIDE DEF have
  <2>2. CASE Affordable(n)
    <3>1. reset \in Nat /\ \A w \in Nat : AllowedAfter(have, n, w) <=> reset <= w
      BY <2>1, <2>2, ResetIsRight
    <3>2. /\ told \in Nat /\ reset <= told
          /\ told > Second => told - Second \in Nat /\ told - Second < reset
      BY <3>1, RetryAfterIsRounded
    <3>. HIDE DEF reset, told
    <3>3. AllowedAfter(have, n, told)
      BY <3>1, <3>2
    <3>4. told > Second => ~AllowedAfter(have, n, told - Second)
      BY <3>1, <3>2
    <3>. QED  BY <2>2, <3>3, <3>4 DEF have, told
  <2>3. CASE ~Affordable(n)
    <3>1. PICK k \in Buckets : ~(Cost(k, n) <= Full(k))
      BY <2>3 DEF Affordable
    <3>0. told \in Nat /\ (told > Second => told - Second \in Nat)
      BY <2>1, ResetIsNat, RetryAfterIsRounded
    <3>2. ASSUME NEW w \in Nat PROVE ~AllowedAfter(have, n, w)
      <4>. DEFINE filled == have[k] + Less(clock + w, clock) * Capacity[k]
      <4>1. Load(k, have, clock, FALSE, clock + w) = Least(Full(k), filled)
        BY DEF Load
      <4>2. Full(k) \in Nat /\ Cost(k, n) \in Nat /\ filled \in Nat
        <5>1. /\ Full(k) \in Nat /\ Cost(k, n) \in Nat /\ Capacity[k] \in Nat
              /\ have[k] \in Nat /\ Less(clock + w, clock) \in Nat
          BY <2>1, AmountsAreNat DEF Contained, Less
        <5>. QED  BY <5>1, Proportional
      <4>. DEFINE full == Full(k)
                  cost == Cost(k, n)
                  later == Load(k, have, clock, FALSE, clock + w)
      <4>3. ~(cost <= full) /\ later = Least(full, filled)
        BY <3>1, <4>1
      <4>4. full \in Nat /\ cost \in Nat /\ filled \in Nat
        BY <4>2
      <4>. HIDE DEF filled, full, cost, later
      <4>5. ~(later >= cost)
        BY <4>3, <4>4 DEF Least
      <4>. QED  BY <4>5 DEF AllowedAfter, Enough, later, cost
    <3>. HIDE DEF told
    <3>3. ~AllowedAfter(have, n, told) /\ (told > Second => ~AllowedAfter(have, n, told - Second))
      BY <3>0, <3>2
    <3>. QED  BY <2>3, <3>3 DEF have, told
  <2>. QED  BY <2>2, <2>3
<1>. QED  BY <1>1, InitHolds, StepHolds, PTL DEF Spec
=============================================================================
