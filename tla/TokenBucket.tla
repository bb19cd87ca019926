----------------------------- MODULE TokenBucket -----------------------------
(***************************************************************************)
(* RedisTokenBucketRateLimiter (app/services/rate_limiter.py): concurrent  *)
(* checks of one tenant against the two buckets its Lua script keeps in    *)
(* Redis, one of requests and one of tokens.                               *)
(*                                                                         *)
(* A bucket of capacity C refills in Window ticks, so C/Window tokens a    *)
(* tick.  To stay in the integers every amount is counted in 1/Window of a *)
(* token: the capacity is C * Window and a tick refills C.  The Lua script *)
(* computes the same with doubles.                                         *)
(***************************************************************************)
EXTENDS Naturals, Sequences

CONSTANTS
  Checks,      \* calls of check()
  Capacity,    \* rpm_limit and tpm_limit
  Estimates,   \* the values of estimated_tokens
  Window,      \* the 60_000 ms in which a bucket refills
  Second,      \* the 1000 ms of a second
  MaxLag,      \* bound: how old a check gets, by its now_ms, before Redis runs it
  MaxClock     \* bound: the time at which a behaviour ends

Buckets == {"rpm", "tpm"}

ASSUME BucketAssumption ==
  /\ Capacity \in [Buckets -> Nat \ {0}]
  /\ Estimates \subseteq Nat
  /\ Window \in Nat \ {0} /\ Second \in Nat \ {0}
  /\ MaxLag \in Nat
  /\ MaxClock \in Nat

VARIABLES
  clock,      \* the time of Redis
  tokens,     \* per bucket: tokens, in 1/Window of a token
  ts,         \* the ts of both hashes
  slip,       \* the time that was refilled more than once (history)
  expiry,     \* when both hashes expire; they are missing from then on
  loaded,     \* whether Redis knows the script
  sha,        \* whether _script_sha is set
  now,        \* per check: its now_ms
  estimate,   \* per check: its estimated_tokens
  charged,    \* per check: how often it was charged (history)
  grants,     \* the charges in their order (history)
  pc          \* per check: its suspension point, or how it ended

bucketVars == <<tokens, ts, slip, expiry>>
checkVars == <<now, estimate>>
vars == <<clock, bucketVars, loaded, sha, checkVars, charged, grants, pc>>

InFlight == {"load", "eval", "reload", "retry"}
Ended == {"allowed", "denied", "failed"}

-----------------------------------------------------------------------------
(***************************************************************************)
(* The Lua script.                                                         *)
(***************************************************************************)
Full(k) == Capacity[k] * Window
Least(a, b) == IF a <= b THEN a ELSE b
Most(a, b) == IF a >= b THEN a ELSE b
Less(a, b) == IF a >= b THEN a - b ELSE 0

\* Mutant: the bucket overflows.
LoadUncapped(k, t, s, missing, at) ==
  IF missing THEN Full(k) ELSE t[k] + Less(at, s) * Capacity[k]
\* load_bucket, at time at, of the hash with tokens t and ts s.
Load(k, t, s, missing, at) ==
  IF missing THEN Full(k) ELSE Least(Full(k), t[k] + Less(at, s) * Capacity[k])

\* What a check of n estimated tokens takes from each bucket.
Cost(k, n) == (IF k = "rpm" THEN 1 ELSE Most(1, n)) * Window

Enough(t, n) == \A k \in Buckets : t[k] >= Cost(k, n)
Take(t, n) ==
  IF Enough(t, n) THEN [k \in Buckets |-> t[k] - Cost(k, n)] ELSE t

\* Mutant: rounded down, the wait ends just too early.
FloorDiv(a, b) == a \div b
CeilDiv(a, b) == (a + b - 1) \div b
\* The reset of a check that was denied with t tokens left.
Reset(t, n) ==
  LET wait(k) == CeilDiv(Less(Cost(k, n), t[k]), Capacity[k])
  IN Most(wait("rpm"), wait("tpm"))

\* The Retry-After of a check that was denied with t tokens left, in seconds.
RetryAfter(t, n) == Most(1, CeilDiv(Reset(t, n), Second))

\* Mutant: the hashes expire before they are full again.
HalfWindow == Window \div 2
\* ttl_ms: 120_000, against the 60_000 of a refill.
Ttl == 2 * Window

\* What the script finds at time at; expired hashes are full buckets.
Missing == clock >= expiry
Contents(at) == [k \in Buckets |-> Load(k, tokens, ts, Missing, at)]

-----------------------------------------------------------------------------
\* check() reads the clock, before it waits for Redis.
Check(c) ==
  /\ pc[c] = "idle"
  /\ now' = [now EXCEPT ![c] = clock]
  /\ \E n \in Estimates : estimate' = [estimate EXCEPT ![c] = n]
  /\ pc' = [pc EXCEPT ![c] = IF sha THEN "eval" ELSE "load"]
  /\ UNCHANGED <<clock, bucketVars, loaded, sha, charged, grants>>

\* initialize(): Redis loads the script.
ScriptLoad(c) ==
  /\ pc[c] \in {"load", "reload"}
  /\ loaded' = TRUE /\ sha' = TRUE
  /\ pc' = [pc EXCEPT ![c] = IF @ = "load" THEN "eval" ELSE "retry"]
  /\ UNCHANGED <<clock, bucketVars, checkVars, charged, grants>>

\* Mutant: only an allowed check writes the time back.
KeepTs(c) == ts' = IF Enough(Contents(now[c]), estimate[c]) THEN now[c] ELSE ts
WriteTs(c) == ts' = now[c]

\* From ts on time is refilled; an expired hash was refilled for a Window.
RefilledTo == IF Missing THEN ts + Window ELSE ts

\* Redis runs the script for c.  A check that was overtaken sets ts back, and
\* the time from there on is going to be refilled once more.
Execute(c) ==
  LET have == Contents(now[c]) IN
  /\ tokens' = Take(have, estimate[c])
  /\ WriteTs(c)
  /\ slip' = slip + Less(RefilledTo, now[c])
  /\ expiry' = clock + Ttl
  /\ IF Enough(have, estimate[c])
     THEN /\ charged' = [charged EXCEPT ![c] = @ + 1]
          /\ grants' = Append(grants, [n |-> estimate[c], at |-> now[c], slip |-> slip'])
     ELSE UNCHANGED <<charged, grants>>

EvalSha(c) ==
  /\ pc[c] \in {"eval", "retry"} /\ loaded
  /\ Execute(c)
  /\ pc' = [pc EXCEPT ![c] = IF Enough(Contents(now[c]), estimate[c])
                             THEN "allowed" ELSE "denied"]
  /\ UNCHANGED <<clock, loaded, sha, checkVars>>

\* NOSCRIPT: the script is loaded once more, and once more only.
NoScript(c) ==
  /\ pc[c] \in {"eval", "retry"} /\ ~loaded
  /\ pc' = [pc EXCEPT ![c] = IF @ = "eval" THEN "reload" ELSE "failed"]
  /\ UNCHANGED <<clock, bucketVars, loaded, sha, checkVars, charged, grants>>

\* Redis cannot be reached, and check() raises RedisError.
RedisFails(c) ==
  /\ pc[c] \in InFlight
  /\ pc' = [pc EXCEPT ![c] = "failed"]
  /\ UNCHANGED <<clock, bucketVars, loaded, sha, checkVars, charged, grants>>

\* Mutant: whatever RedisError it was, the script is loaded and run again.
ReplyLostRetried(c) ==
  /\ pc[c] \in {"eval", "retry"} /\ loaded
  /\ Execute(c)
  /\ pc' = [pc EXCEPT ![c] = IF @ = "eval" THEN "reload" ELSE "failed"]
  /\ UNCHANGED <<clock, loaded, sha, checkVars>>

\* The connection breaks after the script ran.
ReplyLost(c) ==
  /\ pc[c] \in {"eval", "retry"} /\ loaded
  /\ Execute(c)
  /\ pc' = [pc EXCEPT ![c] = "failed"]
  /\ UNCHANGED <<clock, loaded, sha, checkVars>>

\* Redis restarts with its data and without its scripts.
ScriptsLost ==
  /\ loaded
  /\ loaded' = FALSE
  /\ UNCHANGED <<clock, bucketVars, sha, checkVars, charged, grants, pc>>

\* A tick passes, on the way of a check to Redis too, where others overtake it.
Tick ==
  /\ clock < MaxClock
  /\ \A c \in Checks : pc[c] \in InFlight => clock < now[c] + MaxLag
  /\ clock' = clock + 1
  /\ UNCHANGED <<bucketVars, loaded, sha, checkVars, charged, grants, pc>>

Init ==
  /\ clock = 0
  /\ tokens = [k \in Buckets |-> 0] /\ ts = 0 /\ slip = 0 /\ expiry = 0
  /\ loaded = FALSE /\ sha = FALSE
  /\ now = [c \in Checks |-> 0]
  /\ estimate = [c \in Checks |-> 0]
  /\ charged = [c \in Checks |-> 0]
  /\ grants = <<>>
  /\ pc = [c \in Checks |-> "idle"]

Next ==
  \/ \E c \in Checks : Check(c) \/ ScriptLoad(c) \/ EvalSha(c) \/ NoScript(c)
                       \/ RedisFails(c) \/ ReplyLost(c)
  \/ ScriptsLost \/ Tick

Spec == Init /\ [][Next]_vars

-----------------------------------------------------------------------------
\* The values of every variable; a bucket holds no more than its capacity.
TypeOK ==
  /\ clock \in Nat /\ ts \in Nat /\ slip \in Nat /\ expiry \in Nat
  /\ tokens \in [Buckets -> Nat] /\ \A k \in Buckets : tokens[k] <= Full(k)
  /\ loaded \in BOOLEAN /\ sha \in BOOLEAN
  /\ now \in [Checks -> Nat]
  /\ estimate \in [Checks -> Nat]
  /\ charged \in [Checks -> Nat]
  /\ grants \in Seq([n : Nat, at : Nat, slip : Nat])
  /\ pc \in [Checks -> {"idle"} \cup InFlight \cup Ended]

\* In no stretch of time do the allowed checks take more from a bucket than it
\* holds plus what is refilled meanwhile: a quota of Capacity a minute, exceeded
\* by no more than the refill of the time that late checks set ts back, or that
\* an expired hash had not lived through yet, however late they are (lines
\* 41-58).
Granted(k, i, j) ==
  LET sum[m \in (i - 1)..j] ==
        IF m = i - 1 THEN 0 ELSE sum[m - 1] + Cost(k, grants[m].n)
  IN sum[j]
QuotaHolds ==
  \A k \in Buckets : \A i, j \in DOMAIN grants :
    i <= j => Granted(k, i, j)
                <= Full(k) + ((grants[j].at + grants[j].slip)
                             - (grants[i].at + grants[i].slip)) * Capacity[k]

\* Retry-After is right, to the second: a check denied now is allowed after the
\* seconds it was told if nobody else comes, and was not a whole second before;
\* and one whose estimate is more than the bucket ever holds is told a time
\* after which it is denied once more (lines 60-71, 94, 157).
Affordable(n) == \A k \in Buckets : Cost(k, n) <= Full(k)
AllowedAfter(t, n, wait) ==
  Enough([k \in Buckets |-> Load(k, t, clock, FALSE, clock + wait)], n)
RetryAfterIsRight ==
  \A n \in Estimates \cup 0..(Capacity["tpm"] + 1) :
    LET have == Contents(clock)
        told == RetryAfter(have, n) * Second
    IN ~Enough(have, n) =>
         /\ AllowedAfter(have, n, told) <=> Affordable(n)
         /\ told > Second => ~AllowedAfter(have, n, told - Second)

\* A check is charged once if it is allowed and never if it is denied, however
\* often the script was lost and loaded again (lines 183-194).
ChargedOnce ==
  \A c \in Checks : CASE pc[c] = "allowed" -> charged[c] = 1
                      [] pc[c] = "failed" -> charged[c] <= 1
                      [] OTHER -> charged[c] = 0

\* When the hashes expire the buckets were full again, even for a check that
\* is late by a whole Window, so forgetting them gives nothing away (lines 56-58).
ExpiryIsHarmless ==
  Missing /\ grants # <<>> =>
    \A k \in Buckets : Load(k, tokens, ts, FALSE, Less(clock, Window)) = Full(k)
=============================================================================
