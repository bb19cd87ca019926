------------------------ MODULE ManagedProcess_proofs ------------------------
(***************************************************************************)
(* Proofs about ManagedProcess, for any sets of tasks, ids and             *)
(* subprocesses: type correctness, the lifecycle invariants, and that a    *)
(* call is only answered by the subprocess it wrote to.                    *)
(***************************************************************************)
EXTENDS ManagedProcess, TLAPS, SequenceTheorems

PendingType == [Ids -> Calls \cup {NoCall}]
FutureType == [Calls -> {"none", "open", "result", "stopped", "broken", "runtime",
                         "dropped"}]
PcType == [Tasks -> Suspended \cup Ended]
WireType == [Subprocesses -> SUBSET Calls]

-----------------------------------------------------------------------------
\* Queues: what the lifecycle lock does with its waiters keeps their type.
LEMMA QueueType ==
  ASSUME NEW S, NEW q \in Seq(S), NEW t \in S
  PROVE  /\ Append(q, t) \in Seq(S)
         /\ <<t>> \o q \in Seq(S)
         /\ <<t>> \o q # <<>>
         /\ Head(<<t>> \o q) = t
         /\ q # <<>> => Head(q) \in S /\ Tail(q) \in Seq(S)
<1>1. <<t>> \in Seq(S) /\ Len(<<t>>) = 1 /\ <<t>>[1] = t
  OBVIOUS
<1>2. <<t>> \o q \in Seq(S) /\ Len(<<t>> \o q) = 1 + Len(q)
  BY <1>1, ConcatProperties
<1>3. Head(<<t>> \o q) = t
  BY <1>1, ConcatProperties
<1>4. <<t>> \o q # <<>>
  BY <1>2, LenProperties
<1>5. q # <<>> => Head(q) \in S /\ Tail(q) \in Seq(S)
  BY HeadTailProperties
<1>6. Append(q, t) \in Seq(S)
  BY AppendProperties
<1>. QED  BY <1>2, <1>3, <1>4, <1>5, <1>6

\* _fail_pending empties _pending and leaves futures and tasks well typed.
LEMMA FailPendingType ==
  ASSUME NEW p \in PendingType, NEW f \in FutureType, NEW at \in PcType,
         NEW why \in {"stopped", "broken", "runtime"}, FailPending(p, f, at, why)
  PROVE  pending' = NoPending /\ pending' \in PendingType
         /\ future' \in FutureType /\ pc' \in PcType
         /\ \A u \in Tasks : pc'[u] \in {at[u], "unavailable", "crashed"}
<1>1. pending' = NoPending /\ pending' \in PendingType
  BY DEF FailPending, NoPending, PendingType
<1>2. future' \in FutureType
  BY DEF FailPending, FutureType
<1>3. pc' \in PcType
  BY DEF FailPending, PcType, Raised, Suspended, Ended
<1>4. \A u \in Tasks : pc'[u] \in {at[u], "unavailable", "crashed"}
  BY DEF FailPending, Raised
<1>. QED  BY <1>1, <1>2, <1>3, <1>4

\* What StartWriting and its two refusals may change keeps its type.
CallStepTyped ==
  /\ pending' \in PendingType /\ future' \in FutureType /\ pc' \in PcType
  /\ answer' \in [Calls -> Calls \cup {NoCall}]
  /\ target' \in [Writers -> Subprocesses \cup {NoProcess}]
  /\ \A u \in Tasks : pc'[u] = "ensure" => pc[u] = "ensure"
  /\ wire' \in WireType
  /\ writeLock' \in Seq(Writers)

LEMMA ProceedType ==
  ASSUME TypeOK, NEW t \in Writers, NEW g \in Subprocesses, NEW st, Proceed(t, g, st)
  PROVE  CallStepTyped
<1>. USE ConstantsAssumption
<1>0. t \in Tasks
  BY DEF Writers, Tasks
<1>1. CASE Duplicate(t)
  BY <1>0, <1>1 DEF Duplicate, TypeOK, PendingType, FutureType, PcType, WireType,
                    callVars, Ended, CallStepTyped
<1>2. CASE NotRunning(t, st)
  BY <1>0, <1>2 DEF NotRunning, TypeOK, PendingType, FutureType, PcType, WireType,
                    Ended, CallStepTyped
<1>3. CASE StartWriting(t, g, st)
  <2>1. pending' \in PendingType /\ future' \in FutureType
    BY <1>3 DEF StartWriting, TypeOK, PendingType, FutureType
  <2>2. pc' \in PcType
    BY <1>0, <1>3 DEF StartWriting, TypeOK, PcType, Suspended, Ended
  <2>3. wire' \in WireType
    <3>1. wire' = wire \/ (t \in Calls /\ wire' = [wire EXCEPT ![g] = @ \cup {t}])
      BY <1>3 DEF StartWriting, PutLine
    <3>2. wire \in WireType
      BY DEF TypeOK, WireType
    <3>3. t \in Calls => [wire EXCEPT ![g] = @ \cup {t}] \in WireType
      BY <3>2 DEF WireType
    <3>. QED  BY <3>1, <3>2, <3>3
  <2>4. writeLock' \in Seq(Writers)
    <3>1. writeLock' \in {writeLock, Append(writeLock, t), <<t>>}
      BY <1>3 DEF StartWriting
    <3>2. writeLock \in Seq(Writers) /\ <<t>> \in Seq(Writers)
      BY DEF TypeOK
    <3>3. Append(writeLock, t) \in Seq(Writers)
      BY <3>2, QueueType
    <3>. QED  BY <3>1, <3>2, <3>3
  <2>5. target' \in [Writers -> Subprocesses \cup {NoProcess}] /\ answer' = answer
    BY <1>3 DEF StartWriting, TypeOK
  <2>6. \A u \in Tasks : pc'[u] = "ensure" => pc[u] = "ensure"
    BY <1>3 DEF StartWriting, TypeOK
  <2>. QED  BY <2>1, <2>2, <2>3, <2>4, <2>5, <2>6 DEF TypeOK, CallStepTyped
<1>. QED  BY <1>1, <1>2, <1>3 DEF Proceed

-----------------------------------------------------------------------------
\* Taking the process out of service, by whoever just took the lifecycle lock.
LEMMA CleanupSafe ==
  ASSUME SafetyInv,
         NEW p \in PendingType, NEW f \in FutureType, NEW at \in PcType,
         NEW t \in Tasks, NEW rest \in Seq(Tasks), lifecycle' = <<t>> \o rest,
         \A u \in Tasks : at[u] = "ensure" => u \in Writers,
         BeginCleanup(p, f, at),
         writeLock' \in Seq(Writers),
         UNCHANGED <<answer, target, pipeVars>>
  PROVE  SafetyInv'
<1>. USE ConstantsAssumption
<1>1. /\ pending' = NoPending /\ pending' \in PendingType
      /\ future' \in FutureType /\ pc' \in PcType
      /\ \A u \in Tasks : pc'[u] \in {at[u], "unavailable", "crashed"}
  BY FailPendingType DEF BeginCleanup
<1>2. lifecycle' \in Seq(Tasks) /\ lifecycle' # <<>>
  BY QueueType
<1>3. TypeOK'
  BY <1>1, <1>2 DEF SafetyInv, TypeOK, BeginCleanup, PendingType, FutureType, PcType,
                    pipeVars
<1>4. LockInv'
  BY <1>1, <1>2 DEF SafetyInv, LockInv, BeginCleanup
<1>5. RecyclingHasNoPending' /\ NoOrphanChild'
  BY <1>1 DEF SafetyInv, RecyclingHasNoPending, NoOrphanChild, BeginCleanup, NoPending
<1>. QED  BY <1>3, <1>4, <1>5 DEF SafetyInv

\* ensure_started(), and what its caller does up to its next suspension.
LEMMA EnsureSafe ==
  ASSUME SafetyInv, phase = "free", NEW t \in Writers, NEW rest \in Seq(Tasks),
         RunEnsure(t, rest)
  PROVE  SafetyInv'
<1>0. t \in Tasks
  BY DEF Writers, Tasks
<1>1. CASE /\ Running /\ lifecycle' = rest /\ UNCHANGED <<procVars, phase, outbox>>
           /\ Proceed(t, process, child[process])
  <2>1. process \in Subprocesses
    BY <1>1 DEF SafetyInv, TypeOK, Running
  <2>2. CallStepTyped
    BY <1>1, <2>1, ProceedType DEF SafetyInv
  <2>3. TypeOK'
    BY <1>1, <2>2 DEF CallStepTyped, SafetyInv, TypeOK, procVars,
                      PendingType, FutureType, PcType, WireType
  <2>4. LockInv'
    BY <1>1, <2>2 DEF CallStepTyped, SafetyInv, LockInv, procVars
  <2>5. RecyclingHasNoPending' /\ NoOrphanChild'
    BY <1>1 DEF SafetyInv, RecyclingHasNoPending, NoOrphanChild, procVars
  <2>. QED  BY <2>3, <2>4, <2>5 DEF SafetyInv
<1>2. CASE /\ lifecycle' = <<t>> \o rest
           /\ BeginCleanup(pending, future, [pc EXCEPT ![t] = "ensure"])
           /\ UNCHANGED <<writeLock, answer, target, pipeVars>>
  <2>1. [pc EXCEPT ![t] = "ensure"] \in PcType
    BY <1>0 DEF SafetyInv, TypeOK, PcType, Suspended
  <2>2. \A u \in Tasks : [pc EXCEPT ![t] = "ensure"][u] = "ensure" => u \in Writers
    BY <1>0 DEF SafetyInv, TypeOK, LockInv
  <2>3. pending \in PendingType /\ future \in FutureType /\ writeLock' \in Seq(Writers)
    BY <1>2 DEF SafetyInv, TypeOK, PendingType, FutureType
  <2>. QED  BY <1>0, <1>2, <2>1, <2>2, <2>3, CleanupSafe
<1>. QED  BY <1>1, <1>2 DEF RunEnsure

\* restart(), by a recycling manager or by a call whose write failed.
LEMMA RestartSafe ==
  ASSUME SafetyInv, NEW t \in Tasks, NEW rest \in Seq(Tasks),
         NEW p \in PendingType, NEW f \in FutureType,
         RunRestart(t, rest, p, f), writeLock' \in Seq(Writers)
  PROVE  SafetyInv'
<1>1. [pc EXCEPT ![t] = "restart"] \in PcType
  BY DEF SafetyInv, TypeOK, PcType, Suspended
<1>2. \A u \in Tasks : [pc EXCEPT ![t] = "restart"][u] = "ensure" => u \in Writers
  BY DEF SafetyInv, TypeOK, LockInv
<1>. QED  BY <1>1, <1>2, CleanupSafe DEF RunRestart

\* close(), with or without a process.
LEMMA CloseSafe ==
  ASSUME SafetyInv, phase = "free", NEW t \in Tasks, NEW rest \in Seq(Tasks),
         RunClose(t, rest)
  PROVE  SafetyInv'
<1>1. pending \in PendingType /\ future \in FutureType /\ writeLock' \in Seq(Writers)
  BY DEF SafetyInv, TypeOK, PendingType, FutureType, RunClose
<1>2. CASE /\ lifecycle' = <<t>> \o rest
           /\ BeginCleanup(pending, future, [pc EXCEPT ![t] = "close"])
  <2>1. [pc EXCEPT ![t] = "close"] \in PcType
    BY DEF SafetyInv, TypeOK, PcType, Suspended
  <2>2. \A u \in Tasks : [pc EXCEPT ![t] = "close"][u] = "ensure" => u \in Writers
    BY DEF SafetyInv, TypeOK, LockInv
  <2>. QED  BY <1>1, <1>2, <2>1, <2>2, CleanupSafe DEF RunClose
<1>3. CASE /\ lifecycle' = rest /\ UNCHANGED <<procVars, phase>>
           /\ FailPending(pending, future, [pc EXCEPT ![t] = "done"], "stopped")
  <2>1. [pc EXCEPT ![t] = "done"] \in PcType
    BY DEF SafetyInv, TypeOK, PcType, Ended
  <2>2. /\ pending' = NoPending /\ pending' \in PendingType
        /\ future' \in FutureType /\ pc' \in PcType
        /\ \A u \in Tasks :
             pc'[u] \in {[pc EXCEPT ![t] = "done"][u], "unavailable", "crashed"}
    BY <1>1, <1>3, <2>1, FailPendingType
  <2>3. TypeOK'
    BY <1>3, <2>2 DEF SafetyInv, TypeOK, RunClose, procVars, pipeVars,
                      PendingType, FutureType, PcType
  <2>4. LockInv'
    BY <1>3, <2>2 DEF SafetyInv, TypeOK, LockInv, procVars
  <2>5. RecyclingHasNoPending' /\ NoOrphanChild'
    BY <1>3 DEF SafetyInv, RecyclingHasNoPending, NoOrphanChild, procVars
  <2>. QED  BY <2>3, <2>4, <2>5 DEF SafetyInv
<1>. QED  BY <1>2, <1>3 DEF RunClose

-----------------------------------------------------------------------------
\* A task that finds the lifecycle lock taken only joins its queue.
LEMMA ArriveSafe ==
  ASSUME SafetyInv, NEW t \in Tasks, NEW at \in {"ensure", "restart", "close"},
         at = "ensure" => t \in Writers, Arrive(t, at)
  PROVE  SafetyInv'
<1>1. lifecycle' \in Seq(Tasks) /\ lifecycle' # <<>>
  BY QueueType, AppendProperties DEF Arrive, SafetyInv, TypeOK
<1>2. TypeOK'
  BY <1>1 DEF Arrive, SafetyInv, TypeOK, Suspended, procVars, callVars, pipeVars
<1>3. LockInv'
  BY <1>1 DEF Arrive, SafetyInv, TypeOK, LockInv, procVars
<1>4. RecyclingHasNoPending' /\ NoOrphanChild'
  BY DEF Arrive, SafetyInv, RecyclingHasNoPending, NoOrphanChild, procVars, callVars
<1>. QED  BY <1>2, <1>3, <1>4 DEF SafetyInv

\* The end of _cleanup_process: only a reaped process is forgotten.
LEMMA CleanedSafe ==
  ASSUME SafetyInv, phase \in {"gather", "term", "kill"}, child[process] = "exited",
         Cleaned,
         UNCHANGED <<child, reader, waiter, writeLock, callVars, target, pipeVars>>
  PROVE  SafetyInv'
<1>1. lifecycle \in Seq(Tasks) /\ lifecycle # <<>>
  BY DEF SafetyInv, TypeOK, LockInv
<1>2. Head(lifecycle) \in Tasks /\ Tail(lifecycle) \in Seq(Tasks)
  BY <1>1, HeadTailProperties
<1>3. TypeOK'
  BY <1>2 DEF Cleaned, SafetyInv, TypeOK, Ended, callVars, pipeVars
<1>4. LockInv'
  BY <1>1, <1>2 DEF Cleaned, SafetyInv, TypeOK, LockInv
<1>5. RecyclingHasNoPending' /\ NoOrphanChild'
  BY DEF Cleaned, SafetyInv, RecyclingHasNoPending, NoOrphanChild, callVars
<1>. QED  BY <1>3, <1>4, <1>5 DEF SafetyInv

\* A new process is started only when there is none.
LEMMA StartOkSafe ==
  ASSUME SafetyInv, StartOk
  PROVE  SafetyInv'
<1>. DEFINE t == Head(lifecycle)
<1>1. lifecycle \in Seq(Tasks) /\ lifecycle # <<>>
  BY DEF SafetyInv, TypeOK, LockInv, StartOk
<1>2. t \in Tasks /\ Tail(lifecycle) \in Seq(Tasks)
  BY <1>1, HeadTailProperties
<1>3. PICK g \in Subprocesses, st \in {"up", "exited"} :
        /\ child[g] = "none"
        /\ process' = g
        /\ child' = [child EXCEPT ![g] = st]
        /\ \/ pc[t] = "ensure" /\ Proceed(t, g, st)
           \/ /\ pc[t] # "ensure"
              /\ pc' = [pc EXCEPT ![t] = IF t \in Calls THEN "unavailable" ELSE "done"]
              /\ UNCHANGED <<callVars, target, wire, writeLock>>
  BY DEF StartOk
<1>4. CallStepTyped
  <2>1. CASE pc[t] = "ensure" /\ Proceed(t, g, st)
    BY <1>2, <2>1, ProceedType DEF SafetyInv, LockInv
  <2>2. CASE /\ pc' = [pc EXCEPT ![t] = IF t \in Calls THEN "unavailable" ELSE "done"]
             /\ UNCHANGED <<callVars, target, wire, writeLock>>
    BY <1>2, <2>2 DEF CallStepTyped, SafetyInv, TypeOK, callVars, PendingType,
                      FutureType, PcType, WireType, Ended
  <2>. QED  BY <1>3, <2>1, <2>2
<1>5. TypeOK'
  <2>1. process' \in Subprocesses /\ outbox' \in WireType
        /\ child' \in [Subprocesses -> {"none", "up", "gone", "exited"}]
    BY <1>3 DEF StartOk, SafetyInv, TypeOK, WireType
  <2>2. lifecycle' \in Seq(Tasks) /\ phase' = "free" /\ reader' = "reading"
        /\ waiter' = "waiting"
    BY <1>2 DEF StartOk
  <2>. QED  BY <1>4, <2>1, <2>2 DEF CallStepTyped, TypeOK, PendingType, FutureType,
                                    PcType, WireType
<1>6. LockInv'
  <2>1. process' # NoProcess /\ phase' = "free"
    BY <1>3, ConstantsAssumption DEF StartOk
  <2>. QED  BY <1>4, <2>1 DEF CallStepTyped, SafetyInv, LockInv
<1>7. RecyclingHasNoPending'
  BY DEF StartOk, RecyclingHasNoPending
<1>8. NoOrphanChild'
  <2>1. process \notin Subprocesses
    BY ConstantsAssumption DEF StartOk, SafetyInv, LockInv
  <2>. QED  BY <1>3, <2>1 DEF SafetyInv, TypeOK, NoOrphanChild
<1>. QED  BY <1>5, <1>6, <1>7, <1>8 DEF SafetyInv

\* What follows a drain releases the write lock and settles its call.
LEMMA WrittenType ==
  ASSUME SafetyInv, writeLock # <<>>, Written(Head(writeLock))
  PROVE  /\ pending' \in PendingType /\ pc' \in PcType
         /\ \A u \in Tasks : pc'[u] = "ensure" => pc[u] = "ensure"
         /\ writeLock' \in Seq(Writers)
         /\ pending = NoPending => pending' = NoPending
<1>. DEFINE t == Head(writeLock)
<1>1. t \in Writers /\ t \in Tasks /\ Tail(writeLock) \in Seq(Writers)
  BY HeadTailProperties DEF SafetyInv, TypeOK, Writers, Tasks
<1>2. pending' \in PendingType
  BY ConstantsAssumption DEF Written, SafetyInv, TypeOK, PendingType, Pop
<1>3. pc' \in PcType
  BY <1>1 DEF Written, SafetyInv, TypeOK, PcType, Suspended, Ended, Raised
<1>4. \A u \in Tasks : pc'[u] = "ensure" => pc[u] = "ensure"
  BY <1>1 DEF Written, SafetyInv, TypeOK, Raised
<1>5. pending = NoPending => pending' = NoPending
  BY ConstantsAssumption DEF Written, Pop, NoPending
<1>6. writeLock' \in Seq(Writers)
  BY <1>1 DEF Written
<1>. QED  BY <1>2, <1>3, <1>4, <1>5, <1>6

LEMMA WriteLineSafe ==
  ASSUME SafetyInv, WriteLine \/ DrainReturns
  PROVE  SafetyInv'
<1>. DEFINE t == Head(writeLock)
<1>1. writeLock # <<>> /\ t \in Writers /\ t \in Tasks
  BY HeadTailProperties DEF SafetyInv, TypeOK, Writers, Tasks, WriteLine, DrainReturns
<1>2. /\ pending' \in PendingType /\ pc' \in PcType
      /\ \A u \in Tasks : pc'[u] = "ensure" => pc[u] = "ensure"
      /\ writeLock' \in Seq(Writers)
      /\ pending = NoPending => pending' = NoPending
  <2>1. CASE Written(t)
    BY <1>1, <2>1, WrittenType
  <2>2. CASE pc' = [pc EXCEPT ![t] = "drain"] /\ UNCHANGED <<pending, writeLock>>
    BY <1>1, <2>2 DEF SafetyInv, TypeOK, PendingType, PcType, Suspended
  <2>. QED  BY <2>1, <2>2 DEF WriteLine, DrainReturns
<1>3. wire' \in WireType
  <2>1. wire \in WireType
    BY DEF SafetyInv, TypeOK, WireType
  <2>2. wire' = wire \/ (t \in Calls /\ wire' = [wire EXCEPT ![target[t]] = @ \cup {t}])
    BY DEF WriteLine, DrainReturns, PutLine, pipeVars
  <2>3. t \in Calls => [wire EXCEPT ![target[t]] = @ \cup {t}] \in WireType
    BY <2>1 DEF WireType
  <2>. QED  BY <2>1, <2>2, <2>3
<1>4. UNCHANGED <<procVars, lockVars, future, answer, target, outbox>>
  BY DEF WriteLine, DrainReturns, pipeVars
<1>5. TypeOK'
  BY <1>2, <1>3, <1>4 DEF SafetyInv, TypeOK, procVars, lockVars, PendingType, PcType,
                          WireType
<1>6. LockInv' /\ RecyclingHasNoPending' /\ NoOrphanChild'
  BY <1>2, <1>4 DEF SafetyInv, LockInv, RecyclingHasNoPending, NoOrphanChild,
                    procVars, lockVars, NoPending
<1>. QED  BY <1>5, <1>6 DEF SafetyInv

\* A call that goes on to restart the process: it waits for the lifecycle lock
\* or takes it.
LEMMA GoRestartSafe ==
  ASSUME SafetyInv, NEW t \in Tasks, NEW p \in PendingType, NEW f \in FutureType,
         pending = NoPending => p = NoPending,
         GoRestart(t, p, f), writeLock' \in Seq(Writers)
  PROVE  SafetyInv'
<1>1. CASE RunRestart(t, <<>>, p, f)
  <2>1. <<>> \in Seq(Tasks)
    OBVIOUS
  <2>. QED  BY <1>1, <2>1, RestartSafe
<1>2. CASE /\ lifecycle' = Append(lifecycle, t)
           /\ pc' = [pc EXCEPT ![t] = "restart"]
           /\ pending' = p /\ future' = f
           /\ UNCHANGED <<procVars, phase, answer, target, pipeVars>>
  <2>1. lifecycle' \in Seq(Tasks) /\ lifecycle' # <<>>
    BY <1>2, AppendProperties DEF SafetyInv, TypeOK
  <2>2. TypeOK'
    BY <1>2, <2>1 DEF SafetyInv, TypeOK, procVars, pipeVars, Suspended,
                      PendingType, FutureType
  <2>3. LockInv' /\ RecyclingHasNoPending' /\ NoOrphanChild'
    BY <1>2, <2>1 DEF SafetyInv, TypeOK, LockInv, RecyclingHasNoPending,
                      NoOrphanChild, procVars, NoPending
  <2>. QED  BY <2>2, <2>3 DEF SafetyInv
<1>. QED  BY <1>1, <1>2 DEF GoRestart

LEMMA DrainFailsSafe ==
  ASSUME SafetyInv, DrainFails
  PROVE  SafetyInv'
<1>. USE ConstantsAssumption
<1>. DEFINE t == Head(writeLock)
            p == Pop(pending, t)
            f == [future EXCEPT ![t] = IF @ = "open" THEN "dropped" ELSE @]
<1>1. t \in Writers /\ t \in Tasks /\ writeLock' \in Seq(Writers)
  BY HeadTailProperties DEF SafetyInv, TypeOK, Writers, Tasks, DrainFails
<1>2. p \in PendingType /\ f \in FutureType /\ (pending = NoPending => p = NoPending)
  BY DEF SafetyInv, TypeOK, PendingType, FutureType, Pop, NoPending
<1>3. CASE /\ pc' = [pc EXCEPT ![t] = "unavailable"]
           /\ UNCHANGED <<procVars, lockVars, callVars, target, pipeVars>>
  BY <1>1, <1>3 DEF SafetyInv, TypeOK, LockInv, RecyclingHasNoPending, NoOrphanChild,
                    procVars, lockVars, callVars, pipeVars, Ended, NoPending
<1>4. CASE GoRestart(t, p, f)
  BY <1>1, <1>2, <1>4, GoRestartSafe
<1>. QED  BY <1>3, <1>4 DEF DrainFails

\* What the RuntimeError of the stdout loop makes of a call.
LEMMA RaiseSafe ==
  ASSUME SafetyInv, WriteRaises \/ \E c \in Calls : Raise(c)
  PROVE  SafetyInv'
<1>1. PICK t \in Calls : /\ GoRestart(t, Pop(pending, t), future)
                         /\ writeLock' \in Seq(Writers)
  BY HeadTailProperties DEF WriteRaises, Raise, SafetyInv, TypeOK
<1>2. /\ Pop(pending, t) \in PendingType /\ future \in FutureType
      /\ pending = NoPending => Pop(pending, t) = NoPending
  BY ConstantsAssumption DEF SafetyInv, TypeOK, PendingType, FutureType, Pop, NoPending
<1>. QED  BY <1>1, <1>2, GoRestartSafe DEF Tasks

\* A loop of the process that ends by failing what is pending.
LEMMA LoopEndsSafe ==
  ASSUME SafetyInv, ReaderCrash \/ ExitReported
  PROVE  SafetyInv'
<1>1. /\ pending \in PendingType /\ future \in FutureType /\ pc \in PcType
      /\ \E why \in {"stopped", "broken", "runtime"} :
           FailPending(pending, future, pc, why)
  BY DEF SafetyInv, TypeOK, PendingType, FutureType, PcType, ReaderCrash, ExitReported
<1>2. /\ pending' = NoPending /\ pending' \in PendingType
      /\ future' \in FutureType /\ pc' \in PcType
      /\ \A u \in Tasks : pc'[u] \in {pc[u], "unavailable", "crashed"}
  BY <1>1, FailPendingType
<1>3. /\ reader' \in {reader, "done"} /\ waiter' \in {waiter, "done"}
      /\ process # NoProcess /\ phase = "free"
      /\ UNCHANGED <<process, child, lockVars, writeLock, answer, target, pipeVars>>
  BY DEF SafetyInv, LockInv, ReaderCrash, ExitReported
<1>4. TypeOK'
  BY <1>2, <1>3 DEF SafetyInv, TypeOK, lockVars, pipeVars, PendingType, FutureType,
                    PcType
<1>5. LockInv' /\ RecyclingHasNoPending' /\ NoOrphanChild'
  BY <1>2, <1>3 DEF SafetyInv, LockInv, RecyclingHasNoPending, NoOrphanChild, lockVars
<1>. QED  BY <1>4, <1>5 DEF SafetyInv

-----------------------------------------------------------------------------
LEMMA InitSafe == Init => SafetyInv
BY ConstantsAssumption
   DEF Init, SafetyInv, TypeOK, LockInv, RecyclingHasNoPending, NoOrphanChild,
       NoPending, Suspended

LEMMA StepSafe == SafetyInv /\ [Next]_vars => SafetyInv'
<1>. SUFFICES ASSUME SafetyInv, [Next]_vars PROVE SafetyInv'
  OBVIOUS
<1>0. <<>> \in Seq(Tasks) /\ Writers \subseteq Tasks
  BY DEF Writers, Tasks
<1>1. lifecycle = <<>> => phase = "free"
  BY DEF SafetyInv, LockInv
<1>2. ASSUME NEW t \in Writers, Request(t) PROVE SafetyInv'
  BY <1>0, <1>1, <1>2, ArriveSafe, EnsureSafe DEF Request
<1>3. ASSUME NEW t \in Recycles, Restart(t) PROVE SafetyInv'
  <2>1. pending \in PendingType /\ future \in FutureType /\ writeLock \in Seq(Writers)
    BY DEF SafetyInv, TypeOK, PendingType, FutureType
  <2>. QED  BY <1>0, <1>3, <2>1, ArriveSafe, RestartSafe DEF Restart, Tasks
<1>4. ASSUME NEW t \in Closes, Close(t) PROVE SafetyInv'
  BY <1>0, <1>1, <1>4, ArriveSafe, CloseSafe DEF Close, Tasks
<1>5. ASSUME Enter PROVE SafetyInv'
  <2>. DEFINE t == Head(lifecycle)
              rest == Tail(lifecycle)
  <2>1. t \in Tasks /\ rest \in Seq(Tasks) /\ phase = "free"
    BY <1>5, HeadTailProperties DEF Enter, SafetyInv, TypeOK
  <2>2. CASE pc[t] = "ensure" /\ RunEnsure(t, rest)
    BY <2>1, <2>2, EnsureSafe DEF SafetyInv, LockInv
  <2>3. CASE RunRestart(t, rest, pending, future) /\ UNCHANGED writeLock
    <3>1. /\ pending \in PendingType /\ future \in FutureType
          /\ writeLock' \in Seq(Writers)
      BY <2>3 DEF SafetyInv, TypeOK, PendingType, FutureType
    <3>. QED  BY <2>1, <2>3, <3>1, RestartSafe
  <2>4. CASE RunClose(t, rest)
    BY <2>1, <2>4, CloseSafe
  <2>. QED  BY <1>5, <2>2, <2>3, <2>4 DEF Enter
<1>6. ASSUME GatherDone PROVE SafetyInv'
  <2>1. CASE child[process] = "exited" /\ Cleaned
    BY <1>6, <2>1, CleanedSafe DEF GatherDone
  <2>2. CASE phase' = "term" /\ UNCHANGED <<process, lifecycle, pc>>
    BY <1>6, <2>2 DEF GatherDone, SafetyInv, TypeOK, LockInv, RecyclingHasNoPending,
                      NoOrphanChild, callVars, pipeVars
  <2>. QED  BY <1>6, <2>1, <2>2 DEF GatherDone
<1>7. ASSUME WaitDone PROVE SafetyInv'
  BY <1>7, CleanedSafe DEF WaitDone
<1>8. ASSUME Kill PROVE SafetyInv'
  BY <1>8 DEF Kill, Die, SafetyInv, TypeOK, LockInv, RecyclingHasNoPending,
              NoOrphanChild, callVars
<1>9. ASSUME StartOk PROVE SafetyInv'
  BY <1>9, StartOkSafe
<1>10. ASSUME StartFails PROVE SafetyInv'
  <2>1. Head(lifecycle) \in Tasks /\ Tail(lifecycle) \in Seq(Tasks)
    BY <1>10, HeadTailProperties DEF StartFails, SafetyInv, TypeOK, LockInv
  <2>. QED  BY <1>10, <2>1 DEF StartFails, SafetyInv, TypeOK, LockInv, Ended,
                               RecyclingHasNoPending, NoOrphanChild, procVars,
                               callVars, pipeVars
<1>11. ASSUME WriteLine \/ DrainReturns PROVE SafetyInv'
  BY <1>11, WriteLineSafe
<1>12. ASSUME DrainFails PROVE SafetyInv'
  BY <1>12, DrainFailsSafe
<1>13. ASSUME NEW c \in Calls, Return(c) \/ Timeout(c) PROVE SafetyInv'
  <2>1. UNCHANGED <<procVars, lockVars, writeLock, answer, target, pipeVars>>
    BY <1>13 DEF Return, Timeout, callVars
  <2>2. pending' \in PendingType /\ (pending = NoPending => pending' = NoPending)
    BY <1>13, ConstantsAssumption
       DEF Return, Timeout, Pop, callVars, SafetyInv, TypeOK, PendingType, NoPending
  <2>3. future' \in FutureType
    BY <1>13 DEF Return, Timeout, callVars, SafetyInv, TypeOK, FutureType
  <2>4. pc' \in PcType /\ \A u \in Tasks : pc'[u] = "ensure" => pc[u] = "ensure"
    BY <1>13 DEF Return, Timeout, SafetyInv, TypeOK, PcType, Ended
  <2>. QED  BY <2>1, <2>2, <2>3, <2>4
               DEF SafetyInv, TypeOK, LockInv, RecyclingHasNoPending, NoOrphanChild,
                   procVars, lockVars, pipeVars, PendingType, FutureType, PcType, NoPending
<1>14. ASSUME ChildAnswers \/ ChildDies \/ ExitNoticed PROVE SafetyInv'
  <2>1. wire' \in WireType /\ outbox' \in WireType
    <3>1. CASE ChildAnswers
      <4>1. PICK g \in Subprocesses : \E c \in wire[g] :
              /\ wire' = [wire EXCEPT ![g] = @ \ {c}]
              /\ outbox' = [outbox EXCEPT ![g] = @ \cup {c}]
        BY <3>1 DEF ChildAnswers
      <4>2. wire[g] \subseteq Calls
        BY DEF SafetyInv, TypeOK
      <4>. QED  BY <4>1, <4>2 DEF SafetyInv, TypeOK, WireType
    <3>2. CASE ChildDies \/ ExitNoticed
      BY <3>2 DEF ChildDies, ExitNoticed, Die, SafetyInv, TypeOK, WireType, pipeVars
    <3>. QED  BY <1>14, <3>1, <3>2
  <2>2. /\ child' \in [Subprocesses -> {"none", "up", "gone", "exited"}]
        /\ \A g \in Subprocesses :
             child'[g] \in {"up", "gone"} => child[g] \in {"up", "gone"}
    BY <1>14 DEF ChildAnswers, ChildDies, ExitNoticed, Die, SafetyInv, TypeOK, procVars
  <2>3. UNCHANGED <<process, reader, waiter, lockVars, writeLock, callVars, target, pc>>
    BY <1>14 DEF ChildAnswers, ChildDies, ExitNoticed, procVars
  <2>. QED  BY <2>1, <2>2, <2>3 DEF SafetyInv, TypeOK, LockInv, RecyclingHasNoPending,
                                    NoOrphanChild, lockVars, callVars, WireType
<1>15. ASSUME ReaderDelivers PROVE SafetyInv'
  <2>1. PICK d \in outbox[process] :
          /\ outbox' = [outbox EXCEPT ![process] = @ \ {d}]
          /\ pending' = Pop(pending, d)
          /\ LET c == pending[IdOf[d]] IN
             IF c # NoCall /\ future[c] = "open"
             THEN /\ future' = [future EXCEPT ![c] = "result"]
                  /\ answer' = [answer EXCEPT ![c] = d]
             ELSE UNCHANGED <<future, answer>>
    BY <1>15 DEF ReaderDelivers
  <2>2. process \in Subprocesses /\ d \in Calls
    BY <1>15, <2>1 DEF ReaderDelivers, SafetyInv, TypeOK, LockInv
  <2>3. outbox' \in WireType
    BY <2>1 DEF SafetyInv, TypeOK, WireType
  <2>4. pending' \in PendingType /\ (pending = NoPending => pending' = NoPending)
    BY <2>1, <2>2, ConstantsAssumption
       DEF SafetyInv, TypeOK, PendingType, Pop, NoPending
  <2>5. future' \in FutureType /\ answer' \in [Calls -> Calls \cup {NoCall}]
    BY <2>1, <2>2 DEF SafetyInv, TypeOK, FutureType
  <2>6. UNCHANGED <<procVars, lockVars, writeLock, target, wire, pc>>
    BY <1>15 DEF ReaderDelivers
  <2>. QED  BY <2>3, <2>4, <2>5, <2>6
               DEF SafetyInv, TypeOK, LockInv, RecyclingHasNoPending, NoOrphanChild,
                   procVars, lockVars, PendingType, FutureType, WireType, NoPending
<1>16. ASSUME ReaderEof PROVE SafetyInv'
  BY <1>16 DEF ReaderEof, SafetyInv, TypeOK, LockInv, RecyclingHasNoPending,
               NoOrphanChild, lockVars, callVars, pipeVars
<1>17. ASSUME ReaderCrash \/ ExitReported PROVE SafetyInv'
  BY <1>17, LoopEndsSafe
<1>18. ASSUME UNCHANGED vars PROVE SafetyInv'
  BY <1>18 DEF vars, SafetyInv, TypeOK, LockInv, RecyclingHasNoPending, NoOrphanChild,
               procVars, lockVars, callVars, pipeVars
<1>19. ASSUME WriteRaises \/ \E c \in Calls : Raise(c) PROVE SafetyInv'
  BY <1>19, RaiseSafe
<1>. QED
  BY <1>2, <1>3, <1>4, <1>5, <1>6, <1>7, <1>8, <1>9, <1>10, <1>11, <1>12, <1>13,
     <1>14, <1>15, <1>16, <1>17, <1>18, <1>19 DEF Next

\* Every variable keeps its type in every behaviour of the bridge.
THEOREM TypeCorrect == Spec => []TypeOK
<1>1. SafetyInv => TypeOK
  BY DEF SafetyInv
<1>. QED  BY InitSafe, StepSafe, <1>1, PTL DEF Spec

\* No request is registered while the subprocess is being recycled.
THEOREM RecyclingIsExclusive == Spec => []RecyclingHasNoPending
<1>1. SafetyInv => RecyclingHasNoPending
  BY DEF SafetyInv
<1>. QED  BY InitSafe, StepSafe, <1>1, PTL DEF Spec

\* No subprocess is left running that self._process no longer names.
THEOREM NoChildIsOrphaned == Spec => []NoOrphanChild
<1>1. SafetyInv => NoOrphanChild
  BY DEF SafetyInv
<1>. QED  BY InitSafe, StepSafe, <1>1, PTL DEF Spec

-----------------------------------------------------------------------------
(***************************************************************************)
(* Answers come from the subprocess the call wrote to.  TargetInv is kept  *)
(* by every step that captures no subprocess and settles no future...      *)
(***************************************************************************)
LEMMA TargetQuiet ==
  ASSUME SafetyInv, TargetInv,
         \A c \in Calls : pc'[c] \in {"idle", "ensure"}
                          => Fresh(c) /\ future'[c] = future[c],
         \A i \in Ids : pending'[i] \in {pending[i], NoCall},
         process' = process \/ pending' = NoPending,
         \A g \in Subprocesses : \A c \in wire'[g] \cup outbox'[g] :
           c \in wire[g] \cup outbox[g] \/ target[c] = g,
         UNCHANGED <<target, answer>>
  PROVE  TargetInv'
<1>1. \A c \in Calls : Fresh(c)' => target'[c] = NoProcess /\ future'[c] = "none"
  BY DEF TargetInv, Fresh
<1>2. \A i \in Ids : pending'[i] # NoCall
        => process' # NoProcess /\ target'[pending'[i]] = process'
  BY DEF TargetInv, NoPending
<1>3. \A g \in Subprocesses : \A c \in wire'[g] \cup outbox'[g] : target'[c] = g
  BY DEF TargetInv
<1>4. \A c \in Calls : answer'[c] # NoCall
        => target'[c] # NoProcess /\ target'[answer'[c]] = target'[c]
  BY DEF TargetInv
<1>. QED  BY <1>1, <1>2, <1>3, <1>4 DEF TargetInv

\* ... by those that fail everything pending...
LEMMA TargetFailPending ==
  ASSUME SafetyInv, TargetInv, NEW p, NEW f, NEW at, NEW why,
         FailPending(p, f, at, why), why \in {"stopped", "broken", "runtime"},
         \A c \in Calls : at[c] \in {"idle", "ensure"} => Fresh(c) /\ f[c] = future[c],
         UNCHANGED <<target, answer, pipeVars>>
  PROVE  TargetInv'
<1>1. pending' = NoPending
  BY DEF FailPending
<1>2. \A c \in Calls : pc'[c] \in {at[c], "unavailable", "crashed"}
  BY DEF FailPending, Raised, Tasks
<1>3. \A c \in Calls : f[c] # "open" => future'[c] = f[c]
  BY DEF FailPending
<1>4. \A c \in Calls : pc'[c] \in {"idle", "ensure"} => Fresh(c) /\ future'[c] = future[c]
  BY <1>2, <1>3 DEF TargetInv
<1>5. \A i \in Ids : pending'[i] \in {pending[i], NoCall}
  BY <1>1 DEF NoPending
<1>. QED  BY <1>1, <1>4, <1>5, TargetQuiet DEF pipeVars

\* ... and by a call that captures the current subprocess.
LEMMA TargetProceed ==
  ASSUME SafetyInv, TargetInv, NEW t \in Writers, pc[t] \in {"idle", "ensure"},
         NEW g \in Subprocesses, NEW st, Proceed(t, g, st),
         process' = g, process = g \/ pending = NoPending, outbox' = outbox
  PROVE  TargetInv'
<1>. USE ConstantsAssumption
<1>0. t \in Tasks /\ Calls \subseteq Tasks /\ Calls \subseteq Writers
  BY DEF Writers, Tasks
<1>1. CASE Duplicate(t) \/ NotRunning(t, st)
  <2>1. \A c \in Calls : pc'[c] \in {"idle", "ensure"}
                         => Fresh(c) /\ future'[c] = future[c]
    BY <1>0, <1>1 DEF Duplicate, NotRunning, SafetyInv, TypeOK, Fresh, callVars
  <2>2. UNCHANGED <<pending, target, answer, wire>>
    BY <1>1 DEF Duplicate, NotRunning, callVars
  <2>3. process' = process \/ pending' = NoPending
    BY <2>2
  <2>. QED  BY <2>1, <2>2, <2>3, TargetQuiet
<1>2. CASE StartWriting(t, g, st)
  <2>1. /\ target' = [target EXCEPT ![t] = g] /\ answer' = answer
        /\ \A i \in Ids : pending'[i] = pending[i] \/ (t \in Calls /\ pending'[i] = t)
        /\ wire' = wire \/ (t \in Calls /\ wire' = [wire EXCEPT ![g] = @ \cup {t}])
    BY <1>2 DEF StartWriting, PutLine, SafetyInv, TypeOK
  <2>2. /\ target'[t] = g /\ g # NoProcess
        /\ \A c \in Calls : c # t => target'[c] = target[c]
        /\ t \in Calls => target[t] = NoProcess
    BY <1>0, <2>1 DEF SafetyInv, TypeOK, TargetInv, Fresh
  <2>3. \A c \in Calls : Fresh(c)' => target'[c] = NoProcess /\ future'[c] = "none"
    <3>. SUFFICES ASSUME NEW c \in Calls, Fresh(c)'
                  PROVE  target'[c] = NoProcess /\ future'[c] = "none"
      OBVIOUS
    <3>1. c # t /\ pc'[c] = pc[c]
      BY <1>0, <1>2 DEF StartWriting, SafetyInv, TypeOK, Fresh
    <3>2. future'[c] = future[c]
      BY <1>2, <3>1 DEF StartWriting, SafetyInv, TypeOK
    <3>. QED  BY <2>2, <3>1, <3>2 DEF TargetInv, Fresh
  <2>4. \A i \in Ids : pending'[i] # NoCall
          => process' # NoProcess /\ target'[pending'[i]] = process'
    <3>. SUFFICES ASSUME NEW i \in Ids, pending'[i] # NoCall
                  PROVE  target'[pending'[i]] = g
      BY <2>2
    <3>1. CASE pending'[i] = t
      BY <2>2, <3>1
    <3>2. CASE pending'[i] = pending[i] /\ pending'[i] # t
      BY <2>2, <3>2 DEF TargetInv, NoPending, SafetyInv, TypeOK
    <3>. QED  BY <2>1, <3>1, <3>2
  <2>5. \A h \in Subprocesses : \A c \in wire'[h] \cup outbox'[h] : target'[c] = h
    <3>. SUFFICES ASSUME NEW h \in Subprocesses, NEW c \in wire'[h] \cup outbox'[h]
                  PROVE  target'[c] = h
      OBVIOUS
    <3>1. CASE c \in wire[h] \cup outbox[h]
      <4>1. c \in Calls /\ target[c] = h
        BY <3>1 DEF TargetInv, SafetyInv, TypeOK
      <4>. QED  BY <2>2, <4>1
    <3>2. CASE c = t /\ h = g
      BY <2>2, <3>2
    <3>. QED  BY <2>1, <3>1, <3>2 DEF SafetyInv, TypeOK
  <2>6. \A c \in Calls : answer'[c] # NoCall
          => target'[c] # NoProcess /\ target'[answer'[c]] = target'[c]
    <3>. SUFFICES ASSUME NEW c \in Calls, answer[c] # NoCall
                  PROVE  target'[c] # NoProcess /\ target'[answer[c]] = target'[c]
      BY <2>1
    <3>1. target[c] # NoProcess /\ target[answer[c]] = target[c] /\ answer[c] \in Calls
      BY DEF TargetInv, SafetyInv, TypeOK
    <3>. QED  BY <2>2, <3>1
  <2>. QED  BY <2>3, <2>4, <2>5, <2>6 DEF TargetInv
<1>. QED  BY <1>1, <1>2 DEF Proceed

LEMMA TargetEnsure ==
  ASSUME SafetyInv, TargetInv, NEW t \in Writers, pc[t] \in {"idle", "ensure"},
         NEW rest, RunEnsure(t, rest)
  PROVE  TargetInv'
<1>0. t \in Tasks /\ Calls \subseteq Tasks
  BY DEF Writers, Tasks
<1>1. CASE Running /\ Proceed(t, process, child[process]) /\ UNCHANGED <<procVars, outbox>>
  <2>1. process \in Subprocesses
    BY <1>1 DEF SafetyInv, TypeOK, Running
  <2>. QED  BY <1>1, <2>1, TargetProceed DEF procVars
<1>2. CASE /\ BeginCleanup(pending, future, [pc EXCEPT ![t] = "ensure"])
           /\ UNCHANGED <<answer, target, pipeVars>>
  <2>. DEFINE at == [pc EXCEPT ![t] = "ensure"]
  <2>1. \A c \in Calls : at[c] \in {"idle", "ensure"} => Fresh(c) /\ future[c] = future[c]
    BY <1>0 DEF Fresh, SafetyInv, TypeOK
  <2>2. FailPending(pending, future, at, "stopped")
    BY <1>2 DEF BeginCleanup
  <2>. HIDE DEF at
  <2>. QED  BY <1>2, <2>1, <2>2, TargetFailPending
<1>. QED  BY <1>1, <1>2 DEF RunEnsure

LEMMA TargetRestart ==
  ASSUME SafetyInv, TargetInv, NEW t \in Tasks, NEW rest, NEW p, NEW f,
         \A c \in Calls : Fresh(c) => f[c] = future[c], RunRestart(t, rest, p, f)
  PROVE  TargetInv'
<1>. DEFINE at == [pc EXCEPT ![t] = "restart"]
<1>1. \A c \in Calls : at[c] \in {"idle", "ensure"} => Fresh(c) /\ f[c] = future[c]
  BY DEF Fresh, SafetyInv, TypeOK, Tasks
<1>2. FailPending(p, f, at, "stopped") /\ UNCHANGED <<answer, target, pipeVars>>
  BY DEF BeginCleanup, RunRestart
<1>. HIDE DEF at
<1>. QED  BY <1>1, <1>2, TargetFailPending

LEMMA TargetClose ==
  ASSUME SafetyInv, TargetInv, NEW t \in Tasks, NEW rest, RunClose(t, rest)
  PROVE  TargetInv'
<1>1. PICK how \in {"close", "done"} :
        FailPending(pending, future, [pc EXCEPT ![t] = how], "stopped")
  BY DEF RunClose, BeginCleanup
<1>. DEFINE at == [pc EXCEPT ![t] = how]
<1>2. \A c \in Calls : at[c] \in {"idle", "ensure"} => Fresh(c) /\ future[c] = future[c]
  BY DEF Fresh, SafetyInv, TypeOK, Tasks
<1>3. FailPending(pending, future, at, "stopped") /\ UNCHANGED <<answer, target, pipeVars>>
  BY <1>1 DEF RunClose
<1>. HIDE DEF at
<1>. QED  BY <1>2, <1>3, TargetFailPending

LEMMA TargetWrite ==
  ASSUME SafetyInv, TargetInv, WriteLine \/ DrainReturns
  PROVE  TargetInv'
<1>. DEFINE t == Head(writeLock)
<1>1. t \in Tasks /\ Calls \subseteq Tasks
  BY HeadTailProperties DEF SafetyInv, TypeOK, Writers, Tasks, WriteLine, DrainReturns
<1>2. /\ \A i \in Ids : pending'[i] \in {pending[i], NoCall}
      /\ \A u \in Tasks : pc'[u] \in {"idle", "ensure"} => pc'[u] = pc[u]
  <2>1. CASE Written(t)
    BY <1>1, <2>1 DEF Written, Pop, SafetyInv, TypeOK, Raised
  <2>2. CASE pc' = [pc EXCEPT ![t] = "drain"] /\ UNCHANGED pending
    BY <1>1, <2>2 DEF SafetyInv, TypeOK
  <2>. QED  BY <2>1, <2>2 DEF WriteLine, DrainReturns
<1>3. UNCHANGED <<process, future, target, answer>>
  BY DEF WriteLine, DrainReturns, procVars, pipeVars
<1>4. \A g \in Subprocesses : \A c \in wire'[g] \cup outbox'[g] :
        c \in wire[g] \cup outbox[g] \/ target[c] = g
  <2>1. outbox' = outbox
        /\ (wire' = wire \/ wire' = [wire EXCEPT ![target[t]] = @ \cup {t}])
    BY DEF WriteLine, DrainReturns, PutLine, pipeVars
  <2>. QED  BY <2>1 DEF SafetyInv, TypeOK
<1>5. \A c \in Calls : pc'[c] \in {"idle", "ensure"} => Fresh(c) /\ future'[c] = future[c]
  BY <1>1, <1>2, <1>3 DEF Fresh
<1>. QED  BY <1>2, <1>3, <1>4, <1>5, TargetQuiet

LEMMA TargetGoRestart ==
  ASSUME SafetyInv, TargetInv, NEW t \in Tasks, NEW p, NEW f,
         \A i \in Ids : p[i] \in {pending[i], NoCall},
         \A c \in Calls : Fresh(c) => f[c] = future[c], GoRestart(t, p, f)
  PROVE  TargetInv'
<1>0. Calls \subseteq Tasks
  BY DEF Tasks
<1>1. CASE RunRestart(t, <<>>, p, f)
  BY <1>1, TargetRestart
<1>2. CASE /\ pc' = [pc EXCEPT ![t] = "restart"] /\ pending' = p /\ future' = f
           /\ UNCHANGED <<process, answer, target, pipeVars>>
  <2>1. \A c \in Calls : pc'[c] \in {"idle", "ensure"}
                         => Fresh(c) /\ future'[c] = future[c]
    BY <1>0, <1>2 DEF Fresh, SafetyInv, TypeOK
  <2>2. \A i \in Ids : pending'[i] \in {pending[i], NoCall}
    BY <1>2
  <2>3. UNCHANGED <<process, target, answer, wire, outbox>>
    BY <1>2 DEF pipeVars
  <2>. QED  BY <2>1, <2>2, <2>3, TargetQuiet
<1>. QED  BY <1>1, <1>2 DEF GoRestart, procVars

LEMMA TargetDrainFails ==
  ASSUME SafetyInv, TargetInv, DrainFails
  PROVE  TargetInv'
<1>. DEFINE t == Head(writeLock)
            p == Pop(pending, t)
            f == [future EXCEPT ![t] = IF @ = "open" THEN "dropped" ELSE @]
<1>1. t \in Tasks /\ Calls \subseteq Tasks /\ pc[t] = "drain"
  BY HeadTailProperties DEF SafetyInv, TypeOK, Writers, Tasks, DrainFails
<1>2. \A c \in Calls : Fresh(c) => f[c] = future[c]
  BY <1>1 DEF SafetyInv, TypeOK, Fresh
<1>3. CASE GoRestart(t, p, f)
  <2>1. \A i \in Ids : p[i] \in {pending[i], NoCall}
    BY DEF Pop, SafetyInv, TypeOK
  <2>. HIDE DEF p, f
  <2>. QED  BY <1>1, <1>2, <1>3, <2>1, TargetGoRestart
<1>4. CASE /\ pc' = [pc EXCEPT ![t] = "unavailable"]
           /\ UNCHANGED <<callVars, process, target, pipeVars>>
  <2>1. \A c \in Calls : pc'[c] \in {"idle", "ensure"}
                         => Fresh(c) /\ future'[c] = future[c]
    BY <1>1, <1>4 DEF Fresh, SafetyInv, TypeOK, callVars
  <2>2. UNCHANGED <<process, pending, target, answer, wire, outbox>>
    BY <1>4 DEF callVars, pipeVars
  <2>. QED  BY <2>1, <2>2, TargetQuiet
<1>. QED  BY <1>3, <1>4 DEF DrainFails, procVars

LEMMA TargetRaise ==
  ASSUME SafetyInv, TargetInv, WriteRaises \/ \E c \in Calls : Raise(c)
  PROVE  TargetInv'
<1>1. PICK t \in Calls : GoRestart(t, Pop(pending, t), future)
  BY DEF WriteRaises, Raise
<1>2. \A i \in Ids : Pop(pending, t)[i] \in {pending[i], NoCall}
  BY DEF Pop, SafetyInv, TypeOK
<1>. QED  BY <1>1, <1>2, TargetGoRestart DEF Tasks

\* The response that settles a future comes from the stdout of process.
LEMMA TargetDelivers ==
  ASSUME SafetyInv, TargetInv, ReaderDelivers
  PROVE  TargetInv'
<1>1. PICK d \in outbox[process] :
        /\ outbox' = [outbox EXCEPT ![process] = @ \ {d}]
        /\ pending' = Pop(pending, d)
        /\ LET c == pending[IdOf[d]] IN
           IF c # NoCall /\ future[c] = "open"
           THEN /\ future' = [future EXCEPT ![c] = "result"]
                /\ answer' = [answer EXCEPT ![c] = d]
           ELSE UNCHANGED <<future, answer>>
  BY DEF ReaderDelivers
<1>2. process \in Subprocesses /\ d \in Calls /\ IdOf[d] \in Ids
  BY <1>1, ConstantsAssumption DEF ReaderDelivers, SafetyInv, TypeOK, LockInv
<1>3. UNCHANGED <<process, target, wire, pc>>
  BY DEF ReaderDelivers, procVars
<1>4. \A i \in Ids : pending'[i] \in {pending[i], NoCall}
  BY <1>1 DEF Pop, SafetyInv, TypeOK
<1>5. \A g \in Subprocesses : outbox'[g] \subseteq outbox[g]
  BY <1>1 DEF SafetyInv, TypeOK
<1>6. target[d] = process /\ process # NoProcess
  BY <1>1, <1>2, ConstantsAssumption DEF TargetInv
<1>. DEFINE c == pending[IdOf[d]]
<1>7. \A k \in Calls : k # c \/ c = NoCall => future'[k] = future[k] /\ answer'[k] = answer[k]
  BY <1>1 DEF SafetyInv, TypeOK
<1>8. c # NoCall => c \in Calls /\ target[c] = process /\ answer'[c] \in {answer[c], d}
  BY <1>1, <1>2 DEF TargetInv, SafetyInv, TypeOK
<1>9. \A k \in Calls : Fresh(k) => target[k] = NoProcess /\ future'[k] = "none"
  BY <1>6, <1>7, <1>8 DEF TargetInv
<1>10. \A i \in Ids : pending'[i] # NoCall
         => process # NoProcess /\ target[pending'[i]] = process
  BY <1>4 DEF TargetInv
<1>11. \A k \in Calls : answer'[k] # NoCall
         => target[k] # NoProcess /\ target[answer'[k]] = target[k]
  BY <1>6, <1>7, <1>8 DEF TargetInv
<1>12. \A g \in Subprocesses : \A k \in wire'[g] \cup outbox'[g] : target[k] = g
  BY <1>3, <1>5 DEF TargetInv
<1>. QED  BY <1>3, <1>9, <1>10, <1>11, <1>12 DEF TargetInv, Fresh

LEMMA InitTarget == Init => TargetInv
BY DEF Init, TargetInv, Fresh, NoPending, Writers

LEMMA StepTarget == SafetyInv /\ TargetInv /\ [Next]_vars => TargetInv'
<1>. SUFFICES ASSUME SafetyInv, TargetInv, [Next]_vars PROVE TargetInv'
  OBVIOUS
<1>0. Calls \subseteq Tasks /\ Writers \subseteq Tasks
  BY DEF Tasks, Writers
<1>1. ASSUME NEW t \in Tasks, NEW at \in {"ensure", "restart", "close"}, Arrive(t, at)
      PROVE  TargetInv'
  <2>1. \A c \in Calls : pc'[c] \in {"idle", "ensure"}
                         => Fresh(c) /\ future'[c] = future[c]
    BY <1>0, <1>1 DEF Arrive, Fresh, SafetyInv, TypeOK, callVars
  <2>2. UNCHANGED <<process, pending, wire, outbox, target, answer>>
    BY <1>1 DEF Arrive, procVars, callVars, pipeVars
  <2>. QED  BY <2>1, <2>2, TargetQuiet
<1>2. ASSUME NEW t \in Writers, Request(t) PROVE TargetInv'
  BY <1>0, <1>1, <1>2, TargetEnsure DEF Request
<1>3. ASSUME NEW t \in Recycles, Restart(t) PROVE TargetInv'
  BY <1>1, <1>3, TargetRestart DEF Restart, Tasks
<1>4. ASSUME NEW t \in Closes, Close(t) PROVE TargetInv'
  BY <1>1, <1>4, TargetClose DEF Close, Tasks
<1>5. ASSUME Enter PROVE TargetInv'
  <2>1. Head(lifecycle) \in Tasks
    BY <1>5, HeadTailProperties DEF Enter, SafetyInv, TypeOK
  <2>2. pc[Head(lifecycle)] = "ensure" => Head(lifecycle) \in Writers
    BY <2>1 DEF SafetyInv, LockInv
  <2>. QED  BY <1>5, <2>1, <2>2, TargetEnsure, TargetRestart, TargetClose DEF Enter
<1>6. ASSUME StartOk PROVE TargetInv'
  <2>. DEFINE t == Head(lifecycle)
  <2>1. t \in Tasks /\ (pc[t] = "ensure" => t \in Writers) /\ pending = NoPending
    BY <1>6, HeadTailProperties DEF StartOk, SafetyInv, TypeOK, LockInv,
                                    RecyclingHasNoPending
  <2>2. outbox' = outbox
    BY <1>6 DEF StartOk
  <2>3. PICK g \in Subprocesses, st \in {"up", "exited"} :
          /\ process' = g
          /\ \/ pc[t] = "ensure" /\ Proceed(t, g, st)
             \/ /\ pc' = [pc EXCEPT ![t] = IF t \in Calls THEN "unavailable" ELSE "done"]
                /\ UNCHANGED <<callVars, target, wire, writeLock>>
    BY <1>6 DEF StartOk
  <2>4. CASE pc[t] = "ensure" /\ Proceed(t, g, st)
    BY <2>1, <2>2, <2>3, <2>4, TargetProceed
  <2>5. CASE /\ pc' = [pc EXCEPT ![t] = IF t \in Calls THEN "unavailable" ELSE "done"]
             /\ UNCHANGED <<callVars, target, wire>>
    <3>1. \A c \in Calls : pc'[c] \in {"idle", "ensure"}
                           => Fresh(c) /\ future'[c] = future[c]
      BY <1>0, <2>1, <2>5 DEF Fresh, SafetyInv, TypeOK, callVars
    <3>2. UNCHANGED <<pending, wire, outbox, target, answer>> /\ pending' = NoPending
      BY <2>1, <2>2, <2>5 DEF callVars
    <3>. QED  BY <3>1, <3>2, TargetQuiet
  <2>. QED  BY <2>3, <2>4, <2>5
<1>7. ASSUME GatherDone \/ WaitDone \/ Kill \/ StartFails PROVE TargetInv'
  <2>1. lifecycle # <<>> /\ Head(lifecycle) \in Tasks /\ pending = NoPending
    BY <1>7, HeadTailProperties DEF GatherDone, WaitDone, Kill, StartFails, SafetyInv,
                                    TypeOK, LockInv, RecyclingHasNoPending
  <2>2. \A c \in Calls : pc'[c] \in {"idle", "ensure"} => Fresh(c)
    BY <1>0, <1>7, <2>1 DEF GatherDone, WaitDone, Kill, StartFails, Cleaned, Fresh,
                            SafetyInv, TypeOK
  <2>3. UNCHANGED <<callVars, target, outbox>>
    BY <1>7 DEF GatherDone, WaitDone, Kill, StartFails, pipeVars
  <2>4. \A g \in Subprocesses : wire'[g] \subseteq wire[g]
    BY <1>7 DEF GatherDone, WaitDone, Kill, Die, StartFails, pipeVars, SafetyInv, TypeOK
  <2>. QED  BY <2>1, <2>2, <2>3, <2>4, TargetQuiet DEF callVars
<1>8. ASSUME WriteLine \/ DrainReturns PROVE TargetInv'
  BY <1>8, TargetWrite
<1>9. ASSUME DrainFails PROVE TargetInv'
  BY <1>9, TargetDrainFails
<1>10. ASSUME NEW c \in Calls, Return(c) \/ Timeout(c) PROVE TargetInv'
  <2>1. UNCHANGED <<process, wire, outbox, target, answer>>
    BY <1>10 DEF Return, Timeout, procVars, callVars, pipeVars
  <2>2. \A i \in Ids : pending'[i] \in {pending[i], NoCall}
    BY <1>10 DEF Return, Timeout, Pop, callVars, SafetyInv, TypeOK
  <2>3. \A k \in Calls : pc'[k] \in {"idle", "ensure"}
                         => Fresh(k) /\ future'[k] = future[k]
    BY <1>0, <1>10 DEF Return, Timeout, Fresh, callVars, SafetyInv, TypeOK
  <2>. QED  BY <2>1, <2>2, <2>3, TargetQuiet
<1>11. ASSUME ChildAnswers \/ ChildDies \/ ExitNoticed PROVE TargetInv'
  <2>1. UNCHANGED <<process, callVars, target, pc>>
    BY <1>11 DEF ChildAnswers, ChildDies, ExitNoticed, procVars
  <2>2. \A g \in Subprocesses : wire'[g] \cup outbox'[g] \subseteq wire[g] \cup outbox[g]
    BY <1>11 DEF ChildAnswers, ChildDies, ExitNoticed, Die, SafetyInv, TypeOK, pipeVars
  <2>. QED  BY <2>1, <2>2, TargetQuiet DEF callVars, Fresh
<1>12. ASSUME ReaderDelivers PROVE TargetInv'
  BY <1>12, TargetDelivers
<1>13. ASSUME ReaderCrash \/ ExitReported PROVE TargetInv'
  <2>1. \A c \in Calls : pc[c] \in {"idle", "ensure"} => Fresh(c) /\ future[c] = future[c]
    BY DEF Fresh
  <2>. QED  BY <1>13, <2>1, TargetFailPending DEF ReaderCrash, ExitReported
<1>14. ASSUME ReaderEof \/ UNCHANGED vars PROVE TargetInv'
  BY <1>14, TargetQuiet DEF ReaderEof, vars, procVars, callVars, pipeVars, Fresh
<1>15. ASSUME WriteRaises \/ \E c \in Calls : Raise(c) PROVE TargetInv'
  BY <1>15, TargetRaise
<1>. QED
  BY <1>2, <1>3, <1>4, <1>5, <1>6, <1>7, <1>8, <1>9, <1>10, <1>11, <1>12, <1>13, <1>14,
     <1>15 DEF Next

\* Whatever ids clients choose, and however often the process is recycled, an
\* answer comes from the subprocess the call was written to.
THEOREM AnswersAreNotStale == Spec => []AnswerFromSameProcess
<1>1. TargetInv => AnswerFromSameProcess
  BY DEF TargetInv, AnswerFromSameProcess
<1>. QED  BY InitSafe, StepSafe, InitTarget, StepTarget, <1>1, PTL DEF Spec
=============================================================================
