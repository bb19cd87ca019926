-------------------------- MODULE CallPromise_proofs --------------------------
(***************************************************************************)
(* Proofs that ManagedProcess keeps the promise of CallPromise, for any    *)
(* tasks, ids and subprocesses, to every call whose id is its own: its     *)
(* open future is in _pending whatever drains, recycles, crashes, timeouts *)
(* and calls with shared ids come between.  A call whose id another uses   *)
(* too may lose its entry to it, and is promised nothing but its deadline. *)
(***************************************************************************)
EXTENDS ManagedProcess_proofs

-----------------------------------------------------------------------------
\* The id of an owner is no other call's.
LEMMA OwnersApart ==
  /\ Owners \subseteq Calls
  /\ \A c \in Owners, d \in Calls : IdOf[d] = IdOf[c] => d = c
  /\ \A c \in Calls : OwnId(c) => c \in Owners
BY DEF Owners, OwnId

(***************************************************************************)
(* RegistryInv is kept by every step that registers nothing and takes out  *)
(* only what it settles...                                                 *)
(***************************************************************************)
LEMMA RegistryQuiet ==
  ASSUME RegistryInv,
         \A i \in Ids : pending'[i] \in {pending[i], NoCall},
         \A c \in Owners : future'[c] = "open"
           => future[c] = "open" /\ pending'[IdOf[c]] = pending[IdOf[c]],
         waiter' = "done" => /\ waiter = "done" /\ process' = process
                             /\ child[process] = "exited" => child'[process] = "exited"
  PROVE  RegistryInv'
<1>1. \A i \in Ids : pending'[i] # NoCall => IdOf[pending'[i]] = i
  BY DEF RegistryInv
<1>2. OwnIsPending'
  BY DEF RegistryInv, OwnIsPending, Registered
<1>3. (waiter = "done" => child[process] = "exited")'
  BY DEF RegistryInv
<1>4. NobodyAwaitsTheDead'
  BY OwnersApart DEF RegistryInv, NobodyAwaitsTheDead, OwnId
<1>. QED  BY <1>1, <1>2, <1>3, <1>4 DEF RegistryInv

\* ... by those that fail everything pending...
LEMMA RegistryFailPending ==
  ASSUME NEW p, NEW f, NEW at, NEW why \in {"stopped", "broken", "runtime"},
         FailPending(p, f, at, why),
         \A c \in Owners : f[c] = "open" => Registered(p, c),
         waiter' = "done" => child'[process'] = "exited"
  PROVE  RegistryInv' /\ \A c \in Owners : future'[c] # "open"
<1>1. pending' = NoPending
  BY DEF FailPending
<1>2. \A c \in Owners : future'[c] # "open"
  BY OwnersApart DEF FailPending
<1>3. \A i \in Ids : pending'[i] = NoCall
  BY <1>1 DEF NoPending
<1>. QED  BY <1>2, <1>3, OwnersApart DEF RegistryInv, OwnIsPending, NobodyAwaitsTheDead, OwnId

\* ... and by a call that registers while the process is not reported dead.
LEMMA RegistryProceed ==
  ASSUME SafetyInv, RegistryInv, NEW t \in Writers, NEW g, NEW st,
         Proceed(t, g, st), waiter' # "done"
  PROVE  RegistryInv'
<1>. USE ConstantsAssumption
<1>1. CASE Duplicate(t)
  BY <1>1, RegistryQuiet DEF Duplicate, callVars
<1>2. CASE NotRunning(t, st)
  <2>1. \A c \in Calls : future'[c] = "open" => future[c] = "open"
    BY <1>2 DEF NotRunning, SafetyInv, TypeOK
  <2>. QED  BY <1>2, <2>1, OwnersApart, RegistryQuiet DEF NotRunning
<1>3. CASE StartWriting(t, g, st) /\ t \notin Calls
  BY <1>3, RegistryQuiet DEF StartWriting
<1>4. CASE StartWriting(t, g, st) /\ t \in Calls
  <2>1. /\ pending' = [pending EXCEPT ![IdOf[t]] = t]
        /\ future' = [future EXCEPT ![t] = "open"]
    BY <1>4 DEF StartWriting
  <2>2. \A i \in Ids : pending'[i] # NoCall => IdOf[pending'[i]] = i
    BY <1>4, <2>1 DEF RegistryInv, SafetyInv, TypeOK
  <2>3. \A c \in Owners : future'[c] = "open" => pending'[IdOf[c]] = c
    <3>. SUFFICES ASSUME NEW c \in Owners, future'[c] = "open", c # t
                  PROVE  pending'[IdOf[c]] = c
      BY <1>4, <2>1 DEF SafetyInv, TypeOK
    <3>0. c \in Calls
      BY OwnersApart
    <3>1. future[c] = "open"
      BY <2>1, <3>0 DEF SafetyInv, TypeOK
    <3>2. pending[IdOf[c]] = c
      BY <3>1 DEF RegistryInv, OwnIsPending, Registered
    <3>3. IdOf[c] # IdOf[t]
      BY <1>4, OwnersApart
    <3>. QED  BY <2>1, <3>0, <3>2, <3>3 DEF SafetyInv, TypeOK
  <2>. QED  BY <2>2, <2>3 DEF RegistryInv, OwnIsPending, Registered,
                              NobodyAwaitsTheDead
<1>. QED  BY <1>1, <1>2, <1>3, <1>4 DEF Proceed

-----------------------------------------------------------------------------
\* A call takes the entry of its id out, which is no other owner's.
LEMMA PopOwn ==
  ASSUME SafetyInv, NEW t \in Calls
  PROVE  /\ Pop(pending, t) \in PendingType
         /\ \A i \in Ids : Pop(pending, t)[i] \in {pending[i], NoCall}
         /\ \A c \in Owners : c # t => Pop(pending, t)[IdOf[c]] = pending[IdOf[c]]
<1>. USE ConstantsAssumption
<1>1. pending \in PendingType /\ IdOf[t] \in Ids
  BY DEF SafetyInv, TypeOK, PendingType
<1>2. \A c \in Owners : c # t => IdOf[c] # IdOf[t] /\ IdOf[c] \in Ids
  BY OwnersApart
<1>. QED  BY <1>1, <1>2 DEF Pop, PendingType

\* What is open is registered, whoever is about to be failed.
LEMMA OpenIsRegistered ==
  RegistryInv => \A c \in Owners : future[c] = "open" => Registered(pending, c)
BY DEF RegistryInv, OwnIsPending

LEMMA RegistryEnsure ==
  ASSUME SafetyInv, RegistryInv, NEW t \in Writers, NEW rest,
         RunEnsure(t, rest)
  PROVE  RegistryInv'
<1>1. CASE Running /\ Proceed(t, process, child[process]) /\ UNCHANGED procVars
  <2>1. waiter' # "done"
    BY <1>1 DEF Running, RegistryInv, procVars
  <2>. QED  BY <1>1, <2>1, RegistryProceed
<1>2. CASE BeginCleanup(pending, future, [pc EXCEPT ![t] = "ensure"])
  BY <1>2, OpenIsRegistered, RegistryFailPending DEF BeginCleanup
<1>. QED  BY <1>1, <1>2 DEF RunEnsure

LEMMA RegistryRestart ==
  ASSUME NEW t, NEW rest, NEW p, NEW f, RunRestart(t, rest, p, f),
         \A c \in Owners : f[c] = "open" => Registered(p, c)
  PROVE  RegistryInv'
BY RegistryFailPending DEF RunRestart, BeginCleanup

LEMMA RegistryClose ==
  ASSUME RegistryInv, NEW t, NEW rest, RunClose(t, rest)
  PROVE  RegistryInv'
<1>1. CASE BeginCleanup(pending, future, [pc EXCEPT ![t] = "close"])
  BY <1>1, OpenIsRegistered, RegistryFailPending DEF BeginCleanup
<1>2. CASE /\ FailPending(pending, future, [pc EXCEPT ![t] = "done"], "stopped")
           /\ UNCHANGED procVars
  BY <1>2, OpenIsRegistered, RegistryFailPending DEF procVars, RegistryInv
<1>. QED  BY <1>1, <1>2 DEF RunClose

LEMMA RegistryWrite ==
  ASSUME SafetyInv, RegistryInv, WriteLine \/ DrainReturns
  PROVE  RegistryInv'
<1>. DEFINE t == Head(writeLock)
<1>1. UNCHANGED <<procVars, future>>
  BY DEF WriteLine, DrainReturns
<1>2. pending' = pending \/ (t \in Calls /\ future[t] = "stopped" /\ pending' = Pop(pending, t))
  BY DEF WriteLine, DrainReturns, Written
<1>3. CASE pending' = pending
  BY <1>1, <1>3, RegistryQuiet DEF procVars
<1>4. CASE t \in Calls /\ future[t] = "stopped" /\ pending' = Pop(pending, t)
  <2>. HIDE DEF t
  <2>. QED  BY <1>1, <1>4, PopOwn, RegistryQuiet DEF procVars
<1>. QED  BY <1>2, <1>3, <1>4

\* The call whose write failed has given up its entry before it restarts.
LEMMA GivenUp ==
  ASSUME SafetyInv, RegistryInv, NEW t \in Calls,
         NEW f, f = [future EXCEPT ![t] = IF @ = "open" THEN "dropped" ELSE @]
  PROVE  \A c \in Owners : f[c] = "open" => /\ future[c] = "open" /\ c # t
                                            /\ Registered(Pop(pending, t), c)
<1>. SUFFICES ASSUME NEW c \in Owners, f[c] = "open"
              PROVE  future[c] = "open" /\ c # t /\ Registered(Pop(pending, t), c)
  OBVIOUS
<1>1. future[c] = "open" /\ c # t
  BY OwnersApart DEF SafetyInv, TypeOK
<1>. QED  BY <1>1, PopOwn, OpenIsRegistered DEF Registered

\* A call that restarts the process waits for the lifecycle lock or takes it.
LEMMA RegistryGoRestart ==
  ASSUME SafetyInv, RegistryInv, NEW t \in Calls, NEW f,
         \A c \in Owners : f[c] = "open" => /\ future[c] = "open" /\ c # t
                                            /\ Registered(Pop(pending, t), c),
         GoRestart(t, Pop(pending, t), f)
  PROVE  RegistryInv'
<1>. DEFINE p == Pop(pending, t)
<1>1. CASE RunRestart(t, <<>>, p, f)
  <2>1. \A c \in Owners : f[c] = "open" => Registered(p, c)
    OBVIOUS
  <2>. HIDE DEF p
  <2>. QED  BY <1>1, <2>1, RegistryRestart
<1>2. CASE pending' = p /\ future' = f /\ UNCHANGED procVars
  <2>1. /\ \A i \in Ids : p[i] \in {pending[i], NoCall}
        /\ \A c \in Owners : c # t => p[IdOf[c]] = pending[IdOf[c]]
    BY <1>2, PopOwn
  <2>. HIDE DEF p
  <2>. QED  BY <1>2, <2>1, RegistryQuiet DEF procVars
<1>. QED  BY <1>1, <1>2 DEF GoRestart

LEMMA RegistryDrainFails ==
  ASSUME SafetyInv, RegistryInv, DrainFails
  PROVE  RegistryInv'
<1>. DEFINE t == Head(writeLock)
            f == [future EXCEPT ![t] = IF @ = "open" THEN "dropped" ELSE @]
<1>1. CASE UNCHANGED <<procVars, callVars>>
  BY <1>1, RegistryQuiet DEF procVars, callVars
<1>2. CASE t \in Calls /\ GoRestart(t, Pop(pending, t), f)
  BY <1>2, GivenUp, RegistryGoRestart
<1>. QED  BY <1>1, <1>2 DEF DrainFails

\* What a call that meets the RuntimeError of the stdout loop takes out is its
\* own.
LEMMA RaisesOwn ==
  ASSUME SafetyInv, RegistryInv, WriteRaises \/ \E c \in Calls : Raise(c)
  PROVE  \E t \in Calls :
           /\ GoRestart(t, Pop(pending, t), future)
           /\ \A c \in Owners : future[c] = "open"
                => c # t /\ Registered(Pop(pending, t), c)
<1>1. PICK t \in Calls : future[t] = "runtime" /\ GoRestart(t, Pop(pending, t), future)
  BY DEF WriteRaises, Raise
<1>2. \A c \in Owners : future[c] = "open" => c # t /\ Registered(Pop(pending, t), c)
  BY <1>1, PopOwn, OpenIsRegistered DEF Registered
<1>. QED  BY <1>1, <1>2

LEMMA RegistryRaise ==
  ASSUME SafetyInv, RegistryInv, WriteRaises \/ \E c \in Calls : Raise(c)
  PROVE  RegistryInv'
BY RaisesOwn, RegistryGoRestart

\* Of the owners, a response settles the call it was written by and no other.
LEMMA Delivered ==
  ASSUME SafetyInv, RegistryInv, ReaderDelivers
  PROVE  \E d \in Calls :
           /\ pending' = Pop(pending, d)
           /\ \A c \in Owners : c # d => future'[c] = future[c]
           /\ d \in Owners => \/ future[d] = "open" /\ future'[d] = "result"
                              \/ future[d] # "open" /\ future'[d] = future[d]
<1>1. PICK d \in outbox[process] :
        /\ pending' = Pop(pending, d)
        /\ LET c == pending[IdOf[d]] IN
           IF c # NoCall /\ future[c] = "open"
           THEN future' = [future EXCEPT ![c] = "result"]
           ELSE UNCHANGED future
  BY DEF ReaderDelivers
<1>2. process \in Subprocesses
  BY DEF ReaderDelivers, SafetyInv, TypeOK, LockInv
<1>3. d \in Calls /\ IdOf[d] \in Ids
  BY <1>1, <1>2, ConstantsAssumption DEF SafetyInv, TypeOK
<1>. DEFINE e == pending[IdOf[d]]
<1>4. e # NoCall => e \in Calls /\ IdOf[e] = IdOf[d]
  BY <1>3 DEF SafetyInv, TypeOK, RegistryInv
<1>5. \A c \in Owners : c = e /\ e # NoCall => c = d
  BY <1>3, <1>4, OwnersApart
<1>6. \A c \in Owners : c # d => future'[c] = future[c]
  BY <1>1, <1>4, <1>5, OwnersApart DEF SafetyInv, TypeOK
<1>7. d \in Owners => \/ future[d] = "open" /\ future'[d] = "result"
                      \/ future[d] # "open" /\ future'[d] = future[d]
  <2>1. d \in Owners /\ future[d] = "open" => e = d /\ e # NoCall
    BY <1>3, OpenIsRegistered, ConstantsAssumption DEF Registered
  <2>2. d \in Owners /\ e # NoCall => e = d
    BY <1>3, <1>4, OwnersApart
  <2>. QED  BY <1>1, <1>3, <1>4, <2>1, <2>2 DEF SafetyInv, TypeOK
<1>. QED  BY <1>1, <1>3, <1>6, <1>7

LEMMA RegistryDelivers ==
  ASSUME SafetyInv, RegistryInv, ReaderDelivers
  PROVE  RegistryInv'
<1>1. PICK d \in Calls :
        /\ pending' = Pop(pending, d)
        /\ \A c \in Owners : c # d => future'[c] = future[c]
        /\ d \in Owners => \/ future[d] = "open" /\ future'[d] = "result"
                           \/ future[d] # "open" /\ future'[d] = future[d]
  BY Delivered
<1>2. \A c \in Owners : future'[c] = "open" => future[c] = "open" /\ c # d
  BY <1>1
<1>3. UNCHANGED procVars
  BY DEF ReaderDelivers
<1>. QED  BY <1>1, <1>2, <1>3, PopOwn, RegistryQuiet DEF procVars

LEMMA InitRegistry == Init => RegistryInv
BY OwnersApart DEF Init, RegistryInv, OwnIsPending, NobodyAwaitsTheDead, NoPending

LEMMA StepRegistry ==
  SafetyInv /\ RegistryInv /\ [Next]_vars => RegistryInv'
<1>. SUFFICES ASSUME SafetyInv, RegistryInv, [Next]_vars PROVE RegistryInv'
  OBVIOUS
<1>1. ASSUME NEW t, NEW at, Arrive(t, at) PROVE RegistryInv'
  BY <1>1, RegistryQuiet DEF Arrive, procVars, callVars
<1>2. ASSUME NEW t \in Writers, Request(t) PROVE RegistryInv'
  BY <1>1, <1>2, RegistryEnsure DEF Request
<1>3. ASSUME NEW t \in Recycles, Restart(t) PROVE RegistryInv'
  BY <1>1, <1>3, OpenIsRegistered, RegistryRestart DEF Restart
<1>4. ASSUME NEW t \in Closes, Close(t) PROVE RegistryInv'
  BY <1>1, <1>4, RegistryClose DEF Close
<1>5. ASSUME Enter PROVE RegistryInv'
  <2>1. Head(lifecycle) \in Tasks
    BY <1>5, HeadTailProperties DEF Enter, SafetyInv, TypeOK
  <2>2. pc[Head(lifecycle)] = "ensure" => Head(lifecycle) \in Writers
    BY <2>1 DEF SafetyInv, LockInv
  <2>. QED  BY <1>5, <2>1, <2>2, OpenIsRegistered, RegistryEnsure, RegistryRestart,
               RegistryClose DEF Enter
<1>6. ASSUME GatherDone \/ WaitDone \/ Kill \/ StartFails PROVE RegistryInv'
  <2>1. UNCHANGED <<pending, future, waiter>> /\ waiter # "done"
    BY <1>6 DEF GatherDone, WaitDone, Kill, StartFails, callVars, procVars, SafetyInv,
                LockInv
  <2>. QED  BY <2>1, RegistryQuiet
<1>7. ASSUME StartOk PROVE RegistryInv'
  <2>. DEFINE t == Head(lifecycle)
  <2>1. waiter' = "waiting" /\ (pc[t] = "ensure" => t \in Writers)
    BY <1>7, HeadTailProperties DEF StartOk, SafetyInv, TypeOK, LockInv
  <2>2. CASE \E g \in Subprocesses, st \in {"up", "exited"} :
               pc[t] = "ensure" /\ Proceed(t, g, st)
    BY <2>1, <2>2, RegistryProceed
  <2>3. CASE UNCHANGED callVars
    BY <2>1, <2>3, RegistryQuiet DEF callVars
  <2>. QED  BY <1>7, <2>2, <2>3 DEF StartOk
<1>8. ASSUME WriteLine \/ DrainReturns PROVE RegistryInv'
  BY <1>8, RegistryWrite
<1>9. ASSUME DrainFails PROVE RegistryInv'
  BY <1>9, RegistryDrainFails
<1>10. ASSUME NEW c \in Calls, Return(c) PROVE RegistryInv'
  BY <1>10, RegistryQuiet DEF Return, procVars, callVars
<1>11. ASSUME NEW c \in Calls, Timeout(c) PROVE RegistryInv'
  <2>1. \A k \in Owners : future'[k] = "open" => future[k] = "open" /\ k # c
    BY <1>11, GivenUp DEF Timeout
  <2>. QED  BY <1>11, <2>1, PopOwn, RegistryQuiet DEF Timeout, procVars
<1>12. ASSUME ChildAnswers \/ ChildDies \/ ExitNoticed PROVE RegistryInv'
  <2>1. UNCHANGED <<pending, future, waiter, process>>
    BY <1>12 DEF ChildAnswers, ChildDies, ExitNoticed, callVars, procVars
  <2>2. waiter = "done" /\ child[process] = "exited" => child'[process] = "exited"
    BY <1>12 DEF ChildAnswers, ChildDies, ExitNoticed, Die, procVars, SafetyInv, TypeOK,
                 LockInv
  <2>. QED  BY <2>1, <2>2, RegistryQuiet DEF RegistryInv
<1>13. ASSUME ReaderDelivers PROVE RegistryInv'
  BY <1>13, RegistryDelivers
<1>14. ASSUME ReaderEof \/ UNCHANGED vars PROVE RegistryInv'
  BY <1>14, RegistryQuiet DEF ReaderEof, vars, procVars, callVars
<1>15. ASSUME ReaderCrash PROVE RegistryInv'
  <2>1. waiter' = "done" => child'[process'] = "exited"
    BY <1>15 DEF ReaderCrash, RegistryInv
  <2>. QED  BY <1>15, <2>1, OpenIsRegistered, RegistryFailPending DEF ReaderCrash
<1>16. ASSUME ExitReported PROVE RegistryInv'
  BY <1>16, OpenIsRegistered, RegistryFailPending DEF ExitReported
<1>17. ASSUME WriteRaises \/ \E c \in Calls : Raise(c) PROVE RegistryInv'
  BY <1>17, RegistryRaise
<1>. QED
  BY <1>2, <1>3, <1>4, <1>5, <1>6, <1>7, <1>8, <1>9, <1>10, <1>11, <1>12, <1>13,
     <1>14, <1>15, <1>16, <1>17 DEF Next

\* A call with an id of its own is in _pending for as long as it waits, whatever
\* those that share ids take out of it (mcp_supervisor.py:132-168).
THEOREM OwnStaysPending == Spec => []OwnIsPending
<1>1. RegistryInv => OwnIsPending
  BY DEF RegistryInv
<1>. QED  BY InitSafe, StepSafe, InitRegistry, StepRegistry, <1>1, PTL DEF Spec

\* No such call is left waiting for a process whose exit was reported
\* (mcp_supervisor.py:386-390).
THEOREM TheDeadAreNotAwaited == Spec => []NobodyAwaitsTheDead
<1>1. RegistryInv => NobodyAwaitsTheDead
  BY DEF RegistryInv
<1>. QED  BY InitSafe, StepSafe, InitRegistry, StepRegistry, <1>1, PTL DEF Spec
-----------------------------------------------------------------------------
(***************************************************************************)
(* The refinement: each step of the bridge is a step of CallPromise or     *)
(* changes nothing of what it speaks of.                                   *)
(***************************************************************************)
Promised == [Promise!Next]_(Promise!promise)

LEMMA PromisedStutter ==
  ASSUME \A c \in Owners : future'[c] = future[c], Serving' = Serving
  PROVE  Promised
BY DEF Promised, Promise!promise

\* A call that is still fresh is accepted or turned away...
LEMMA PromisedAccept ==
  ASSUME NEW c \in Owners, future[c] = "none",
         \A d \in Owners : d # c => future'[d] = future[d],
         \/ future'[c] = "open" /\ Serving'
         \/ future'[c] = "dropped" /\ (~Serving \/ (Serving' = Serving))
  PROVE  Promised
<1>. DEFINE st == [d \in Owners |-> Status(future[d])]
<1>1. st[c] = "new"
  BY DEF Status
<1>2. CASE future'[c] = "open" /\ Serving'
  <2>1. st' = [st EXCEPT ![c] = "open"]
    BY <1>1, <1>2 DEF Status
  <2>. QED  BY <1>1, <1>2, <2>1 DEF Promised, Promise!Next, Promise!Accept
<1>3. CASE future'[c] = "dropped" /\ (~Serving \/ (Serving' = Serving))
  <2>1. st' = [st EXCEPT ![c] = "failed"]
    BY <1>1, <1>3 DEF Status
  <2>2. Serving \in {Serving', FALSE}
    BY <1>3 DEF Serving
  <2>. QED  BY <1>1, <2>1, <2>2 DEF Promised, Promise!Next, Promise!Reject
<1>. QED  BY <1>2, <1>3

\* ... one that is open is answered by a process in service, or gives up...
LEMMA PromisedSettle ==
  ASSUME NEW c \in Owners, future[c] = "open", Serving' = Serving,
         \A d \in Owners : d # c => future'[d] = future[d],
         (future'[c] = "result" /\ Serving) \/ future'[c] = "dropped"
  PROVE  Promised
<1>. DEFINE st == [d \in Owners |-> Status(future[d])]
<1>1. st[c] = "open"
  BY DEF Status
<1>2. CASE future'[c] = "result" /\ Serving
  <2>1. st' = [st EXCEPT ![c] = "answered"]
    BY <1>1, <1>2 DEF Status
  <2>. QED  BY <1>1, <1>2, <2>1 DEF Promised, Promise!Next, Promise!Answer
<1>3. CASE future'[c] = "dropped"
  <2>1. st' = [st EXCEPT ![c] = "failed"]
    BY <1>1, <1>3 DEF Status
  <2>. QED  BY <1>1, <2>1 DEF Promised, Promise!Next, Promise!GiveUp
<1>. QED  BY <1>2, <1>3

\* ... and _fail_pending leaves none open: all are registered, so all are failed.
LEMMA PromisedFailAll ==
  ASSUME NEW p, NEW f, NEW at, NEW why \in {"stopped", "broken", "runtime"},
         FailPending(p, f, at, why),
         \A c \in Owners : f[c] = future[c] \/ (future[c] = "open" /\ f[c] = "dropped"),
         \A c \in Owners : f[c] = "open" => Registered(p, c),
         (Serving' = Serving) \/ ~Serving'
  PROVE  Promised
<1>. DEFINE st == [d \in Owners |-> Status(future[d])]
<1>1. \A c \in Owners :
        \/ future[c] = "open" /\ future'[c] \in {"stopped", "broken", "runtime", "dropped"}
        \/ future[c] # "open" /\ future'[c] = future[c]
  BY OwnersApart DEF FailPending
<1>2. st' = [c \in Owners |-> IF st[c] = "open" THEN "failed" ELSE st[c]]
  BY <1>1 DEF Status
<1>3. Serving' \in {Serving, FALSE}
  BY DEF Serving
<1>. QED  BY <1>2, <1>3 DEF Promised, Promise!Next, Promise!FailAll

LEMMA PromisedProceed ==
  ASSUME TypeOK, TargetInv, NEW t \in Writers, pc[t] \in {"idle", "ensure"},
         NEW g, NEW st, Proceed(t, g, st),
         ~Serving \/ (Serving' = Serving), Serving'
  PROVE  Promised
<1>1. t \in Calls => future[t] = "none"
  BY DEF TargetInv, Fresh
<1>2. UNCHANGED future \/ (t \in Calls /\ \E s \in {"open", "dropped"} :
                             future' = [future EXCEPT ![t] = s])
  BY DEF Proceed, Duplicate, NotRunning, StartWriting, callVars
<1>3. CASE \A c \in Owners : future'[c] = future[c]
  <2>1. CASE Serving
    BY <1>3, <2>1, PromisedStutter
  <2>2. CASE ~Serving
    <3>1. UNCHANGED [c \in Owners |-> Status(future[c])]
      BY <1>3
    <3>. QED  BY <3>1 DEF Promised, Promise!Next, Promise!StartService
  <2>. QED  BY <2>1, <2>2
<1>4. CASE /\ t \in Owners /\ future'[t] \in {"open", "dropped"}
           /\ \A d \in Owners : d # t => future'[d] = future[d]
  BY <1>1, <1>4, OwnersApart, PromisedAccept
<1>. QED  BY <1>2, <1>3, <1>4, OwnersApart DEF TypeOK

LEMMA PromisedEnsure ==
  ASSUME SafetyInv, TargetInv, RegistryInv, phase = "free",
         NEW t \in Writers, pc[t] \in {"idle", "ensure"}, NEW rest, RunEnsure(t, rest)
  PROVE  Promised
<1>1. CASE Running /\ Proceed(t, process, child[process]) /\ UNCHANGED <<procVars, phase>>
  <2>1. Serving /\ Serving'
    BY <1>1 DEF Running, Serving, procVars
  <2>2. Serving' = Serving
    BY <2>1 DEF Serving
  <2>. QED  BY <1>1, <2>1, <2>2, PromisedProceed DEF SafetyInv
<1>2. CASE BeginCleanup(pending, future, [pc EXCEPT ![t] = "ensure"])
  <2>1. ~Serving'
    BY <1>2 DEF BeginCleanup, Serving
  <2>. QED  BY <1>2, <2>1, OpenIsRegistered, PromisedFailAll DEF BeginCleanup
<1>. QED  BY <1>1, <1>2 DEF RunEnsure

LEMMA PromisedRestart ==
  ASSUME NEW t, NEW rest, NEW p, NEW f, RunRestart(t, rest, p, f),
         \A c \in Owners : f[c] = future[c] \/ (future[c] = "open" /\ f[c] = "dropped"),
         \A c \in Owners : f[c] = "open" => Registered(p, c)
  PROVE  Promised
<1>1. ~Serving'
  BY DEF RunRestart, BeginCleanup, Serving
<1>. QED  BY <1>1, PromisedFailAll DEF RunRestart, BeginCleanup

LEMMA PromisedClose ==
  ASSUME TypeOK, RegistryInv, NEW t, NEW rest, RunClose(t, rest)
  PROVE  Promised
<1>1. PICK how \in {"close", "done"} :
        FailPending(pending, future, [pc EXCEPT ![t] = how], "stopped")
  BY DEF RunClose, BeginCleanup
<1>2. ~Serving'
  BY DEF RunClose, BeginCleanup, procVars, Serving
<1>. QED  BY <1>1, <1>2, OpenIsRegistered, PromisedFailAll

LEMMA PromisedDrainFails ==
  ASSUME SafetyInv, RegistryInv, DrainFails
  PROVE  Promised
<1>. DEFINE t == Head(writeLock)
            p == Pop(pending, t)
            f == [future EXCEPT ![t] = IF @ = "open" THEN "dropped" ELSE @]
<1>1. CASE UNCHANGED <<procVars, phase, callVars>>
  BY <1>1, PromisedStutter DEF procVars, callVars, Serving
<1>2. CASE t \in Calls /\ RunRestart(t, <<>>, p, f)
  <2>1. \A c \in Owners : f[c] = "open" => Registered(p, c)
    BY <1>2, GivenUp
  <2>2. \A c \in Owners : f[c] = future[c] \/ (future[c] = "open" /\ f[c] = "dropped")
    BY OwnersApart DEF SafetyInv, TypeOK
  <2>. HIDE DEF t, p, f
  <2>. QED  BY <1>2, <2>1, <2>2, PromisedRestart
<1>3. CASE t \in Calls /\ future' = f /\ UNCHANGED <<procVars, phase>>
  <2>1. Serving' = Serving
    BY <1>3 DEF procVars, Serving
  <2>2. CASE t \in Owners /\ future[t] = "open"
    BY <1>3, <2>1, <2>2, OwnersApart, PromisedSettle DEF SafetyInv, TypeOK
  <2>3. CASE t \notin Owners \/ future[t] # "open"
    BY <1>3, <2>1, <2>3, OwnersApart, PromisedStutter DEF SafetyInv, TypeOK
  <2>. QED  BY <2>2, <2>3
<1>. QED  BY <1>1, <1>2, <1>3 DEF DrainFails, GoRestart, lockVars

LEMMA PromisedRaise ==
  ASSUME SafetyInv, RegistryInv, WriteRaises \/ \E c \in Calls : Raise(c)
  PROVE  Promised
<1>1. PICK t \in Calls :
        /\ GoRestart(t, Pop(pending, t), future)
        /\ \A c \in Owners : future[c] = "open" => Registered(Pop(pending, t), c)
  BY RaisesOwn
<1>2. CASE RunRestart(t, <<>>, Pop(pending, t), future)
  BY <1>1, <1>2, PromisedRestart
<1>3. CASE future' = future /\ UNCHANGED <<procVars, phase>>
  BY <1>3, PromisedStutter DEF procVars, Serving
<1>. QED  BY <1>1, <1>2, <1>3 DEF GoRestart

LEMMA PromisedDelivers ==
  ASSUME SafetyInv, RegistryInv, ReaderDelivers
  PROVE  Promised
<1>1. Serving /\ UNCHANGED <<process, phase>>
  BY DEF ReaderDelivers, procVars, lockVars, SafetyInv, LockInv, Serving
<1>2. Serving' = Serving
  BY <1>1 DEF Serving
<1>. QED  BY <1>1, <1>2, Delivered, PromisedSettle, PromisedStutter

LEMMA StepPromised ==
  SafetyInv /\ TargetInv /\ RegistryInv /\ [Next]_vars => Promised
<1>. SUFFICES ASSUME SafetyInv, TargetInv, RegistryInv, [Next]_vars
              PROVE  Promised
  OBVIOUS
<1>0. lifecycle = <<>> => phase = "free"
  BY DEF SafetyInv, LockInv
<1>1. ASSUME NEW t, NEW at, Arrive(t, at) PROVE Promised
  BY <1>1, PromisedStutter DEF Arrive, procVars, callVars, Serving
<1>2. ASSUME NEW t \in Writers, Request(t) PROVE Promised
  BY <1>0, <1>1, <1>2, PromisedEnsure DEF Request
<1>3. ASSUME NEW t \in Recycles, Restart(t) PROVE Promised
  BY <1>1, <1>3, OpenIsRegistered, PromisedRestart DEF Restart, SafetyInv
<1>4. ASSUME NEW t \in Closes, Close(t) PROVE Promised
  BY <1>1, <1>4, PromisedClose DEF Close, SafetyInv
<1>5. ASSUME Enter PROVE Promised
  <2>1. Head(lifecycle) \in Tasks
    BY <1>5, HeadTailProperties DEF Enter, SafetyInv, TypeOK
  <2>2. pc[Head(lifecycle)] = "ensure" => Head(lifecycle) \in Writers
    BY <2>1 DEF SafetyInv, LockInv
  <2>. QED  BY <1>5, <2>1, <2>2, OpenIsRegistered, PromisedEnsure, PromisedRestart,
               PromisedClose DEF Enter, SafetyInv
<1>6. ASSUME GatherDone \/ WaitDone \/ Kill \/ StartFails PROVE Promised
  <2>1. ~Serving /\ ~Serving' /\ UNCHANGED future
    BY <1>6 DEF GatherDone, WaitDone, Kill, StartFails, Cleaned, callVars, procVars,
                SafetyInv, LockInv, Serving
  <2>2. Serving' = Serving
    BY <2>1 DEF Serving
  <2>. QED  BY <2>1, <2>2, PromisedStutter
<1>7. ASSUME StartOk PROVE Promised
  <2>. DEFINE t == Head(lifecycle)
  <2>1. t \in Tasks /\ (pc[t] = "ensure" => t \in Writers) /\ ~Serving
    BY <1>7, HeadTailProperties DEF StartOk, SafetyInv, TypeOK, LockInv, Serving
  <2>2. Serving'
    BY <1>7, ConstantsAssumption DEF StartOk, Serving
  <2>3. CASE \E g \in Subprocesses, st \in {"up", "exited"} :
               pc[t] = "ensure" /\ Proceed(t, g, st)
    BY <2>1, <2>2, <2>3, PromisedProceed DEF SafetyInv
  <2>4. CASE UNCHANGED callVars
    <3>1. UNCHANGED [c \in Owners |-> Status(future[c])]
      BY <2>4 DEF callVars
    <3>. QED  BY <2>2, <3>1 DEF Promised, Promise!Next, Promise!StartService
  <2>. QED  BY <1>7, <2>3, <2>4 DEF StartOk
<1>8. ASSUME WriteLine \/ DrainReturns \/ ChildAnswers \/ ChildDies \/ ExitNoticed
              \/ ReaderEof \/ UNCHANGED vars
      PROVE  Promised
  BY <1>8, PromisedStutter DEF WriteLine, DrainReturns, ChildAnswers, ChildDies,
     ExitNoticed, ReaderEof, vars, procVars, lockVars, callVars, Serving
<1>9. ASSUME DrainFails PROVE Promised
  BY <1>9, PromisedDrainFails
<1>10. ASSUME NEW c \in Calls, Return(c) PROVE Promised
  BY <1>10, PromisedStutter DEF Return, procVars, lockVars, callVars, Serving
<1>11. ASSUME NEW c \in Calls, Timeout(c) PROVE Promised
  <2>1. Serving' = Serving
    BY <1>11 DEF Timeout, procVars, lockVars, Serving
  <2>2. future' = [future EXCEPT ![c] = IF @ = "open" THEN "dropped" ELSE @]
    BY <1>11 DEF Timeout
  <2>3. CASE c \in Owners /\ future[c] = "open"
    BY <2>1, <2>2, <2>3, OwnersApart, PromisedSettle DEF SafetyInv, TypeOK
  <2>4. CASE c \notin Owners \/ future[c] # "open"
    BY <2>1, <2>2, <2>4, OwnersApart, PromisedStutter DEF SafetyInv, TypeOK
  <2>. QED  BY <2>3, <2>4
<1>12. ASSUME ReaderDelivers PROVE Promised
  BY <1>12, PromisedDelivers
<1>13. ASSUME ReaderCrash \/ ExitReported PROVE Promised
  <2>1. Serving' = Serving
    BY <1>13 DEF ReaderCrash, ExitReported, lockVars, Serving
  <2>. QED  BY <1>13, <2>1, OpenIsRegistered, PromisedFailAll DEF ReaderCrash,
                ExitReported, SafetyInv
<1>14. ASSUME WriteRaises \/ \E c \in Calls : Raise(c) PROVE Promised
  BY <1>14, PromisedRaise
<1>. QED
  BY <1>2, <1>3, <1>4, <1>5, <1>6, <1>7, <1>8, <1>9, <1>10, <1>11, <1>12, <1>13,
     <1>14 DEF Next

\* The bridge keeps the promise of CallPromise to every call with an id of its
\* own: it is answered only by a process in service, and does not outlive the
\* process it waits for (mcp_supervisor.py:112-200, 275-290, 386-404).
THEOREM BridgeKeepsPromise == Spec => KeepsPromise
<1>1. Init => Promise!Init
  BY OwnersApart DEF Init, Promise!Init, Serving, Status
<1>2. SafetyInv /\ TargetInv /\ RegistryInv /\ [Next]_vars
        => [Promise!Next]_(Promise!promise)
  BY StepPromised DEF Promised
<1>. QED  BY <1>1, <1>2, InitSafe, StepSafe, InitTarget, StepTarget, InitRegistry,
             StepRegistry, PTL DEF Spec, KeepsPromise, Promise!Spec
=============================================================================
