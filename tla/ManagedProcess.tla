--------------------------- MODULE ManagedProcess ---------------------------
(***************************************************************************)
(* ManagedMCPProcess (app/services/mcp_supervisor.py): the bridge between  *)
(* concurrent callers and ONE supervised MCP subprocess.                   *)
(*                                                                         *)
(* The gateway is a single asyncio loop, so an action is what a task runs  *)
(* between two suspension points: acquiring a contended lock, draining     *)
(* stdin, awaiting a future, a subprocess or a start.  Acquiring a free    *)
(* lock does not suspend; _pending_lock is never held across an await and  *)
(* needs no variable.  asyncio.Lock is FIFO, hence the two queues, whose   *)
(* head holds the lock or has been woken to take it.                       *)
(*                                                                         *)
(* Each request() call owns one future; the future is named by its call.   *)
(***************************************************************************)
EXTENDS Naturals, Sequences

CONSTANTS
  Calls,         \* calls of request()
  Notes,         \* calls of notify()
  Recycles,      \* calls of restart() made by the pool manager
  Closes,        \* calls of close() made by the pool manager
  Ids,           \* JSON-RPC ids as keys of _pending, i.e. str(request.id)
  IdOf,          \* the id each call carries: chosen by clients, may be shared
  Subprocesses,  \* bound: the subprocesses a behaviour may start
  NoProcess,     \* self._process is None
  NoCall,        \* no entry in _pending, no answer yet
  Unencodable,   \* writers whose payload may hold a lone surrogate: no UTF-8 form
  MayPause       \* whether a live child may leave stdin full, pausing drain()

Writers == Calls \cup Notes
Tasks == Calls \cup Notes \cup Recycles \cup Closes

ASSUME ConstantsAssumption ==
  /\ Calls \cap Notes = {} /\ Calls \cap Recycles = {} /\ Calls \cap Closes = {}
  /\ Notes \cap Recycles = {} /\ Notes \cap Closes = {}
  /\ Recycles \cap Closes = {}
  /\ IdOf \in [Calls -> Ids]
  /\ NoProcess \notin Subprocesses
  /\ NoCall \notin Calls
  /\ Unencodable \subseteq Writers
  /\ MayPause \in BOOLEAN

VARIABLES
  process,    \* self._process
  child,      \* per subprocess: not started, alive, dead, dead and reaped
  reader,     \* self._reader_task, which reads the stdout of process
  waiter,     \* self._wait_task, which waits for process to exit
  lifecycle,  \* self._lifecycle_lock
  phase,      \* where the holder of the lifecycle lock is suspended
  writeLock,  \* self._write_lock
  pending,    \* self._pending: id -> call whose future is registered
  future,     \* per call: the state of its future
  answer,     \* per call: the call whose line it received the response to
  target,     \* per writer: the subprocess whose stdin it captured
  wire,       \* per subprocess: requests in its stdin, unanswered
  outbox,     \* per subprocess: requests answered in its stdout, unread
  pc          \* per task: its suspension point, or how it ended

procVars == <<process, child, reader, waiter>>
lockVars == <<lifecycle, phase>>
callVars == <<pending, future, answer>>
pipeVars == <<wire, outbox>>
vars == <<procVars, lockVars, writeLock, callVars, target, pipeVars, pc>>

\* How a task ends: with its response, with MCPRequestTimeout, with
\* MCPProcessUnavailable, as a duplicate, or with an exception that no handler
\* of request() names: of the encoder, or the one that killed the stdout loop.
Ended == {"returned", "timeout", "unavailable", "duplicate", "crashed", "done"}
Suspended == {"idle", "ensure", "restart", "close", "write", "drain", "await"}

-----------------------------------------------------------------------------
\* is_running: there is a process and its returncode is not set yet.
Running == process # NoProcess /\ child[process] # "exited"

NoPending == [i \in Ids |-> NoCall]
Registered(p, c) == p[IdOf[c]] = c
Pop(p, c) == [p EXCEPT ![IdOf[c]] = NoCall]

\* Mutant: the exception reaches the caller under its own name.
RaisedAsIs(why) == why
\* What an exception set on a future makes of the request() that awaits it:
\* MCPProcessUnavailable is passed on, and so is what no handler names.  A
\* RuntimeError is handled when it is this call's turn to run.
Raised(why) == CASE why = "stopped" -> "unavailable"
                 [] why = "broken" -> "crashed"
                 [] why = "runtime" -> "await"

(***************************************************************************)
(* _fail_pending, on _pending, futures and tasks as its caller has already *)
(* left them in this step.  A call at its wait_for that is stopped resumes *)
(* before any path that could register its id again, so its except clause  *)
(* runs here.                                                              *)
(***************************************************************************)
FailPending(p, f, at, why) ==
  LET failed == {c \in Calls : Registered(p, c) /\ f[c] = "open"} IN
  /\ pending' = NoPending
  /\ future' = [c \in Calls |-> IF c \in failed THEN why ELSE f[c]]
  /\ pc' = [t \in Tasks |-> IF t \in failed /\ at[t] = "await"
                            THEN Raised(why) ELSE at[t]]

-----------------------------------------------------------------------------
\* The line of t reaches subprocess g, in state st, unless the pipe is broken.
PutLine(t, g, st) ==
  wire' = IF st = "up" /\ t \in Calls
          THEN [wire EXCEPT ![g] = @ \cup {t}] ELSE wire

\* drain() suspends when the transport is paused or closing.
DrainSuspends(st) == MayPause \/ st # "up"

(***************************************************************************)
(* request() and notify() after ensure_started() returned, with subprocess *)
(* g in state st: register the future, then _write_json_line up to its     *)
(* first suspension.  What cannot be encoded leaves its entry behind.      *)
(***************************************************************************)
Duplicate(t) ==
  /\ t \in Calls
  /\ pending[IdOf[t]] # NoCall
  /\ pc' = [pc EXCEPT ![t] = "duplicate"]
  /\ UNCHANGED <<callVars, target, wire, writeLock>>

NotRunning(t, st) ==
  /\ t \in Calls => pending[IdOf[t]] = NoCall
  /\ st = "exited"
  /\ pc' = [pc EXCEPT ![t] = "unavailable"]
  /\ future' = IF t \in Calls THEN [future EXCEPT ![t] = "dropped"] ELSE future
  /\ UNCHANGED <<pending, answer, target, wire, writeLock>>

StartWriting(t, g, st) ==
  /\ t \in Calls => pending[IdOf[t]] = NoCall
  /\ st # "exited"
  /\ pending' = IF t \in Calls THEN [pending EXCEPT ![IdOf[t]] = t] ELSE pending
  /\ future' = IF t \in Calls THEN [future EXCEPT ![t] = "open"] ELSE future
  /\ target' = [target EXCEPT ![t] = g]
  /\ UNCHANGED answer
  /\ \/ /\ t \in Unencodable
        /\ pc' = [pc EXCEPT ![t] = "crashed"]
        /\ UNCHANGED <<wire, writeLock>>
     \/ /\ writeLock # <<>>
        /\ writeLock' = Append(writeLock, t)
        /\ pc' = [pc EXCEPT ![t] = "write"]
        /\ UNCHANGED wire
     \/ /\ writeLock = <<>>
        /\ PutLine(t, g, st)
        /\ pc' = [pc EXCEPT ![t] = IF t \in Calls THEN "await" ELSE "done"]
        /\ UNCHANGED writeLock
     \/ /\ writeLock = <<>>
        /\ DrainSuspends(st)
        /\ PutLine(t, g, st)
        /\ pc' = [pc EXCEPT ![t] = "drain"]
        /\ writeLock' = <<t>>

Proceed(t, g, st) ==
  Duplicate(t) \/ NotRunning(t, st) \/ StartWriting(t, g, st)

-----------------------------------------------------------------------------
\* Mutant: the process is recycled without failing what is pending.
BeginCleanupSilently(p, f, at) ==
  /\ pending' = p /\ future' = f /\ pc' = at
  /\ reader' = "none" /\ waiter' = "none"
  /\ phase' = IF process = NoProcess THEN "start" ELSE "gather"
  /\ UNCHANGED <<process, child>>

\* _cleanup_process up to its first suspension; with no process there are no
\* tasks to gather and the holder goes straight on to _start_process.
BeginCleanup(p, f, at) ==
  /\ FailPending(p, f, at, "stopped")
  /\ reader' = "none"
  /\ waiter' = "none"
  /\ phase' = IF process = NoProcess THEN "start" ELSE "gather"
  /\ UNCHANGED <<process, child>>

\* ensure_started() once it holds the lock, with rest queued behind it.
RunEnsure(t, rest) ==
  \/ /\ Running
     /\ lifecycle' = rest
     /\ Proceed(t, process, child[process])
     /\ UNCHANGED <<procVars, phase, outbox>>
  \/ /\ ~Running
     /\ lifecycle' = <<t>> \o rest
     /\ BeginCleanup(pending, future, [pc EXCEPT ![t] = "ensure"])
     /\ UNCHANGED <<writeLock, answer, target, pipeVars>>

\* restart() once it holds the lock.
RunRestart(t, rest, p, f) ==
  /\ lifecycle' = <<t>> \o rest
  /\ BeginCleanup(p, f, [pc EXCEPT ![t] = "restart"])
  /\ UNCHANGED <<answer, target, pipeVars>>

\* close() once it holds the lock; with no process there is nothing to await.
RunClose(t, rest) ==
  /\ UNCHANGED <<writeLock, answer, target, pipeVars>>
  /\ \/ /\ process # NoProcess
        /\ lifecycle' = <<t>> \o rest
        /\ BeginCleanup(pending, future, [pc EXCEPT ![t] = "close"])
     \/ /\ process = NoProcess
        /\ lifecycle' = rest
        /\ FailPending(pending, future, [pc EXCEPT ![t] = "done"], "stopped")
        /\ UNCHANGED <<procVars, phase>>

-----------------------------------------------------------------------------
\* Callers arrive: they take a free lifecycle lock at once, or queue for it.
Arrive(t, at) ==
  /\ pc[t] = "idle"
  /\ lifecycle # <<>>
  /\ lifecycle' = Append(lifecycle, t)
  /\ pc' = [pc EXCEPT ![t] = at]
  /\ UNCHANGED <<procVars, phase, writeLock, callVars, target, pipeVars>>

\* Mutant: is_running is looked at before taking the lock, to spare the lock.
RequestUnlocked(t) ==
  \/ /\ pc[t] = "idle" /\ Running
     /\ Proceed(t, process, child[process])
     /\ UNCHANGED <<procVars, lockVars, outbox>>
  \/ ~Running /\ Arrive(t, "ensure")
  \/ pc[t] = "idle" /\ ~Running /\ lifecycle = <<>> /\ RunEnsure(t, <<>>)

Request(t) ==
  \/ Arrive(t, "ensure")
  \/ pc[t] = "idle" /\ lifecycle = <<>> /\ RunEnsure(t, <<>>)

Restart(t) ==
  \/ Arrive(t, "restart")
  \/ /\ pc[t] = "idle" /\ lifecycle = <<>>
     /\ RunRestart(t, <<>>, pending, future)
     /\ UNCHANGED writeLock

Close(t) ==
  \/ Arrive(t, "close")
  \/ pc[t] = "idle" /\ lifecycle = <<>> /\ RunClose(t, <<>>)

\* The task woken by the release of the lifecycle lock takes it.
Enter ==
  /\ phase = "free"
  /\ lifecycle # <<>>
  /\ LET t == Head(lifecycle)
         rest == Tail(lifecycle)
     IN \/ pc[t] = "ensure" /\ RunEnsure(t, rest)
        \/ /\ pc[t] = "restart"
           /\ RunRestart(t, rest, pending, future)
           /\ UNCHANGED writeLock
        \/ pc[t] = "close" /\ RunClose(t, rest)

\* _cleanup_process is through: close() ends, the others start a process.
Cleaned ==
  /\ process' = NoProcess
  /\ LET t == Head(lifecycle) IN
     \/ /\ pc[t] = "close"
        /\ lifecycle' = Tail(lifecycle)
        /\ phase' = "free"
        /\ pc' = [pc EXCEPT ![t] = "done"]
     \/ /\ pc[t] # "close"
        /\ phase' = "start"
        /\ UNCHANGED <<lifecycle, pc>>

\* Mutant: the process is forgotten without being terminated.
GatherDoneLeaky ==
  /\ phase = "gather"
  /\ Cleaned
  /\ UNCHANGED <<child, reader, waiter, writeLock, callVars, target, pipeVars>>

\* The cancelled loops are gathered: a live child gets SIGTERM.
GatherDone ==
  /\ phase = "gather"
  /\ \/ child[process] = "exited" /\ Cleaned
     \/ /\ child[process] # "exited"
        /\ phase' = "term"
        /\ UNCHANGED <<process, lifecycle, pc>>
  /\ UNCHANGED <<child, reader, waiter, writeLock, callVars, target, pipeVars>>

\* process.wait() returns, after SIGTERM or after SIGKILL.
WaitDone ==
  /\ phase \in {"term", "kill"}
  /\ child[process] = "exited"
  /\ Cleaned
  /\ UNCHANGED <<child, reader, waiter, writeLock, callVars, target, pipeVars>>

Die(g) ==
  /\ child' = [child EXCEPT ![g] = IF @ = "up" THEN "gone" ELSE @]
  /\ wire' = [wire EXCEPT ![g] = {}]

\* The grace period is over: SIGKILL, and wait without a bound.
Kill ==
  /\ phase = "term"
  /\ child[process] # "exited"
  /\ Die(process)
  /\ phase' = "kill"
  /\ UNCHANGED <<process, reader, waiter, lifecycle, writeLock, callVars,
                 target, outbox, pc>>

\* _start_process returns; the child may already have exited.
StartOk ==
  /\ phase = "start"
  /\ \E g \in Subprocesses, st \in {"up", "exited"} :
       /\ child[g] = "none"
       /\ process' = g
       /\ child' = [child EXCEPT ![g] = st]
       /\ LET t == Head(lifecycle) IN
          \/ pc[t] = "ensure" /\ Proceed(t, g, st)
          \/ /\ pc[t] # "ensure"
             /\ pc' = [pc EXCEPT ![t] = IF t \in Calls THEN "unavailable" ELSE "done"]
             /\ UNCHANGED <<callVars, target, wire, writeLock>>
  /\ reader' = "reading"
  /\ waiter' = "waiting"
  /\ lifecycle' = Tail(lifecycle)
  /\ phase' = "free"
  /\ UNCHANGED outbox

\* Mutant: a failed start raises past the release of the lifecycle lock.
StartFailsHolding ==
  /\ phase = "start"
  /\ pc' = [pc EXCEPT ![Head(lifecycle)] = "unavailable"]
  /\ UNCHANGED <<procVars, lockVars, writeLock, callVars, target, pipeVars>>

\* OSError or startup timeout: the task that wanted the process is told.
StartFails ==
  /\ phase = "start"
  /\ pc' = [pc EXCEPT ![Head(lifecycle)] = "unavailable"]
  /\ lifecycle' = Tail(lifecycle)
  /\ phase' = "free"
  /\ UNCHANGED <<procVars, writeLock, callVars, target, pipeVars>>

-----------------------------------------------------------------------------
(***************************************************************************)
(* After its drain, t releases the write lock; a call then awaits its      *)
(* future, which may have been settled while it was writing.               *)
(***************************************************************************)
Written(t) ==
  /\ writeLock' = Tail(writeLock)
  /\ \/ /\ t \in Calls /\ future[t] = "open"
        /\ pc' = [pc EXCEPT ![t] = "await"]
        /\ UNCHANGED pending
     \/ /\ t \in Calls /\ future[t] = "result"
        /\ pc' = [pc EXCEPT ![t] = "returned"]
        /\ UNCHANGED pending
     \/ /\ t \in Calls /\ future[t] \in {"stopped", "broken"}
        /\ pc' = [pc EXCEPT ![t] = Raised(future[t])]
        /\ pending' = IF future[t] = "stopped" THEN Pop(pending, t) ELSE pending
     \/ /\ t \in Notes
        /\ pc' = [pc EXCEPT ![t] = "done"]
        /\ UNCHANGED pending

\* _write_json_line holds the write lock: it writes, then drains.
WriteLine ==
  /\ writeLock # <<>>
  /\ LET t == Head(writeLock)
         st == child[target[t]]
     IN /\ pc[t] = "write"
        /\ PutLine(t, target[t], st)
        /\ \/ Written(t)
           \/ /\ DrainSuspends(st)
              /\ pc' = [pc EXCEPT ![t] = "drain"]
              /\ UNCHANGED <<pending, writeLock>>
  /\ UNCHANGED <<procVars, lockVars, future, answer, target, outbox>>

DrainReturns ==
  /\ writeLock # <<>>
  /\ pc[Head(writeLock)] = "drain"
  /\ Written(Head(writeLock))
  /\ UNCHANGED <<procVars, lockVars, future, answer, target, pipeVars>>

\* The except clause of request() for a broken pipe and for a RuntimeError:
\* with p and f it takes the lifecycle lock at once, or queues for it.
GoRestart(t, p, f) ==
  \/ lifecycle = <<>> /\ RunRestart(t, <<>>, p, f)
  \/ /\ lifecycle # <<>>
     /\ lifecycle' = Append(lifecycle, t)
     /\ pc' = [pc EXCEPT ![t] = "restart"]
     /\ pending' = p
     /\ future' = f
     /\ UNCHANGED <<procVars, phase, answer, target, pipeVars>>

\* The pipe broke: notify() reports it, request() also restarts the process.
DrainFails ==
  /\ writeLock # <<>>
  /\ LET t == Head(writeLock)
         p == Pop(pending, t)
         f == [future EXCEPT ![t] = IF @ = "open" THEN "dropped" ELSE @]
     IN /\ pc[t] = "drain"
        /\ child[target[t]] # "up"
        /\ writeLock' = Tail(writeLock)
        /\ \/ /\ t \in Notes
              /\ pc' = [pc EXCEPT ![t] = "unavailable"]
              /\ UNCHANGED <<procVars, lockVars, callVars, target, pipeVars>>
           \/ t \in Calls /\ GoRestart(t, p, f)

\* The stdout loop failed with a RuntimeError while t was writing: its line
\* goes to a process that nobody listens to.
WriteRaises ==
  /\ writeLock # <<>>
  /\ LET t == Head(writeLock) IN
     /\ t \in Calls /\ pc[t] \in {"write", "drain"} /\ future[t] = "runtime"
     /\ writeLock' = Tail(writeLock)
     /\ GoRestart(t, Pop(pending, t), future)

-----------------------------------------------------------------------------
\* The wait_for of c: its result, or its deadline, which may also win over a
\* result that is already set.  The entry is removed by id, whoever owns it.
Return(c) ==
  /\ pc[c] = "await"
  /\ future[c] = "result"
  /\ pc' = [pc EXCEPT ![c] = "returned"]
  /\ UNCHANGED <<procVars, lockVars, writeLock, callVars, target, pipeVars>>

Timeout(c) ==
  /\ pc[c] = "await"
  /\ pc' = [pc EXCEPT ![c] = "timeout"]
  /\ pending' = Pop(pending, c)
  /\ future' = [future EXCEPT ![c] = IF @ = "open" THEN "dropped" ELSE @]
  /\ UNCHANGED <<procVars, lockVars, writeLock, answer, target, pipeVars>>

\* The RuntimeError of the stdout loop reaches c at its wait_for.
Raise(c) ==
  /\ pc[c] = "await"
  /\ future[c] = "runtime"
  /\ GoRestart(c, Pop(pending, c), future)
  /\ UNCHANGED writeLock

-----------------------------------------------------------------------------
\* The child (external): answers what it read, in any order, or dies.
ChildAnswers ==
  /\ \E g \in Subprocesses : \E c \in wire[g] :
       /\ child[g] = "up"
       /\ wire' = [wire EXCEPT ![g] = @ \ {c}]
       /\ outbox' = [outbox EXCEPT ![g] = @ \cup {c}]
  /\ UNCHANGED <<procVars, lockVars, writeLock, callVars, target, pc>>

ChildDies ==
  /\ \E g \in Subprocesses : child[g] = "up" /\ Die(g)
  /\ UNCHANGED <<process, reader, waiter, lockVars, writeLock, callVars,
                 target, outbox, pc>>

\* asyncio's child watcher sets returncode.
ExitNoticed ==
  /\ \E g \in Subprocesses :
       child[g] = "gone" /\ child' = [child EXCEPT ![g] = "exited"]
  /\ UNCHANGED <<process, reader, waiter, lockVars, writeLock, callVars,
                 target, pipeVars, pc>>

\* Mutant: the loops of recycled subprocesses are not cancelled.
ReaderDeliversAny ==
  /\ \E g \in Subprocesses : \E d \in outbox[g] :
       LET c == pending[IdOf[d]] IN
       /\ outbox' = [outbox EXCEPT ![g] = @ \ {d}]
       /\ pending' = Pop(pending, d)
       /\ IF c # NoCall /\ future[c] = "open"
          THEN /\ future' = [future EXCEPT ![c] = "result"]
               /\ answer' = [answer EXCEPT ![c] = d]
          ELSE UNCHANGED <<future, answer>>
  /\ UNCHANGED <<procVars, lockVars, writeLock, target, wire, pc>>

\* _stdout_loop: a response settles whichever call is registered for its id.
ReaderDelivers ==
  /\ reader = "reading"
  /\ \E d \in outbox[process] :
       LET c == pending[IdOf[d]] IN
       /\ outbox' = [outbox EXCEPT ![process] = @ \ {d}]
       /\ pending' = Pop(pending, d)
       /\ IF c # NoCall /\ future[c] = "open"
          THEN /\ future' = [future EXCEPT ![c] = "result"]
               /\ answer' = [answer EXCEPT ![c] = d]
          ELSE UNCHANGED <<future, answer>>
  /\ UNCHANGED <<procVars, lockVars, writeLock, target, wire, pc>>

ReaderEof ==
  /\ reader = "reading"
  /\ child[process] # "up"
  /\ outbox[process] = {}
  /\ reader' = "done"
  /\ UNCHANGED <<process, child, waiter, lockVars, writeLock, callVars, target,
                 pipeVars, pc>>

\* The stdout loop meets an exception: the ValueError of readline() for a line
\* over the 1 MiB limit, or the RecursionError, a RuntimeError, of json.loads()
\* for one too deep.  Everything pending fails and nobody reads stdout again.
ReaderCrash ==
  /\ reader = "reading"
  /\ reader' = "done"
  /\ \E why \in {"broken", "runtime"} : FailPending(pending, future, pc, why)
  /\ UNCHANGED <<process, child, waiter, lockVars, writeLock, answer, target,
                 pipeVars>>

\* Mutant: the exit is logged and nobody is told.
ExitLogged ==
  /\ waiter = "waiting"
  /\ child[process] = "exited"
  /\ waiter' = "done"
  /\ UNCHANGED <<process, child, reader, lockVars, writeLock, callVars, target,
                 pipeVars, pc>>

\* _wait_loop: the process exited on its own.
ExitReported ==
  /\ waiter = "waiting"
  /\ child[process] = "exited"
  /\ waiter' = "done"
  /\ FailPending(pending, future, pc, "stopped")
  /\ UNCHANGED <<process, child, reader, lockVars, writeLock, answer, target,
                 pipeVars>>

-----------------------------------------------------------------------------
Init ==
  /\ process = NoProcess
  /\ child = [g \in Subprocesses |-> "none"]
  /\ reader = "none" /\ waiter = "none"
  /\ lifecycle = <<>> /\ phase = "free"
  /\ writeLock = <<>>
  /\ pending = NoPending
  /\ future = [c \in Calls |-> "none"]
  /\ answer = [c \in Calls |-> NoCall]
  /\ target = [t \in Writers |-> NoProcess]
  /\ wire = [g \in Subprocesses |-> {}]
  /\ outbox = [g \in Subprocesses |-> {}]
  /\ pc = [t \in Tasks |-> "idle"]

Next ==
  \/ \E t \in Writers : Request(t)
  \/ \E t \in Recycles : Restart(t)
  \/ \E t \in Closes : Close(t)
  \/ Enter \/ GatherDone \/ WaitDone \/ Kill \/ StartOk \/ StartFails
  \/ WriteLine \/ DrainReturns \/ DrainFails \/ WriteRaises
  \/ \E c \in Calls : Return(c) \/ Timeout(c) \/ Raise(c)
  \/ ChildAnswers \/ ChildDies \/ ExitNoticed
  \/ ReaderDelivers \/ ReaderEof \/ ReaderCrash \/ ExitReported

Spec == Init /\ [][Next]_vars

\* A drain on a dead pipe ends; one on a paused pipe waits for the child.
BrokenDrain ==
  /\ \E t \in Writers : writeLock # <<>> /\ t = Head(writeLock)
                        /\ child[target[t]] # "up"
  /\ DrainReturns \/ DrainFails \/ WriteRaises

(***************************************************************************)
(* The loop runs every ready task, timers fire, SIGKILL works and starting *)
(* a process is bounded by startup_timeout_seconds.  Callers need not come *)
(* and the child owes nothing.                                             *)
(***************************************************************************)
Fairness ==
  /\ WF_vars(Enter) /\ WF_vars(GatherDone) /\ WF_vars(WaitDone) /\ WF_vars(Kill)
  /\ WF_vars(StartOk \/ StartFails)
  /\ WF_vars(WriteLine \/ WriteRaises) /\ WF_vars(BrokenDrain)
  /\ \A c \in Calls : WF_vars(Return(c)) /\ WF_vars(Timeout(c)) /\ WF_vars(Raise(c))
  /\ WF_vars(ExitNoticed) /\ WF_vars(ExitReported)
  /\ WF_vars(ReaderDelivers) /\ WF_vars(ReaderEof)

FairSpec == Spec /\ Fairness

-----------------------------------------------------------------------------
\* The values of every variable, and who may stand in which queue.
TypeOK ==
  /\ process \in Subprocesses \cup {NoProcess}
  /\ child \in [Subprocesses -> {"none", "up", "gone", "exited"}]
  /\ reader \in {"none", "reading", "done"}
  /\ waiter \in {"none", "waiting", "done"}
  /\ lifecycle \in Seq(Tasks)
  /\ phase \in {"free", "gather", "term", "kill", "start"}
  /\ writeLock \in Seq(Writers)
  /\ pending \in [Ids -> Calls \cup {NoCall}]
  /\ future \in [Calls -> {"none", "open", "result", "stopped", "broken", "runtime", "dropped"}]
  /\ answer \in [Calls -> Calls \cup {NoCall}]
  /\ target \in [Writers -> Subprocesses \cup {NoProcess}]
  /\ wire \in [Subprocesses -> SUBSET Calls]
  /\ outbox \in [Subprocesses -> SUBSET Calls]
  /\ pc \in [Tasks -> Suspended \cup Ended]

\* While _cleanup_process and _start_process run, under the lifecycle lock,
\* nothing is registered: no request slips in between the failing of _pending
\* and the new process (lines 112-119 against 275-307).
RecyclingHasNoPending == phase # "free" => pending = NoPending

\* A subprocess that has not been reaped is the one self._process names, so
\* recycling, closing and failed starts leave no child behind.
NoOrphanChild == \A g \in Subprocesses : child[g] \in {"up", "gone"} => g = process

\* Whatever the ids, a call is only answered from the stdout of the subprocess
\* it wrote to, never by the one started after a recycle.
AnswerFromSameProcess ==
  \A c \in Calls : answer[c] # NoCall => target[answer[c]] = target[c]

\* No other call carries the id of c.
OwnId(c) == \A d \in Calls : IdOf[d] = IdOf[c] => d = c

\* has_pending tells "Whether any request is still awaiting a response from the
\* process" (lines 106-110).
Awaiting(c) == pc[c] \in {"write", "drain", "await"} /\ future[c] = "open"
HasPending == \E i \in Ids : pending[i] # NoCall
HasPendingIsTruthful == HasPending <=> \E c \in Calls : Awaiting(c)

\* Once the exit of the process is reported no request is left waiting for it,
\* not even one that was still writing; only one whose id another call carries
\* too may have lost its entry to that call (lines 148-168, 386-390).
NobodyAwaitsTheDead ==
  waiter = "done" => \A c \in Calls : future[c] = "open" => ~OwnId(c)

\* A request whose write fails because its process stopped does not recycle the
\* live process that has replaced it meanwhile (CHANGELOG.md:57: a "request failing
\* because its process stopped no longer triggers a second, redundant restart").
RestartsOnlyItsOwnProcess ==
  LET t == Head(lifecycle) IN
  /\ phase = "gather" /\ child[process] = "up"
  /\ t \in Calls /\ pc[t] = "restart" /\ future[t] # "runtime"
  => process = target[t]

\* A request ends: with its response, its deadline or an error.
EveryCallEnds == \A c \in Calls : pc[c] # "idle" ~> pc[c] \in Ended

\* Nobody is left behind on a lock, a drain or a future.
EveryTaskEnds == \A t \in Tasks : pc[t] # "idle" ~> pc[t] \in Ended

-----------------------------------------------------------------------------
\* What callers with an id of their own see of the bridge, as CallPromise puts
\* it, while others share ids.
Owners == {c \in Calls : OwnId(c)}
Serving == process # NoProcess /\ phase = "free"
Status(f) == CASE f = "none" -> "new"
               [] f = "open" -> "open"
               [] f = "result" -> "answered"
               [] OTHER -> "failed"

Promise == INSTANCE CallPromise
             WITH Calls <- Owners, serving <- Serving,
                  status <- [c \in Owners |-> Status(future[c])]

\* The bridge keeps the promise.
KeepsPromise == Promise!Spec

-----------------------------------------------------------------------------
(***************************************************************************)
(* Inductive invariants.  LockInv ties the lifecycle lock to the process   *)
(* it guards; SafetyInv is inductive for any ids.                          *)
(***************************************************************************)
LockInv ==
  /\ phase # "free" => lifecycle # <<>> /\ reader = "none" /\ waiter = "none"
  /\ phase = "start" => process = NoProcess
  /\ phase \in {"gather", "term", "kill"} => process # NoProcess
  /\ reader # "none" \/ waiter # "none" => process # NoProcess
  /\ \A t \in Tasks : pc[t] = "ensure" => t \in Writers

SafetyInv == TypeOK /\ LockInv /\ RecyclingHasNoPending /\ NoOrphanChild

(***************************************************************************)
(* A call is registered, on the wire or answered only after it captured    *)
(* its subprocess, which it does once; what is registered is bound for the *)
(* current subprocess.                                                     *)
(***************************************************************************)
Fresh(c) == pc[c] \in {"idle", "ensure"}
TargetInv ==
  /\ \A c \in Calls : Fresh(c) => target[c] = NoProcess /\ future[c] = "none"
  /\ \A i \in Ids : pending[i] # NoCall
       => process # NoProcess /\ target[pending[i]] = process
  /\ \A g \in Subprocesses : \A c \in wire[g] \cup outbox[g] : target[c] = g
  /\ \A c \in Calls : answer[c] # NoCall
       => target[c] # NoProcess /\ target[answer[c]] = target[c]

(***************************************************************************)
(* A call whose id is its own is in _pending for as long as its future is  *)
(* open, whatever those with a shared id take out.                         *)
(***************************************************************************)
OwnIsPending == \A c \in Owners : future[c] = "open" => Registered(pending, c)
RegistryInv ==
  /\ \A i \in Ids : pending[i] # NoCall => IdOf[pending[i]] = i
  /\ OwnIsPending
  /\ waiter = "done" => child[process] = "exited"
  /\ NobodyAwaitsTheDead
=============================================================================
