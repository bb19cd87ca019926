----------------------------- MODULE ProcessPool -----------------------------
(***************************************************************************)
(* MCPProcessPoolManager (app/services/mcp_supervisor.py): the table of    *)
(* bridges per tenant and server, the callers that take a bridge from it,  *)
(* the reaper that walks it, and shutdown.                                 *)
(*                                                                         *)
(* Each bridge is the ManagedMCPProcess of module ManagedProcess, reduced  *)
(* to its lifecycle lock, whether its subprocess runs, the entries of      *)
(* _pending and who awaits an answer.  The manager's _lock is never held across an await and needs no *)
(* variable.  A step goes from one suspension to the next.                 *)
(*                                                                         *)
(* Time is counted in passes of the reaper.                                *)
(***************************************************************************)
EXTENDS Naturals, Sequences, FiniteSets

CONSTANTS
  Callers,       \* calls of invoke()
  Notes,         \* calls of notify()
  Probes,        \* calls of the manager's health_check()
  Reaper,        \* the one reaper task
  Keys, KeyOf,   \* MCPPoolKey, and the key each call asks for
  Tenants, TenantOf, MaxProcesses,  \* the tenant of a key, and its max_processes
  IdOf,          \* the request id of a caller, chosen by the client
  Unencodable,   \* the calls whose payload may hold what UTF-8 cannot encode
  MaxBridges,    \* bound: the ManagedMCPProcess objects a behaviour may create
  NoKey,
  Ttl,           \* idle_ttl_seconds, in passes of the reaper
  HealthChecked  \* the keys whose server has config.health_check.enabled

Clients == Callers \cup Notes
Tasks == Clients \cup Probes \cup {Reaper}
Bridges == 1..MaxBridges
NoBridge == 0

ASSUME PoolAssumption ==
  /\ Reaper \notin Clients \cup Probes
  /\ Callers \cap Notes = {} /\ Clients \cap Probes = {}
  /\ KeyOf \in [Clients \cup Probes -> Keys]
  /\ Unencodable \subseteq Clients
  /\ TenantOf \in [Keys -> Tenants]
  /\ MaxProcesses \in [Tenants -> Nat \ {0}]
  /\ MaxBridges \in Nat
  /\ NoKey \notin Keys
  /\ Ttl \in Nat \ {0}
  /\ HealthChecked \subseteq Keys

VARIABLES
  table,      \* _processes: the bridge of each key
  owner,      \* per bridge: the key it was created for
  child,      \* per bridge: whether its subprocess is none, up, dead, or
              \* up with nobody left to read its stdout: deaf
  lifecycle,  \* per bridge: its lifecycle lock, the holder first
  held,       \* per bridge: whether the head is in cleanup or start
  pending,    \* per bridge: the calls with an entry in _pending
  idle,       \* per bridge: passes since last_used_at
  at,         \* per task: the bridge it is working on
  pc,         \* per task: its suspension point
  todo,       \* the bridges of the current _reap_once, not examined yet
  closed      \* _closed

vars == <<table, owner, child, lifecycle, held, pending, idle, at, pc, todo, closed>>

\* A caller: in the ensure_started of _get_or_create_process, in that of
\* request() or notify(), writing or waiting for its answer, its future failed
\* by an MCPSupervisorError or by a RuntimeError of the stdout loop, restarting,
\* or waiting for the line of a notification to drain.
CallerStates == {"idle", "get", "ensure", "await", "failed", "broken", "restart",
                 "drain", "ended"}
\* The reaper: asleep, between two bridges, in a health check, told that it
\* failed, in _recycle_process, and in _remove_process of an idle bridge or of
\* one that could not be recycled.  A probe does as the reaper with one bridge.
ReaperStates == {"sleep", "pass", "ensure", "await", "restart", "unhealthy",
                 "recycle", "reap", "discard", "stopped"}

-----------------------------------------------------------------------------
\* is_running, has_pending and the idle test, as the reaper reads them.
Up(b) == child[b] \in {"up", "deaf"}
HasPending(b) == pending[b] # {}
IdleTooLong(b) == idle[b] >= Ttl
\* Mutant: _remove_process pops whatever is there.
RegisteredKey(b) == owner[b] # NoKey /\ table[owner[b]] # NoBridge
Registered(b) == owner[b] # NoKey /\ table[owner[b]] = b

\* Mutant: a failed health check raises through whoever made it.
RaisedFailure(t) == IF t \in Clients THEN "ended" ELSE "raised"
\* request() raises: a caller is told, a health check returns False.
Failed(t) == IF t \in Clients THEN "ended" ELSE "unhealthy"
\* Mutant: what a health check raises ends the reaper.
LoopEnds(t) == IF t = Reaper THEN "stopped" ELSE "ended"
\* A future with an exception of the stdout loop that no handler names: the
\* reaper gives up this pass, and whoever else made the request is told.
Uncaught(t) == IF t = Reaper THEN "sleep" ELSE "ended"
\* Where request() and notify() wait, once they have written.
Written(t) == IF t \in Notes THEN "drain" ELSE "await"
\* Where a task goes on when it is through with a bridge.
Through(t) == IF t = Reaper THEN "pass" ELSE "ended"

\* The id of a health check is its own, those of callers may be the same.
SameId(t, u) == t = u \/ (t \in Callers /\ u \in Callers /\ IdOf[t] = IdOf[u])
\* What request() leaves in _pending when it pops its id.
Popped(t, b) == {u \in pending[b] : ~SameId(t, u)}

\* _fail_pending: the futures of the entries are failed, and the entries gone.
FailAwaiting(p, b, state) ==
  [t \in Tasks |-> IF p[t] = "await" /\ at[t] = b /\ t \in pending[b] THEN state[t]
                   ELSE p[t]]
Told == [t \in Tasks |-> "failed"]

(***************************************************************************)
(* t asks for the lifecycle lock of b in order to op, behind the queue q,  *)
(* h telling whether it is held and left what is pending.  A free lock is  *)
(* taken at once and recycling begins with _fail_pending.                  *)
(***************************************************************************)
Enter(t, b, op, q, h, left) ==
  /\ lifecycle' = [lifecycle EXCEPT ![b] = Append(q, t)]
  /\ held' = [held EXCEPT ![b] = h \/ q = <<>>]
  /\ pc' = IF q = <<>> THEN FailAwaiting([pc EXCEPT ![t] = op], b, Told)
           ELSE [pc EXCEPT ![t] = op]
  /\ pending' = [pending EXCEPT ![b] = IF q = <<>> THEN {} ELSE left]

\* t leaves the lock of b to the queue q, and goes on at state.
Release(t, b, q, state) ==
  /\ lifecycle' = [lifecycle EXCEPT ![b] = q]
  /\ held' = [held EXCEPT ![b] = FALSE]
  /\ pc' = [pc EXCEPT ![t] = state]

(***************************************************************************)
(* request() and notify() after their ensure_started: a request whose id   *)
(* is pending is refused, any other is registered and written.  A payload  *)
(* that cannot be encoded raises through request(), which leaves the entry *)
(* in _pending, and through notify().                                      *)
(***************************************************************************)
Entry(t) == {t} \ Notes
Write(t, b, q) ==
  \/ /\ \E u \in pending[b] : SameId(t, u)
     /\ Release(t, b, q, Failed(t))
     /\ UNCHANGED pending
  \/ /\ \A u \in pending[b] : ~SameId(t, u)
     /\ \/ Release(t, b, q, Written(t))
        \/ t \in Unencodable /\ Release(t, b, q, "ended")
     /\ pending' = [pending EXCEPT ![b] = @ \cup Entry(t)]

\* request() or notify() on b, whose subprocess is in state st: its own ensure_started
\* returns at once when the lock is free and the subprocess runs.
Request(t, b, q, h, st) ==
  IF q = <<>> /\ st = "up" THEN Write(t, b, <<>>)
  ELSE Enter(t, b, "ensure", q, h, pending[b])

\* Whoever gets to await an answer has just set last_used_at.
Touch(t, b) == idle' = [idle EXCEPT ![b] = IF pc'[t] = "await" THEN 0 ELSE @]

\* A task that is through with a bridge forgets it; f says where the others are.
Settle(f) == at' = [t \in Tasks |->
  IF pc'[t] \in {"ended", "pass", "sleep", "stopped"} THEN NoBridge ELSE f[t]]

\* close() by t with no subprocess to stop: it fails what is pending and is over.
CloseNothing(t, b, q) ==
  /\ lifecycle' = [lifecycle EXCEPT ![b] = q]
  /\ held' = [held EXCEPT ![b] = FALSE]
  /\ pc' = FailAwaiting([pc EXCEPT ![t] = Through(t)], b, Told)
  /\ pending' = [pending EXCEPT ![b] = {}]

\* close() by t, for reason op, on b whose subprocess is in state st.
CloseBridge(t, b, op, q, h, st) ==
  IF q = <<>> /\ st = "none" THEN CloseNothing(t, b, <<>>)
  ELSE Enter(t, b, op, q, h, pending[b])

\* Mutant: _remove_process closes what it leaves in the table.
KeepIn(b) == UNCHANGED table
\* _remove_process takes b out of the table.
TakeOut(b) == table' = [table EXCEPT ![owner[b]] = NoBridge]

\* Mutant: health_check.enabled is ignored.
CheckedAnyway(b) == b \in Bridges
Checked(b) == owner[b] \in HealthChecked

-----------------------------------------------------------------------------
\* _enforce_tenant_capacity_locked.
InTable(tenant) == {k \in Keys : TenantOf[k] = tenant /\ table[k] # NoBridge}
\* Mutant: the limit itself still lets one more in.
HasRoomAtLimit(tenant) == Cardinality(InTable(tenant)) <= MaxProcesses[tenant]
HasRoom(tenant) == Cardinality(InTable(tenant)) < MaxProcesses[tenant]

\* ensure_started, and request() as far as it goes without waiting.
Call(c, b) ==
  /\ IF lifecycle[b] = <<>> /\ Up(b) THEN Request(c, b, <<>>, FALSE, "up")
     ELSE Enter(c, b, "get", lifecycle[b], held[b], pending[b])
  /\ Touch(c, b)
  /\ Settle([at EXCEPT ![c] = b])

\* _get_or_create_process for a caller of invoke() or notify().
Invoke(c) ==
  LET k == KeyOf[c] IN
  /\ pc[c] = "idle" /\ ~closed
  /\ \/ /\ table[k] # NoBridge
        /\ Call(c, table[k])
        /\ UNCHANGED <<table, owner>>
     \/ /\ table[k] = NoBridge /\ HasRoom(TenantOf[k])
        /\ \E b \in Bridges :
             /\ owner[b] = NoKey
             /\ \A a \in 1..(b - 1) : owner[a] # NoKey
             /\ owner' = [owner EXCEPT ![b] = k]
             /\ table' = [table EXCEPT ![k] = b]
             /\ Call(c, b)
     \/ /\ table[k] = NoBridge /\ ~HasRoom(TenantOf[k])
        /\ pc' = [pc EXCEPT ![c] = "ended"]
        /\ UNCHANGED <<table, owner, at, lifecycle, held, pending, idle>>
  /\ UNCHANGED <<child, todo, closed>>

-----------------------------------------------------------------------------
\* The task woken by the release of the lock of b: ensure_started() finds a
\* running subprocess, close() finds none, or recycling begins.
Turn(b) ==
  LET t == Head(lifecycle[b])
      rest == Tail(lifecycle[b])
  IN /\ lifecycle[b] # <<>> /\ ~held[b]
     /\ CASE pc[t] = "get" /\ Up(b) -> Request(t, b, rest, FALSE, "up")
          [] pc[t] = "ensure" /\ Up(b) -> Write(t, b, rest)
          [] pc[t] \in {"reap", "discard"} /\ child[b] = "none" -> CloseNothing(t, b, rest)
          [] OTHER -> /\ held' = [held EXCEPT ![b] = TRUE]
                      /\ pc' = FailAwaiting(pc, b, Told)
                      /\ pending' = [pending EXCEPT ![b] = {}]
                      /\ UNCHANGED lifecycle
     /\ Touch(t, b)
     /\ Settle(at)
     /\ UNCHANGED <<table, owner, child, todo, closed>>

\* _cleanup_process and _start_process are through.
StartOk(b) ==
  LET t == Head(lifecycle[b])
      rest == Tail(lifecycle[b])
  IN /\ held[b] /\ pc[t] \notin {"reap", "discard"}
     /\ child' = [child EXCEPT ![b] = "up"]
     /\ idle' = [idle EXCEPT ![b] = 0]
     /\ CASE pc[t] = "get" -> Request(t, b, rest, FALSE, "up")
          [] pc[t] = "ensure" -> Write(t, b, rest)
          [] pc[t] = "restart" -> Release(t, b, rest, Failed(t)) /\ UNCHANGED pending
          [] pc[t] = "recycle" -> Release(t, b, rest, Through(t)) /\ UNCHANGED pending
     /\ Settle(at)
     /\ UNCHANGED <<table, owner, todo, closed>>

\* The start raised.  Whoever called is told; _recycle_process removes the
\* bridge instead, which means to close it behind those who queue for it.
StartFails(b) ==
  LET t == Head(lifecycle[b])
      rest == Tail(lifecycle[b])
  IN /\ held[b] /\ pc[t] \notin {"reap", "discard"}
     /\ child' = [child EXCEPT ![b] = "none"]
     /\ \/ /\ pc[t] # "recycle"
           /\ Release(t, b, rest, Failed(t))
           /\ UNCHANGED <<table, pending>>
        \/ /\ pc[t] = "recycle" /\ ~Registered(b)
           /\ Release(t, b, rest, Through(t))
           /\ UNCHANGED <<table, pending>>
        \/ /\ pc[t] = "recycle" /\ Registered(b)
           /\ TakeOut(b)
           /\ CloseBridge(t, b, "discard", rest, FALSE, "none")
     /\ Settle(at)
     /\ UNCHANGED <<owner, idle, todo, closed>>

\* close() is through.
CloseDone(b) ==
  /\ held[b] /\ pc[Head(lifecycle[b])] \in {"reap", "discard"}
  /\ child' = [child EXCEPT ![b] = "none"]
  /\ Release(Head(lifecycle[b]), b, Tail(lifecycle[b]), Through(Head(lifecycle[b])))
  /\ Settle(at)
  /\ UNCHANGED <<table, owner, pending, idle, todo, closed>>

-----------------------------------------------------------------------------
\* The subprocess exits on its own and _wait_loop reports it.
Crash(b) ==
  /\ Up(b) /\ ~held[b]
  /\ child' = [child EXCEPT ![b] = "dead"]
  /\ pc' = FailAwaiting(pc, b, Told)
  /\ pending' = [pending EXCEPT ![b] = {}]
  /\ Settle(at)
  /\ UNCHANGED <<table, owner, lifecycle, held, idle, todo, closed>>

\* The stdout loop fails, and what is pending gets its exception: a ValueError
\* (a line over the limit of 1 MiB), which no handler of request() names, or a
\* RuntimeError (a line nested too deeply).  The subprocess runs on.
ReaderDies(b) ==
  /\ child[b] = "up" /\ ~held[b]
  /\ child' = [child EXCEPT ![b] = "deaf"]
  /\ \/ pc' = FailAwaiting(pc, b, [t \in Tasks |-> Uncaught(t)])
     \/ pc' = FailAwaiting(pc, b, [t \in Tasks |-> "broken"])
  /\ pending' = [pending EXCEPT ![b] = {}]
  /\ todo' = IF pc'[Reaper] = "sleep" THEN {} ELSE todo
  /\ Settle(at)
  /\ UNCHANGED <<table, owner, lifecycle, held, idle, closed>>

\* request() wakes with the MCPSupervisorError of its future, or with the
\* MCPRequestTimeout, and pops its id, whoever registered it last.
Ends(t) ==
  /\ pc' = [pc EXCEPT ![t] = Failed(t)]
  /\ pending' = [pending EXCEPT ![at[t]] = Popped(t, at[t])]
  /\ Settle(at)
  /\ UNCHANGED <<table, owner, child, lifecycle, held, idle, todo, closed>>

Fails(t) == pc[t] = "failed" /\ Ends(t)

\* Mutant: only health checks have a deadline.
DeadlineOfChecks(t) == pc[t] = "await" /\ t \notin Clients /\ Ends(t)
Deadline(t) == pc[t] = "await" /\ Ends(t)

\* request() pops its id and restarts the subprocess: it woke with the
\* RuntimeError of the stdout loop, or the write met a broken pipe, before the
\* exit was reported or with its future failed already.
Restart(t) ==
  LET b == at[t] IN
  /\ pc[t] \in {"await", "failed", "broken"}
  /\ child' = IF t \in pending[b] THEN [child EXCEPT ![b] = "dead"] ELSE child
  /\ Enter(t, b, "restart", lifecycle[b], held[b], Popped(t, b))
  /\ Settle(at)
  /\ UNCHANGED <<table, owner, idle, todo, closed>>

\* The answer to the entry of t arrives.
Answer(t) ==
  /\ pc[t] = "await" /\ child[at[t]] = "up" /\ t \in pending[at[t]]
  /\ pc' = [pc EXCEPT ![t] = Through(t)]
  /\ pending' = [pending EXCEPT ![at[t]] = @ \ {t}]
  /\ idle' = [idle EXCEPT ![at[t]] = 0]
  /\ Settle(at)
  /\ UNCHANGED <<table, owner, child, lifecycle, held, todo, closed>>

\* The line of a notification is drained, or the pipe is found broken.
Drained(n) ==
  /\ pc[n] = "drain"
  /\ pc' = [pc EXCEPT ![n] = "ended"]
  /\ \/ Up(at[n]) /\ idle' = [idle EXCEPT ![at[n]] = 0]
     \/ UNCHANGED idle
  /\ Settle(at)
  /\ UNCHANGED <<table, owner, child, lifecycle, held, pending, todo, closed>>

-----------------------------------------------------------------------------
\* _reaper_loop: reap_interval_seconds have passed, in which every task that
\* was ready has run.
Ready == {b \in Bridges : lifecycle[b] # <<>> /\ ~held[b]}
Wake ==
  /\ pc[Reaper] = "sleep" /\ ~closed
  /\ pc' = [pc EXCEPT ![Reaper] = "pass"]
  /\ todo' = {b \in Bridges : Registered(b)}
  /\ idle' = [b \in Bridges |->
                IF IdleTooLong(b) \/ owner[b] = NoKey \/ Ready # {}
                THEN idle[b] ELSE idle[b] + 1]
  /\ UNCHANGED <<table, owner, child, lifecycle, held, pending, at, closed>>

\* _recycle_process up to its first suspension.
Recycle(t, b) ==
  /\ IF Registered(b) THEN Enter(t, b, "recycle", lifecycle[b], held[b], pending[b])
     ELSE /\ pc' = [pc EXCEPT ![t] = Through(t)]
          /\ UNCHANGED <<lifecycle, held, pending>>
  /\ UNCHANGED <<table, idle>>

\* What _reap_once calls idle.
Idle(b) == IdleTooLong(b) /\ ~HasPending(b)

\* One item of _reap_once.
Examine(b) ==
  /\ pc[Reaper] = "pass" /\ b \in todo
  /\ todo' = todo \ {b}
  /\ \/ /\ Idle(b) /\ Registered(b)
        /\ TakeOut(b)
        /\ CloseBridge(Reaper, b, "reap", lifecycle[b], held[b], child[b])
        /\ UNCHANGED idle
     \/ /\ Idle(b) /\ ~Registered(b)
        /\ UNCHANGED <<table, lifecycle, held, pending, pc, idle>>
     \/ ~Idle(b) /\ ~Up(b) /\ Recycle(Reaper, b)
     \/ /\ ~Idle(b) /\ Up(b) /\ Checked(b)
        /\ Request(Reaper, b, lifecycle[b], held[b], "up")
        /\ Touch(Reaper, b)
        /\ UNCHANGED table
     \/ /\ ~Idle(b) /\ Up(b) /\ ~Checked(b)
        /\ UNCHANGED <<table, lifecycle, held, pending, pc, idle>>
  /\ Settle([at EXCEPT ![Reaper] = b])
  /\ UNCHANGED <<owner, child, closed>>

\* The health check returned False.
Unhealthy(t) ==
  /\ pc[t] = "unhealthy"
  /\ Recycle(t, at[t])
  /\ Settle(at)
  /\ UNCHANGED <<owner, child, todo, closed>>

\* health_check() of the manager.
Probe(p) ==
  LET b == table[KeyOf[p]] IN
  /\ pc[p] = "idle" /\ ~closed
  /\ \/ /\ b = NoBridge
        /\ pc' = [pc EXCEPT ![p] = "ended"]
        /\ UNCHANGED <<table, lifecycle, held, pending, idle>>
     \/ /\ b # NoBridge
        /\ \/ ~Up(b) /\ Recycle(p, b)
           \/ /\ Up(b) /\ Checked(b)
              /\ Request(p, b, lifecycle[b], held[b], "up")
              /\ Touch(p, b)
              /\ UNCHANGED table
           \/ /\ Up(b) /\ ~Checked(b)
              /\ pc' = [pc EXCEPT ![p] = "ended"]
              /\ UNCHANGED <<table, lifecycle, held, pending, idle>>
  /\ Settle([at EXCEPT ![p] = b])
  /\ UNCHANGED <<owner, child, todo, closed>>

PassEnds ==
  /\ pc[Reaper] = "pass" /\ todo = {}
  /\ pc' = [pc EXCEPT ![Reaper] = "sleep"]
  /\ UNCHANGED <<table, owner, child, lifecycle, held, pending, idle, at, todo, closed>>

(***************************************************************************)
(* close(), once the server is through with its requests: the reaper is    *)
(* cancelled where it is, which may leave the bridge it works on as it     *)
(* was, and every bridge still in the table is closed.                     *)
(***************************************************************************)
Close ==
  /\ ~closed /\ \A c \in Clients \cup Probes : pc[c] \in {"idle", "ended"}
  /\ closed' = TRUE
  /\ pc' = [pc EXCEPT ![Reaper] = "stopped"]
  /\ \E cut \in SUBSET {b \in Bridges : held[b]} :
       child' = [b \in Bridges |-> IF Registered(b) \/ b \in cut THEN "none"
                                   ELSE child[b]]
  /\ pending' = [b \in Bridges |-> IF Registered(b) THEN {} ELSE pending[b]]
  /\ table' = [k \in Keys |-> NoBridge]
  /\ lifecycle' = [b \in Bridges |-> <<>>]
  /\ held' = [b \in Bridges |-> FALSE]
  /\ todo' = {}
  /\ Settle(at)
  /\ UNCHANGED <<owner, idle>>

-----------------------------------------------------------------------------
Init ==
  /\ table = [k \in Keys |-> NoBridge]
  /\ owner = [b \in Bridges |-> NoKey]
  /\ child = [b \in Bridges |-> "none"]
  /\ lifecycle = [b \in Bridges |-> <<>>]
  /\ held = [b \in Bridges |-> FALSE]
  /\ pending = [b \in Bridges |-> {}]
  /\ idle = [b \in Bridges |-> 0]
  /\ at = [t \in Tasks |-> NoBridge]
  /\ pc = [t \in Tasks |-> IF t = Reaper THEN "sleep" ELSE "idle"]
  /\ todo = {} /\ closed = FALSE

Next ==
  \/ \E c \in Clients : Invoke(c)
  \/ \E n \in Notes : Drained(n)
  \/ \E p \in Probes : Probe(p)
  \/ \E b \in Bridges : Turn(b) \/ StartOk(b) \/ StartFails(b) \/ CloseDone(b)
                        \/ Crash(b) \/ ReaderDies(b) \/ Examine(b)
  \/ \E t \in Tasks : Fails(t) \/ Deadline(t) \/ Restart(t) \/ Answer(t) \/ Unhealthy(t)
  \/ Wake \/ PassEnds \/ Close

Spec == Init /\ [][Next]_vars

(***************************************************************************)
(* The loop runs every ready task, starts, stops and waits for an answer   *)
(* are bounded by timeouts, and the reaper's sleep ends.  A request is      *)
(* drained (that it may not be is shown of ManagedProcess), a notification *)
(* need not be.  Nobody has to call, to crash or to shut down.             *)
(***************************************************************************)
Fairness ==
  /\ \A b \in Bridges : WF_vars(Turn(b)) /\ WF_vars(StartOk(b) \/ StartFails(b))
                        /\ WF_vars(CloseDone(b))
  /\ \A t \in Tasks : /\ WF_vars(Deadline(t)) /\ WF_vars(Unhealthy(t))
                      /\ WF_vars((Fails(t) \/ Restart(t)) /\ pc[t] # "await")
  /\ WF_vars(Wake) /\ WF_vars(\E b \in Bridges : Examine(b))
  /\ WF_vars(PassEnds)

FairSpec == Spec /\ Fairness

-----------------------------------------------------------------------------
\* The values of every variable.
TypeOK ==
  /\ table \in [Keys -> Bridges \cup {NoBridge}]
  /\ owner \in [Bridges -> Keys \cup {NoKey}]
  /\ child \in [Bridges -> {"none", "up", "deaf", "dead"}]
  /\ lifecycle \in [Bridges -> Seq(Tasks)]
  /\ held \in [Bridges -> BOOLEAN]
  /\ pending \in [Bridges -> SUBSET Tasks]
  /\ idle \in [Bridges -> 0..Ttl]
  /\ at \in [Tasks -> Bridges \cup {NoBridge}]
  /\ pc \in [Tasks -> CallerStates \cup ReaperStates]
  /\ todo \subseteq Bridges
  /\ closed \in BOOLEAN

\* A tenant never has more bridges in the table than its max_processes
\* (_enforce_tenant_capacity_locked, lines 566-575).
CapacityKept ==
  \A tenant \in Tenants : Cardinality(InTable(tenant)) <= MaxProcesses[tenant]

\* Until shutdown a bridge leaves the table only when nothing is pending on it
\* and nobody with an id of its own awaits an answer from it, whoever removes it
\* and however long ago it was looked at: a remover must not take out the
\* successor of the bridge it found (lines 595-604 and 625-630).
OwnId(t) == \A u \in Tasks \ {t} : ~SameId(t, u)
Awaits(t, b) == pc[t] = "await" /\ at[t] = b /\ OwnId(t)
DropsOnlyTheIdle ==
  [][\A k \in Keys : table[k] # NoBridge /\ table'[k] = NoBridge /\ ~closed'
       => ~HasPending(table[k]) /\ \A t \in Tasks : ~Awaits(t, table[k])]_vars

\* A bridge the manager closes is out of the table first, so that new callers
\* get another one (lines 625-630).
BeingClosed(b) == held[b] /\ pc[Head(lifecycle[b])] \in {"reap", "discard"}
ClosedIsOutOfTable == \A b \in Bridges : BeingClosed(b) => ~Registered(b)

\* Until shutdown a subprocess runs in a bridge the reaper knows, or somebody
\* is at work on it: what is idle for too long is reaped (README.md:88).
NoStrayProcess ==
  \A b \in Bridges : Up(b) => closed \/ Registered(b) \/ lifecycle[b] # <<>>
                                     \/ \E t \in Tasks : at[t] = b

\* Every call of invoke() comes to an end.
EveryCallerEnds == \A c \in Callers : pc[c] # "idle" ~> pc[c] = "ended"

\* From some step on no subprocess crashes and none goes deaf.
NoMoreCrashes ==
  <>[][\A b \in Bridges : child'[b] \in {"dead", "deaf"} => child'[b] = child[b]]_vars

\* A subprocess nobody listens to any more is found out and replaced, where a
\* health check is configured, even if it was the health check that met the
\* failure and ended the reaper's pass (lines 337-342, 577-585, 617-620).
DeafIsReplaced ==
  NoMoreCrashes => \A b \in Bridges :
    (child[b] = "deaf" /\ Registered(b) /\ Checked(b))
      ~> (child[b] # "deaf" \/ ~Registered(b))

\* Once that is so, and the callers are gone, the reaper takes out every
\* bridge: "if a process is idle longer than idle_ttl_seconds it is reaped"
\* (README.md:88).
IdleIsReaped == NoMoreCrashes => <>[](\A k \in Keys : table[k] = NoBridge)

\* Where no health check is configured a bridge is reaped however it got idle,
\* through answers, failed starts, crashes or timeouts, unless a request that
\* could not be encoded has left its entry in _pending: that one stays for good
\* (lines 137-140 and 315-320).
LeftBehind(b) ==
  b # NoBridge /\ \E c \in Unencodable : c \in pending[b] /\ pc[c] = "ended"
UncheckedIsReaped ==
  NoMoreCrashes => \A k \in Keys \ HealthChecked :
    <>[](table[k] = NoBridge \/ LeftBehind(table[k]))
=============================================================================
