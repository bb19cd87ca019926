-------------------------- MODULE ProcessPool_proofs --------------------------
(***************************************************************************)
(* Proofs about ProcessPool, for any sets of callers, probes, keys and     *)
(* tenants, and any limits: no tenant ever has more bridges than it may,   *)
(* nobody gets a bridge that is being closed, and no bridge is removed     *)
(* under a request that awaits its answer.                                 *)
(***************************************************************************)
EXTENDS ProcessPool, TLAPS, FiniteSetTheorems, SequenceTheorems

TableType == table \in [Keys -> Bridges \cup {NoBridge}]
FiniteTable == \A tenant \in Tenants : IsFiniteSet(InTable(tenant))

\* CapacityKept alone is not inductive: a cardinality means something only
\* while the set is finite.
CapacityInv == TableType /\ FiniteTable /\ CapacityKept

\* What only takes bridges out of the table keeps within the limit.
Shrinks == table' \in [Keys -> Bridges \cup {NoBridge}]
           /\ \A k \in Keys : table'[k] \in {table[k], NoBridge}

LEMMA ShrinkingKeepsCapacity ==
  ASSUME CapacityInv, Shrinks
  PROVE  CapacityInv'
<1>. SUFFICES ASSUME NEW tenant \in Tenants
              PROVE  /\ IsFiniteSet(InTable(tenant)')
                     /\ Cardinality(InTable(tenant)') <= MaxProcesses[tenant]
  BY DEF CapacityInv, Shrinks, TableType, FiniteTable, CapacityKept, InTable
<1>1. InTable(tenant)' \subseteq InTable(tenant)
  BY DEF Shrinks, InTable
<1>2. /\ IsFiniteSet(InTable(tenant))
      /\ Cardinality(InTable(tenant)) <= MaxProcesses[tenant]
  BY DEF CapacityInv, FiniteTable, CapacityKept
<1>3. /\ IsFiniteSet(InTable(tenant)')
      /\ Cardinality(InTable(tenant)') <= Cardinality(InTable(tenant))
  BY <1>1, <1>2, FS_Subset
<1>4. Cardinality(InTable(tenant)') \in Nat /\ Cardinality(InTable(tenant)) \in Nat
  BY <1>2, <1>3, FS_CardinalityType
<1>5. MaxProcesses[tenant] \in Nat
  BY PoolAssumption
<1>. QED  BY <1>2, <1>3, <1>4, <1>5

\* A removal is one that only takes out, whatever the bridge.
LEMMA RemovalShrinks ==
  ASSUME CapacityInv, NEW b, TakeOut(b)
  PROVE  Shrinks
BY DEF CapacityInv, TableType, TakeOut, Shrinks

LEMMA QuietShrinks ==
  ASSUME CapacityInv, UNCHANGED table
  PROVE  Shrinks
BY DEF CapacityInv, TableType, Shrinks

\* A new bridge is entered only below the limit of its tenant, and counts for
\* no other.
LEMMA InvokeKeepsCapacity ==
  ASSUME CapacityInv, NEW c \in Clients, Invoke(c)
  PROVE  CapacityInv'
<1>. DEFINE k == KeyOf[c]
<1>0. k \in Keys /\ TenantOf[k] \in Tenants
  BY PoolAssumption
<1>1. CASE UNCHANGED table
  BY <1>1, QuietShrinks, ShrinkingKeepsCapacity
<1>2. ASSUME table[k] = NoBridge, HasRoom(TenantOf[k]),
             NEW b \in Bridges, table' = [table EXCEPT ![k] = b]
      PROVE  CapacityInv'
  <2>1. TableType' /\ b # NoBridge
    BY <1>0, <1>2 DEF CapacityInv, TableType, Bridges, NoBridge
  <2>2. ASSUME NEW tenant \in Tenants
        PROVE  /\ IsFiniteSet(InTable(tenant)')
               /\ Cardinality(InTable(tenant)') <= MaxProcesses[tenant]
    <3>1. /\ IsFiniteSet(InTable(tenant))
          /\ Cardinality(InTable(tenant)) <= MaxProcesses[tenant]
      BY <2>2 DEF CapacityInv, FiniteTable, CapacityKept
    <3>2. CASE tenant = TenantOf[k]
      <4>1. InTable(tenant)' = InTable(tenant) \cup {k}
        BY <1>0, <1>2, <2>1, <3>2 DEF InTable, CapacityInv, TableType
      <4>2. k \notin InTable(tenant)
        BY <1>2 DEF InTable
      <4>3. /\ IsFiniteSet(InTable(tenant)')
            /\ Cardinality(InTable(tenant)') = Cardinality(InTable(tenant)) + 1
        BY <3>1, <4>1, <4>2, FS_AddElement
      <4>4. Cardinality(InTable(tenant)) < MaxProcesses[tenant]
        BY <1>2, <3>2 DEF HasRoom
      <4>5. Cardinality(InTable(tenant)) \in Nat /\ MaxProcesses[tenant] \in Nat
        BY <3>1, <2>2, FS_CardinalityType, PoolAssumption
      <4>. QED  BY <4>3, <4>4, <4>5
    <3>3. CASE tenant # TenantOf[k]
      <4>1. InTable(tenant)' = InTable(tenant)
        BY <1>0, <1>2, <3>3 DEF InTable, CapacityInv, TableType
      <4>. QED  BY <3>1, <4>1
    <3>. QED  BY <3>2, <3>3
  <2>. QED  BY <2>1, <2>2 DEF CapacityInv, FiniteTable, CapacityKept, InTable
<1>. QED  BY <1>1, <1>2 DEF Invoke

-----------------------------------------------------------------------------
\* The table is empty at first.
LEMMA InitCapacity == Init => CapacityInv
<1>. SUFFICES ASSUME Init PROVE CapacityInv
  OBVIOUS
<1>1. TableType
  BY DEF Init, TableType
<1>2. ASSUME NEW tenant \in Tenants
      PROVE  /\ IsFiniteSet(InTable(tenant))
             /\ Cardinality(InTable(tenant)) <= MaxProcesses[tenant]
  <2>1. InTable(tenant) = {}
    BY DEF Init, InTable
  <2>2. MaxProcesses[tenant] \in Nat
    BY PoolAssumption
  <2>. QED  BY <2>1, <2>2, FS_EmptySet
<1>. QED  BY <1>1, <1>2 DEF CapacityInv, FiniteTable, CapacityKept

\* Every step but the entry of a new bridge leaves the table or takes out of it.
LEMMA StepShrinks ==
  ASSUME CapacityInv, [Next]_vars
  PROVE  Shrinks \/ \E c \in Clients : Invoke(c)
<1>1. ASSUME NEW p \in Probes, Probe(p) PROVE Shrinks
  BY <1>1, QuietShrinks DEF Probe, Recycle
<1>2. ASSUME NEW b \in Bridges, Turn(b) PROVE Shrinks
  BY <1>2, QuietShrinks DEF Turn
<1>3. ASSUME NEW b \in Bridges, StartOk(b) PROVE Shrinks
  BY <1>3, QuietShrinks DEF StartOk
<1>4. ASSUME NEW b \in Bridges, StartFails(b) PROVE Shrinks
  BY <1>4, QuietShrinks, RemovalShrinks DEF StartFails
<1>5. ASSUME NEW b \in Bridges, CloseDone(b) PROVE Shrinks
  BY <1>5, QuietShrinks DEF CloseDone
<1>6. ASSUME NEW b \in Bridges, Crash(b) PROVE Shrinks
  BY <1>6, QuietShrinks DEF Crash
<1>7. ASSUME NEW b \in Bridges, Examine(b) PROVE Shrinks
  BY <1>7, QuietShrinks, RemovalShrinks DEF Examine, Recycle
<1>8. ASSUME NEW t \in Tasks, Restart(t) PROVE Shrinks
  BY <1>8, QuietShrinks DEF Restart
<1>9. ASSUME NEW t \in Tasks, Answer(t) PROVE Shrinks
  BY <1>9, QuietShrinks DEF Answer
<1>10. ASSUME NEW t \in Tasks, Fails(t) \/ Deadline(t) PROVE Shrinks
  BY <1>10, QuietShrinks DEF Fails, Deadline, Ends
<1>11. ASSUME NEW t \in Tasks, Unhealthy(t) PROVE Shrinks
  BY <1>11, QuietShrinks DEF Unhealthy, Recycle
<1>12. CASE Wake
  BY <1>12, QuietShrinks DEF Wake
<1>13. CASE PassEnds
  BY <1>13, QuietShrinks DEF PassEnds
<1>14. CASE Close
  BY <1>14 DEF Close, Shrinks
<1>15. CASE UNCHANGED vars
  BY <1>15, QuietShrinks DEF vars
<1>16. ASSUME NEW n \in Notes, Drained(n) PROVE Shrinks
  BY <1>16, QuietShrinks DEF Drained
<1>17. ASSUME NEW b \in Bridges, ReaderDies(b) PROVE Shrinks
  BY <1>17, QuietShrinks DEF ReaderDies
<1>. QED  BY <1>1, <1>2, <1>3, <1>4, <1>5, <1>6, <1>7, <1>8, <1>9, <1>10, <1>11,
             <1>12, <1>13, <1>14, <1>15, <1>16, <1>17 DEF Next

\* Callers create bridges while the reaper and failed starts remove them, and no
\* tenant ever has more than max_processes (mcp_supervisor.py:566-575).
THEOREM CapacityIsNeverExceeded == Spec => []CapacityKept
<1>1. CapacityInv /\ [Next]_vars => CapacityInv'
  BY StepShrinks, ShrinkingKeepsCapacity, InvokeKeepsCapacity
<1>2. CapacityInv => CapacityKept
  BY DEF CapacityInv
<1>. QED  BY <1>1, <1>2, InitCapacity, PTL DEF Spec

-----------------------------------------------------------------------------
(***************************************************************************)
(* Who is where.  PoolInv is inductive: who queues for the lock of a       *)
(* bridge works on that bridge, once; a held lock has a holder; a bridge   *)
(* somebody closes is out of the                                           *)
(* table; and a bridge in the table, queued for or worked on has the key   *)
(* it was made for.  The lock states are what StartOk needs to be defined. *)
(***************************************************************************)
\* What pending holds is another matter, taken up below.
PendingType == pending \in [Bridges -> SUBSET Tasks]
Typed ==
  /\ table \in [Keys -> Bridges \cup {NoBridge}]
  /\ owner \in [Bridges -> Keys \cup {NoKey}]
  /\ child \in [Bridges -> {"none", "up", "deaf", "dead"}]
  /\ lifecycle \in [Bridges -> Seq(Tasks)]
  /\ held \in [Bridges -> BOOLEAN]
  /\ idle \in [Bridges -> 0..Ttl]
  /\ at \in [Tasks -> Bridges \cup {NoBridge}]
  /\ pc \in [Tasks -> CallerStates \cup ReaperStates]
  /\ todo \subseteq Bridges
  /\ closed \in BOOLEAN

PcType == [Tasks -> CallerStates \cup ReaperStates]
\* The states in the queue of a lock, and those of a task with no bridge.
AtLock == {"get", "ensure", "restart", "recycle", "reap", "discard"}
Off == {"ended", "pass", "sleep", "stopped"}
Closing(t) == pc[t] \in {"reap", "discard"}

Members(q) == {q[i] : i \in DOMAIN q}
Distinct(q) == \A i, j \in DOMAIN q : q[i] = q[j] => i = j

QueueInv == \A b \in Bridges :
  /\ Distinct(lifecycle[b])
  /\ \A t \in Members(lifecycle[b]) :
       at[t] = b /\ pc[t] \in AtLock /\ (Closing(t) => ~Registered(b))
HeldInv == \A b \in Bridges : held[b] => lifecycle[b] # <<>>
OwnerInv ==
  /\ \A b \in Bridges : lifecycle[b] # <<>> => owner[b] # NoKey
  /\ \A k \in Keys : table[k] # NoBridge => owner[table[k]] = k
AtInv == \A t \in Tasks :
  /\ at[t] # NoBridge => owner[at[t]] # NoKey
  /\ pc[t] \notin Off \cup {"idle"} => at[t] # NoBridge
PoolInv == Typed /\ QueueInv /\ HeldInv /\ OwnerInv /\ AtInv

\* What is left of a queue when its head goes, or when one more comes.
LEMMA TailMembers ==
  ASSUME NEW S, NEW q \in Seq(S), q # <<>>, Distinct(q)
  PROVE  /\ Head(q) \in S /\ Head(q) \in Members(q)
         /\ Tail(q) \in Seq(S) /\ Distinct(Tail(q))
         /\ Members(Tail(q)) = Members(q) \ {Head(q)}
<1>1. /\ Len(q) \in Nat \ {0} /\ DOMAIN q = 1..Len(q) /\ Head(q) = q[1] /\ q[1] \in S
      /\ Tail(q) \in Seq(S) /\ DOMAIN Tail(q) = 1..(Len(q) - 1)
      /\ \A i \in 1..(Len(q) - 1) : Tail(q)[i] = q[i + 1]
  BY HeadTailProperties, LenProperties, EmptySeq
<1>2. Distinct(Tail(q))
  BY <1>1 DEF Distinct
<1>3. Members(Tail(q)) \subseteq Members(q) \ {Head(q)}
  BY <1>1 DEF Members, Distinct
<1>4. \A x \in Members(q) \ {Head(q)} : x \in Members(Tail(q))
  <2>. SUFFICES ASSUME NEW i \in 1..Len(q), i # 1 PROVE q[i] \in Members(Tail(q))
    BY <1>1 DEF Members
  <2>1. i - 1 \in 1..(Len(q) - 1) /\ Tail(q)[i - 1] = q[i]
    BY <1>1
  <2>. QED  BY <1>1, <2>1 DEF Members
<1>5. Head(q) \in S /\ Head(q) \in Members(q)
  BY <1>1 DEF Members
<1>. QED  BY <1>1, <1>2, <1>3, <1>4, <1>5

LEMMA AppendMembers ==
  ASSUME NEW S, NEW q \in Seq(S), NEW t \in S, Distinct(q), t \notin Members(q)
  PROVE  /\ Append(q, t) \in Seq(S) /\ Append(q, t) # <<>> /\ Distinct(Append(q, t))
         /\ Members(Append(q, t)) = Members(q) \cup {t}
<1>1. /\ Len(q) \in Nat /\ DOMAIN q = 1..Len(q)
      /\ Append(q, t) \in Seq(S) /\ DOMAIN Append(q, t) = 1..(Len(q) + 1)
      /\ Append(q, t) # <<>>
      /\ \A i \in 1..Len(q) : Append(q, t)[i] = q[i]
      /\ Append(q, t)[Len(q) + 1] = t
  BY AppendProperties, LenProperties
<1>2. Distinct(Append(q, t))
  BY <1>1 DEF Distinct, Members
<1>3. Members(Append(q, t)) = Members(q) \cup {t}
  <2>1. \A i \in 1..(Len(q) + 1) : i \in 1..Len(q) \/ i = Len(q) + 1
    BY <1>1
  <2>2. Len(q) + 1 \in 1..(Len(q) + 1) /\ \A i \in 1..Len(q) : i \in 1..(Len(q) + 1)
    BY <1>1
  <2>. QED  BY <1>1, <2>1, <2>2 DEF Members
<1>. QED  BY <1>1, <1>2, <1>3

\* Where a failed future leaves whoever awaits it.
Left == {"failed", "broken", "ended", "sleep"}
LEMMA FailAwaitingType ==
  ASSUME NEW p \in PcType, NEW b, NEW state, \A t \in Tasks : state[t] \in Left
  PROVE  /\ FailAwaiting(p, b, state) \in PcType
         /\ \A u \in Tasks : \/ FailAwaiting(p, b, state)[u] = p[u]
                             \/ /\ p[u] = "await"
                                /\ FailAwaiting(p, b, state)[u] \in Left
         /\ \A u \in Tasks : at[u] = b /\ u \in pending[b]
                               => FailAwaiting(p, b, state)[u] # "await"
BY DEF FailAwaiting, Left, PcType, CallerStates, ReaperStates

LEMMA ToldType == \A t \in Tasks : Told[t] \in Left
BY DEF Told, Left

-----------------------------------------------------------------------------
(***************************************************************************)
(* Moved sums up what Enter, Release and what is made of them do to the    *)
(* lock of b, when t goes on behind the queue q or leaves it to q.         *)
(***************************************************************************)
Moved(t, b, q) ==
  /\ pc' \in PcType /\ held' \in [Bridges -> BOOLEAN]
  /\ lifecycle' \in [Bridges -> Seq(Tasks)]
  /\ \A c \in Bridges \ {b} : lifecycle'[c] = lifecycle[c] /\ held'[c] = held[c]
  /\ \/ lifecycle'[b] = q /\ ~held'[b] /\ pc'[t] \notin AtLock
     \/ lifecycle'[b] = Append(q, t) /\ pc'[t] \in AtLock
  /\ \A u \in Tasks \ {t} : pc'[u] = pc[u] \/ (pc[u] = "await" /\ pc'[u] \in Left)

LEMMA EnterMoves ==
  ASSUME Typed, NEW t \in Tasks, NEW b \in Bridges, NEW q \in Seq(Tasks),
         NEW op \in AtLock, NEW h \in BOOLEAN, NEW left, Enter(t, b, op, q, h, left)
  PROVE  Moved(t, b, q) /\ pc'[t] = op
<1>. DEFINE p == [pc EXCEPT ![t] = op]
<1>1. p \in PcType /\ pc \in PcType /\ p[t] = op /\ \A u \in Tasks \ {t} : p[u] = pc[u]
  BY DEF Typed, PcType, AtLock, CallerStates, ReaperStates
<1>2. /\ q = <<>> => pc' = FailAwaiting(p, b, Told)
      /\ q # <<>> => pc' = p
  <2>1. pc' = IF q = <<>> THEN FailAwaiting(p, b, Told) ELSE p
    BY Zenon DEF Enter
  <2>. QED  BY Zenon, <2>1
<1>. HIDE DEF p
<1>3. /\ pc' \in PcType /\ pc'[t] = op
      /\ \A u \in Tasks \ {t} : pc'[u] = pc[u] \/ (pc[u] = "await" /\ pc'[u] \in Left)
  BY <1>1, <1>2, FailAwaitingType, ToldType DEF AtLock
<1>4. Append(q, t) \in Seq(Tasks)
  BY AppendProperties
<1>5. /\ lifecycle' = [lifecycle EXCEPT ![b] = Append(q, t)]
      /\ held' = [held EXCEPT ![b] = h \/ q = <<>>]
  BY DEF Enter
<1>6. lifecycle' \in [Bridges -> Seq(Tasks)] /\ held' \in [Bridges -> BOOLEAN]
  BY <1>4, <1>5 DEF Typed
<1>. QED  BY <1>3, <1>5, <1>6 DEF Moved, Typed

LEMMA ReleaseMoves ==
  ASSUME Typed, NEW t \in Tasks, NEW b \in Bridges, NEW q \in Seq(Tasks),
         NEW state \in (CallerStates \cup ReaperStates) \ AtLock,
         Release(t, b, q, state)
  PROVE  Moved(t, b, q) /\ pc'[t] = state
BY DEF Release, Moved, Typed, PcType

LEMMA WriteMoves ==
  ASSUME Typed, NEW t \in Tasks, NEW b \in Bridges, NEW q \in Seq(Tasks), Write(t, b, q)
  PROVE  Moved(t, b, q) /\ pc'[t] \notin AtLock
<1>1. /\ Written(t) \in (CallerStates \cup ReaperStates) \ AtLock
      /\ Failed(t) \in (CallerStates \cup ReaperStates) \ AtLock
      /\ "ended" \in (CallerStates \cup ReaperStates) \ AtLock
  BY DEF Written, Failed, CallerStates, ReaperStates, AtLock
<1>. QED  BY <1>1, ReleaseMoves DEF Write

LEMMA RequestMoves ==
  ASSUME Typed, NEW t \in Tasks, NEW b \in Bridges, NEW q \in Seq(Tasks),
         NEW h \in BOOLEAN, Request(t, b, q, h, "up")
  PROVE  Moved(t, b, q) /\ ~ (pc'[t] \in {"reap", "discard"})
<1>1. CASE q = <<>>
  BY <1>1, WriteMoves DEF Request, AtLock
<1>2. CASE q # <<>>
  BY <1>2, EnterMoves DEF Request, AtLock
<1>. QED  BY <1>1, <1>2

LEMMA CloseNothingMoves ==
  ASSUME Typed, NEW t \in Tasks, NEW b \in Bridges, NEW q \in Seq(Tasks),
         CloseNothing(t, b, q)
  PROVE  Moved(t, b, q) /\ pc'[t] \notin AtLock
<1>. DEFINE p == [pc EXCEPT ![t] = Through(t)]
<1>1. /\ p \in PcType /\ p[t] \in {"pass", "ended"}
      /\ \A u \in Tasks \ {t} : p[u] = pc[u]
  BY DEF Typed, Through, PcType, CallerStates, ReaperStates
<1>2. pc' = FailAwaiting(p, b, Told)
  BY DEF CloseNothing
<1>. HIDE DEF p
<1>3. /\ pc' \in PcType /\ pc'[t] \notin AtLock
      /\ \A u \in Tasks \ {t} : pc'[u] = pc[u] \/ (pc[u] = "await" /\ pc'[u] \in Left)
  BY <1>1, <1>2, FailAwaitingType, ToldType DEF AtLock
<1>4. /\ lifecycle' = [lifecycle EXCEPT ![b] = q]
      /\ held' = [held EXCEPT ![b] = FALSE]
  BY DEF CloseNothing
<1>. QED  BY <1>3, <1>4 DEF Moved, Typed

LEMMA CloseMoves ==
  ASSUME Typed, NEW t \in Tasks, NEW b \in Bridges, NEW q \in Seq(Tasks),
         NEW h \in BOOLEAN, NEW op \in {"reap", "discard"},
         NEW st, CloseBridge(t, b, op, q, h, st)
  PROVE  Moved(t, b, q)
<1>2. CASE q = <<>> /\ st = "none"
  BY <1>2, CloseNothingMoves DEF CloseBridge
<1>3. CASE ~ (q = <<>> /\ st = "none")
  BY <1>3, EnterMoves DEF CloseBridge, AtLock
<1>. QED  BY <1>2, <1>3

-----------------------------------------------------------------------------
(***************************************************************************)
(* What every step leaves of the owners and of the table: a bridge keeps   *)
(* its key, a bridge in the table is under that key, and one that somebody *)
(* queues for does not come back into the table.                           *)
(***************************************************************************)
Kept ==
  /\ table' \in [Keys -> Bridges \cup {NoBridge}]
  /\ owner' \in [Bridges -> Keys \cup {NoKey}]
  /\ \A c \in Bridges : owner[c] # NoKey => owner'[c] = owner[c]
  /\ \A c \in Bridges : lifecycle[c] # <<>> /\ Registered(c)' => Registered(c)
  /\ \A k \in Keys : table'[k] # NoBridge => owner'[table'[k]] = k

LEMMA QuietKept ==
  ASSUME PoolInv, UNCHANGED <<table, owner>>
  PROVE  Kept
BY DEF Kept, PoolInv, Typed, OwnerInv, Registered

LEMMA RemovalKept ==
  ASSUME PoolInv, NEW b \in Bridges, TakeOut(b), UNCHANGED owner
  PROVE  Kept /\ ~Registered(b)'
<1>1. \A k \in Keys : table'[k] \in {table[k], NoBridge}
  BY DEF PoolInv, Typed, TakeOut
<1>2. ~Registered(b)'
  BY DEF PoolInv, Typed, TakeOut, Registered, Bridges, NoBridge
<1>3. \A c \in Bridges : Registered(c)' => Registered(c)
  BY <1>1 DEF PoolInv, Typed, Registered, Bridges, NoBridge
<1>4. table' \in [Keys -> Bridges \cup {NoBridge}]
  BY DEF PoolInv, Typed, TakeOut
<1>. QED  BY <1>1, <1>2, <1>3, <1>4 DEF Kept, PoolInv, Typed, OwnerInv

\* t joins the queue of b, or is at its head and leaves or goes to its end.
Steps(t, b, q) ==
  \/ q = lifecycle[b] /\ pc[t] \notin AtLock
  \/ lifecycle[b] # <<>> /\ t = Head(lifecycle[b]) /\ q = Tail(lifecycle[b])

\* Either way it is not in the rest, nor in another queue.
LEMMA StepsAside ==
  ASSUME PoolInv, NEW t \in Tasks, NEW b \in Bridges, NEW q, Steps(t, b, q)
  PROVE  /\ q \in Seq(Tasks) /\ Distinct(q) /\ t \notin Members(q)
         /\ Members(q) \subseteq Members(lifecycle[b])
         /\ \A c \in Bridges \ {b} : t \notin Members(lifecycle[c])
<1>0. /\ lifecycle[b] \in Seq(Tasks) /\ Distinct(lifecycle[b])
      /\ \A c \in Bridges : \A u \in Members(lifecycle[c]) : at[u] = c /\ pc[u] \in AtLock
  BY DEF PoolInv, Typed, QueueInv
<1>1. CASE q = lifecycle[b] /\ pc[t] \notin AtLock
  BY <1>0, <1>1
<1>2. CASE lifecycle[b] # <<>> /\ t = Head(lifecycle[b]) /\ q = Tail(lifecycle[b])
  <2>1. /\ q \in Seq(Tasks) /\ Distinct(q) /\ t \in Members(lifecycle[b])
        /\ Members(q) = Members(lifecycle[b]) \ {t}
    BY <1>0, <1>2, TailMembers
  <2>. QED  BY <1>0, <2>1
<1>. QED  BY <1>1, <1>2 DEF Steps

\* Only a queue that somebody is in has members.
LEMMA MembersType ==
  ASSUME NEW q \in Seq(Tasks)
  PROVE  Members(q) \subseteq Tasks /\ (Members(q) # {} => q # <<>>)
<1>1. DOMAIN q = 1..Len(q) /\ (\A i \in 1..Len(q) : q[i] \in Tasks) /\ Len(q) \in Nat
  BY LenProperties, ElementOfSeq
<1>2. q = <<>> => Members(q) = {}
  BY DEF Members
<1>. QED  BY <1>1, <1>2 DEF Members

\* The types of what only says who works where.
PlacesOK ==
  /\ lifecycle \in [Bridges -> Seq(Tasks)] /\ held \in [Bridges -> BOOLEAN]
  /\ at \in [Tasks -> Bridges \cup {NoBridge}] /\ pc \in PcType

\* Who works where after a step of t at the lock of b.
LEMMA MoveSafe ==
  ASSUME PoolInv, Kept, NEW t \in Tasks, NEW b \in Bridges, NEW q,
         Steps(t, b, q), Moved(t, b, q), Settle([at EXCEPT ![t] = b]),
         owner'[b] # NoKey, Closing(t)' => ~Registered(b)'
  PROVE  PlacesOK' /\ QueueInv' /\ HeldInv' /\ OwnerInv' /\ AtInv'
<1>0. /\ q \in Seq(Tasks) /\ Distinct(q) /\ t \notin Members(q)
      /\ Members(q) \subseteq Members(lifecycle[b])
      /\ \A c \in Bridges \ {b} : t \notin Members(lifecycle[c])
  BY StepsAside
<1>1. /\ pc' \in PcType /\ held' \in [Bridges -> BOOLEAN]
      /\ lifecycle' \in [Bridges -> Seq(Tasks)]
      /\ \A c \in Bridges \ {b} : lifecycle'[c] = lifecycle[c] /\ held'[c] = held[c]
      /\ \/ lifecycle'[b] = q /\ ~held'[b] /\ pc'[t] \notin AtLock
         \/ lifecycle'[b] = Append(q, t) /\ pc'[t] \in AtLock
      /\ \A u \in Tasks \ {t} : pc'[u] = pc[u] \/ (pc[u] = "await" /\ pc'[u] \in Left)
  BY DEF Moved
<1>2. at \in [Tasks -> Bridges \cup {NoBridge}]
  BY DEF PoolInv, Typed
<1>3. /\ at' \in [Tasks -> Bridges \cup {NoBridge}]
      /\ at'[t] = IF pc'[t] \in Off THEN NoBridge ELSE b
      /\ \A u \in Tasks \ {t} : at'[u] = IF pc'[u] \in Off THEN NoBridge ELSE at[u]
  BY <1>2 DEF Settle, Off
<1>4. \A u \in Tasks \ {t} : pc[u] \in AtLock =>
        /\ pc'[u] = pc[u] /\ at'[u] = at[u] /\ Closing(u)' = Closing(u)
  BY <1>1, <1>3 DEF AtLock, Off, Closing
<1>5. PlacesOK'
  BY <1>1, <1>3 DEF PlacesOK
<1>6. \A c \in Bridges : \A u \in Members(lifecycle[c]) \ {t} :
        /\ u \in Tasks /\ at'[u] = c /\ pc'[u] \in AtLock
        /\ Closing(u)' => ~Registered(c)'
  <2>. SUFFICES ASSUME NEW c \in Bridges, NEW u \in Members(lifecycle[c]) \ {t}
                PROVE  /\ u \in Tasks /\ at'[u] = c /\ pc'[u] \in AtLock
                       /\ Closing(u)' => ~Registered(c)'
    OBVIOUS
  <2>1. u \in Tasks /\ lifecycle[c] # <<>>
    BY MembersType DEF PoolInv, Typed
  <2>2. at[u] = c /\ pc[u] \in AtLock /\ (Closing(u) => ~Registered(c))
    BY DEF PoolInv, QueueInv
  <2>. QED  BY <1>4, <2>1, <2>2 DEF Kept
<1>7. QueueInv'
  <2>1. ASSUME NEW c \in Bridges \ {b}
        PROVE  /\ Distinct(lifecycle'[c])
               /\ \A u \in Members(lifecycle'[c]) :
                    at'[u] = c /\ pc'[u] \in AtLock /\ (Closing(u)' => ~Registered(c)')
    <3>1. Distinct(lifecycle[c])
      BY DEF PoolInv, QueueInv
    <3>. QED  BY <1>0, <1>1, <1>6, <3>1
  <2>2. \A u \in Members(q) :
          at'[u] = b /\ pc'[u] \in AtLock /\ (Closing(u)' => ~Registered(b)')
    BY <1>0, <1>6
  <2>3. CASE lifecycle'[b] = q
    BY <1>0, <2>1, <2>2, <2>3 DEF QueueInv
  <2>4. CASE lifecycle'[b] = Append(q, t) /\ pc'[t] \in AtLock
    <3>1. /\ Distinct(Append(q, t)) /\ Members(Append(q, t)) = Members(q) \cup {t}
      BY <1>0, AppendMembers
    <3>2. at'[t] = b
      BY <1>3, <2>4 DEF AtLock, Off
    <3>. QED  BY <2>1, <2>2, <2>4, <3>1, <3>2 DEF QueueInv
  <2>. QED  BY <1>1, <2>3, <2>4
<1>8. HeldInv'
  <2>1. Append(q, t) # <<>>
    BY <1>0, AppendMembers
  <2>2. held'[b] => lifecycle'[b] # <<>>
    BY <1>1, <2>1
  <2>3. \A c \in Bridges \ {b} : held'[c] => lifecycle'[c] # <<>>
    BY <1>1 DEF PoolInv, HeldInv
  <2>. QED  BY <2>2, <2>3 DEF HeldInv
<1>9. OwnerInv'
  BY <1>1 DEF OwnerInv, PoolInv, Kept
<1>10. AtInv'
  <2>1. ASSUME NEW u \in Tasks, at'[u] # NoBridge PROVE owner'[at'[u]] # NoKey
    <3>1. at'[u] = b \/ at'[u] = at[u]
      BY <1>3, <2>1
    <3>2. at[u] # NoBridge => at[u] \in Bridges /\ owner[at[u]] # NoKey
      BY <1>2 DEF PoolInv, AtInv
    <3>. QED  BY <2>1, <3>1, <3>2 DEF Kept
  <2>2. ASSUME NEW u \in Tasks, pc'[u] \notin Off \cup {"idle"} PROVE at'[u] # NoBridge
    <3>1. CASE u = t
      BY <1>3, <2>2, <3>1 DEF Bridges, NoBridge
    <3>2. CASE u # t
      <4>1. at'[u] = at[u] /\ pc[u] \notin Off \cup {"idle"}
        BY <1>1, <1>3, <2>2, <3>2 DEF Off, Left
      <4>. QED  BY <4>1 DEF PoolInv, AtInv
    <3>. QED  BY <3>1, <3>2
  <2>. QED  BY <2>1, <2>2 DEF AtInv
<1>. QED  BY <1>5, <1>7, <1>8, <1>9, <1>10

\* A step that moves nobody in or out of a queue: it ends or wakes some of those
\* who are not in one, and may grant a lock to its head.
Quiet ==
  /\ pc' \in PcType /\ held' \in [Bridges -> BOOLEAN] /\ UNCHANGED lifecycle
  /\ \A u \in Tasks : \/ pc'[u] = pc[u]
                      \/ /\ pc[u] \notin AtLock /\ pc'[u] \notin AtLock \cup {"await"}
                         /\ pc[u] \in Off \cup {"idle"} => pc'[u] \in Off
  /\ \A u \in Tasks : at'[u] = at[u] \/ (pc'[u] \in Off /\ at'[u] = NoBridge)
  /\ at' \in [Tasks -> Bridges \cup {NoBridge}]
  /\ \A c \in Bridges : held'[c] => held[c] \/ lifecycle[c] # <<>>

LEMMA QuietSafe ==
  ASSUME PoolInv, Kept, Quiet
  PROVE  PlacesOK' /\ QueueInv' /\ HeldInv' /\ OwnerInv' /\ AtInv'
<1>1. PlacesOK'
  BY DEF PlacesOK, Quiet, PoolInv, Typed
<1>2. QueueInv'
  <2>. SUFFICES ASSUME NEW c \in Bridges
                PROVE  /\ Distinct(lifecycle[c])
                       /\ \A u \in Members(lifecycle[c]) :
                            at'[u] = c /\ pc'[u] \in AtLock /\ (Closing(u)' => ~Registered(c)')
    BY DEF QueueInv, Quiet
  <2>1. Distinct(lifecycle[c])
    BY DEF PoolInv, QueueInv
  <2>2. ASSUME NEW u \in Members(lifecycle[c])
        PROVE  at'[u] = c /\ pc'[u] \in AtLock /\ (Closing(u)' => ~Registered(c)')
    <3>1. u \in Tasks /\ lifecycle[c] # <<>>
      BY MembersType DEF PoolInv, Typed
    <3>2. at[u] = c /\ pc[u] \in AtLock /\ (Closing(u) => ~Registered(c))
      BY DEF PoolInv, QueueInv
    <3>3. pc'[u] = pc[u] /\ at'[u] = at[u]
      BY <3>1, <3>2 DEF Quiet, AtLock, Off
    <3>. QED  BY <3>1, <3>2, <3>3 DEF Kept, Closing
  <2>. QED  BY <2>1, <2>2
<1>3. HeldInv'
  BY DEF Quiet, PoolInv, HeldInv
<1>4. OwnerInv'
  BY DEF OwnerInv, PoolInv, Kept, Quiet
<1>5. AtInv'
  <2>1. ASSUME NEW u \in Tasks, at'[u] # NoBridge PROVE owner'[at'[u]] # NoKey
    <3>1. at'[u] = at[u]
      BY <2>1 DEF Quiet
    <3>2. at[u] \in Bridges /\ owner[at[u]] # NoKey
      BY <2>1, <3>1 DEF PoolInv, Typed, AtInv
    <3>. QED  BY <3>1, <3>2 DEF Kept
  <2>2. ASSUME NEW u \in Tasks, pc'[u] \notin Off \cup {"idle"} PROVE at'[u] # NoBridge
    <3>1. at'[u] = at[u] /\ pc[u] \notin Off \cup {"idle"}
      BY <2>2 DEF Quiet
    <3>. QED  BY <3>1 DEF PoolInv, AtInv
  <2>. QED  BY <2>1, <2>2 DEF AtInv
<1>. QED  BY <1>1, <1>2, <1>3, <1>4, <1>5

\* The rest of Typed.
RestOK ==
  /\ child' \in [Bridges -> {"none", "up", "deaf", "dead"}]
  /\ idle' \in [Bridges -> 0..Ttl]
  /\ todo' \subseteq Bridges /\ closed' \in BOOLEAN

LEMMA Moving ==
  ASSUME PoolInv, Kept, RestOK, NEW t \in Tasks, NEW b \in Bridges, NEW q,
         Steps(t, b, q), Moved(t, b, q), Settle([at EXCEPT ![t] = b]),
         owner'[b] # NoKey, Closing(t)' => ~Registered(b)'
  PROVE  PoolInv'
<1>1. PlacesOK' /\ QueueInv' /\ HeldInv' /\ OwnerInv' /\ AtInv'
  BY MoveSafe
<1>2. Typed'
  BY <1>1 DEF Typed, RestOK, PlacesOK, PcType, Kept
<1>. QED  BY <1>1, <1>2 DEF PoolInv

LEMMA Staying ==
  ASSUME PoolInv, Kept, RestOK, Quiet
  PROVE  PoolInv'
<1>1. PlacesOK' /\ QueueInv' /\ HeldInv' /\ OwnerInv' /\ AtInv'
  BY QuietSafe
<1>2. Typed'
  BY <1>1 DEF Typed, RestOK, PlacesOK, PcType, Kept
<1>. QED  BY <1>1, <1>2 DEF PoolInv

\* Whoever is in the queue of b works on b already.
LEMMA SettledThere ==
  ASSUME Typed, NEW t \in Tasks, Settle(at)
  PROVE  Settle([at EXCEPT ![t] = at[t]])
<1>1. [at EXCEPT ![t] = at[t]] = at
  BY DEF Typed
<1>. QED  BY <1>1

LEMMA HeadWorksThere ==
  ASSUME PoolInv, NEW b \in Bridges, lifecycle[b] # <<>>
  PROVE  /\ Head(lifecycle[b]) \in Tasks /\ at[Head(lifecycle[b])] = b
         /\ pc[Head(lifecycle[b])] \in AtLock /\ owner[b] # NoKey
         /\ Closing(Head(lifecycle[b])) => ~Registered(b)
         /\ Tail(lifecycle[b]) \in Seq(Tasks)
         /\ Steps(Head(lifecycle[b]), b, Tail(lifecycle[b]))
<1>1. lifecycle[b] \in Seq(Tasks) /\ Distinct(lifecycle[b])
  BY DEF PoolInv, Typed, QueueInv
<1>2. /\ Head(lifecycle[b]) \in Tasks /\ Head(lifecycle[b]) \in Members(lifecycle[b])
      /\ Tail(lifecycle[b]) \in Seq(Tasks)
  BY <1>1, TailMembers
<1>. QED  BY <1>2 DEF PoolInv, QueueInv, OwnerInv, Steps

\* Whoever settles keeps its place or is nowhere.
LEMMA Settling ==
  ASSUME Typed, Settle(at)
  PROVE  /\ at' \in [Tasks -> Bridges \cup {NoBridge}]
         /\ \A u \in Tasks : at'[u] = at[u] \/ (pc'[u] \in Off /\ at'[u] = NoBridge)
BY DEF Typed, Settle, Off

LEMMA TouchType ==
  ASSUME Typed, NEW t, NEW b \in Bridges, Touch(t, b)
  PROVE  idle' \in [Bridges -> 0..Ttl]
<1>1. 0 \in 0..Ttl
  BY PoolAssumption
<1>2. (IF pc'[t] = "await" THEN 0 ELSE idle[b]) \in 0..Ttl
  BY <1>1 DEF Typed
<1>3. idle' = [idle EXCEPT ![b] = IF pc'[t] = "await" THEN 0 ELSE idle[b]]
  BY DEF Touch, Typed
<1>. QED  BY <1>2, <1>3 DEF Typed

-----------------------------------------------------------------------------
(***************************************************************************)
(* One lemma per action.                                                   *)
(***************************************************************************)
\* A caller moves to its bridge behind whoever is there.
LEMMA CallSafe ==
  ASSUME PoolInv, Kept, NEW c \in Clients, pc[c] = "idle", NEW b \in Bridges,
         owner'[b] # NoKey, Call(c, b), UNCHANGED <<child, todo, closed>>
  PROVE  PoolInv'
<1>. c \in Tasks
  BY DEF Tasks
<1>0. Typed /\ HeldInv /\ lifecycle[b] \in Seq(Tasks) /\ held[b] \in BOOLEAN
  BY DEF PoolInv, Typed
<1>1. Steps(c, b, lifecycle[b])
  BY DEF Steps, AtLock
<1>2. Moved(c, b, lifecycle[b]) /\ ~Closing(c)'
  <2>1. CASE lifecycle[b] = <<>> /\ Up(b)
    <3>1. Request(c, b, lifecycle[b], FALSE, "up")
      BY <2>1 DEF Call
    <3>. QED  BY <1>0, <3>1, RequestMoves DEF Closing
  <2>2. CASE ~ (lifecycle[b] = <<>> /\ Up(b))
    <3>1. Enter(c, b, "get", lifecycle[b], held[b], pending[b])
      BY <2>2 DEF Call
    <3>2. Moved(c, b, lifecycle[b]) /\ pc'[c] = "get"
      BY <1>0, <3>1, EnterMoves DEF AtLock
    <3>. QED  BY <3>2 DEF Closing
  <2>. QED  BY <2>1, <2>2
<1>3. RestOK
  BY <1>0, TouchType DEF RestOK, Typed, Call
<1>4. Settle([at EXCEPT ![c] = b])
  BY DEF Call
<1>. QED  BY <1>1, <1>2, <1>3, <1>4, Moving

LEMMA InvokeSafe ==
  ASSUME PoolInv, NEW c \in Clients, Invoke(c)
  PROVE  PoolInv'
<1>. DEFINE k == KeyOf[c]
<1>. c \in Tasks /\ k \in Keys
  BY PoolAssumption DEF Tasks
<1>0. Typed /\ OwnerInv
  BY DEF PoolInv
<1>1. CASE table[k] # NoBridge /\ Call(c, table[k]) /\ UNCHANGED <<table, owner>>
  <2>1. table[k] \in Bridges /\ owner[table[k]] # NoKey
    BY <1>0, <1>1, PoolAssumption DEF Typed, OwnerInv
  <2>2. Kept
    BY <1>1, QuietKept
  <2>. QED  BY <1>1, <2>1, <2>2, CallSafe DEF Invoke
<1>2. ASSUME table[k] = NoBridge, NEW b \in Bridges, owner[b] = NoKey,
             owner' = [owner EXCEPT ![b] = k], table' = [table EXCEPT ![k] = b], Call(c, b)
      PROVE  PoolInv'
  <2>1. owner'[b] = k /\ owner'[b] # NoKey /\ \A a \in Bridges \ {b} : owner'[a] = owner[a]
    BY <1>0, <1>2, PoolAssumption DEF Typed
  <2>2. table'[k] = b /\ \A l \in Keys \ {k} : table'[l] = table[l]
    BY <1>0, <1>2 DEF Typed
  <2>3. lifecycle[b] = <<>>
    BY <1>0, <1>2 DEF OwnerInv
  <2>4. /\ table' \in [Keys -> Bridges \cup {NoBridge}]
        /\ owner' \in [Bridges -> Keys \cup {NoKey}]
    BY <1>0, <1>2 DEF Typed
  <2>5. \A l \in Keys : table'[l] # NoBridge => owner'[table'[l]] = l
    <3>. SUFFICES ASSUME NEW l \in Keys, table'[l] # NoBridge, l # k
                  PROVE  owner'[table'[l]] = l
      BY <2>1, <2>2
    <3>1. table[l] \in Bridges /\ owner[table[l]] = l /\ l # NoKey
      BY <1>0, <2>2, PoolAssumption DEF Typed, OwnerInv
    <3>. QED  BY <1>2, <2>1, <2>2, <3>1
  <2>6. \A a \in Bridges : lifecycle[a] # <<>> /\ Registered(a)' => Registered(a)
    <3>. SUFFICES ASSUME NEW a \in Bridges, lifecycle[a] # <<>>, Registered(a)'
                  PROVE  Registered(a)
      OBVIOUS
    <3>1. a # b /\ owner'[a] = owner[a] /\ owner[a] # NoKey /\ owner[a] \in Keys
      BY <1>0, <2>1, <2>3 DEF OwnerInv, Typed
    <3>. QED  BY <2>2, <3>1 DEF Registered
  <2>7. Kept
    BY <1>2, <2>1, <2>4, <2>5, <2>6 DEF Kept
  <2>. QED  BY <1>2, <2>1, <2>7, CallSafe DEF Invoke
<1>3. CASE /\ pc' = [pc EXCEPT ![c] = "ended"]
           /\ UNCHANGED <<table, owner, at, lifecycle, held, pending, idle>>
  <2>1. Kept
    BY <1>3, QuietKept
  <2>2. RestOK
    BY <1>0, <1>3 DEF RestOK, Typed, Invoke
  <2>3. Quiet
    BY <1>0, <1>3 DEF Quiet, Typed, PcType, Invoke, AtLock, Off, CallerStates
  <2>. QED  BY <2>1, <2>2, <2>3, Staying
<1>. QED  BY <1>1, <1>2, <1>3 DEF Invoke

LEMMA TurnSafe ==
  ASSUME PoolInv, NEW b \in Bridges, Turn(b)
  PROVE  PoolInv'
<1>. PICK t \in Tasks, rest \in Seq(Tasks) : t = Head(lifecycle[b]) /\ rest = Tail(lifecycle[b])
  BY HeadWorksThere DEF Turn
<1>0. /\ Typed /\ HeldInv /\ t \in Tasks /\ at[t] = b /\ pc[t] \in AtLock
      /\ owner[b] # NoKey /\ (Closing(t) => ~Registered(b)) /\ rest \in Seq(Tasks)
      /\ Steps(t, b, rest) /\ lifecycle[b] # <<>> /\ ~held[b]
  BY HeadWorksThere DEF PoolInv, Turn
<1>1. Kept
  BY QuietKept DEF Turn
<1>2. RestOK
  BY <1>0, TouchType DEF RestOK, Typed, Turn
<1>3. Settle(at) /\ Settle([at EXCEPT ![t] = b]) /\ UNCHANGED owner
  BY <1>0, SettledThere DEF Turn
<1>4. CASE Moved(t, b, rest) /\ ~Closing(t)'
  BY <1>0, <1>1, <1>2, <1>3, <1>4, Moving
<1>5. CASE pc[t] = "get" /\ Up(b)
  <2>1. Request(t, b, rest, FALSE, "up")
    BY <1>5 DEF Turn
  <2>. QED  BY <1>0, <1>4, <2>1, RequestMoves DEF Closing
<1>6. CASE pc[t] = "ensure" /\ Up(b)
  <2>1. Write(t, b, rest)
    BY <1>6 DEF Turn
  <2>2. Moved(t, b, rest) /\ pc'[t] \notin AtLock
    BY <1>0, <2>1, WriteMoves
  <2>. QED  BY <1>4, <2>2 DEF Closing, AtLock
<1>7. CASE pc[t] \in {"reap", "discard"} /\ child[b] = "none"
  <2>1. CloseNothing(t, b, rest)
    BY <1>7 DEF Turn
  <2>2. Moved(t, b, rest) /\ pc'[t] \notin AtLock
    BY <1>0, <2>1, CloseNothingMoves
  <2>. QED  BY <1>4, <2>2 DEF Closing, AtLock
<1>8. CASE /\ held' = [held EXCEPT ![b] = TRUE]
           /\ pc' = FailAwaiting(pc, b, Told)
           /\ UNCHANGED lifecycle
  <2>1. pc \in PcType
    BY <1>0 DEF Typed, PcType
  <2>2. /\ pc' \in PcType
        /\ \A u \in Tasks : \/ pc'[u] = pc[u]
                            \/ pc[u] = "await" /\ pc'[u] \in Left
    BY <1>8, <2>1, FailAwaitingType, ToldType
  <2>3. /\ held' \in [Bridges -> BOOLEAN]
        /\ \A a \in Bridges : held'[a] => held[a] \/ a = b
    BY <1>0, <1>8 DEF Typed
  <2>4. Quiet
    BY <1>0, <1>3, <1>8, <2>2, <2>3, Settling DEF Quiet, AtLock, Off, Left
  <2>. QED  BY <1>1, <1>2, <2>4, Staying
<1>. QED  BY <1>5, <1>6, <1>7, <1>8 DEF Turn

\* A head that leaves with no wish to close.
LEMMA LeaveSafe ==
  ASSUME PoolInv, RestOK, UNCHANGED <<table, owner>>, NEW t \in Tasks,
         NEW b \in Bridges, lifecycle[b] # <<>>, t = Head(lifecycle[b]),
         NEW state \in (CallerStates \cup ReaperStates) \ AtLock,
         Release(t, b, Tail(lifecycle[b]), state), Settle(at)
  PROVE  PoolInv'
<1>0. /\ Typed /\ at[t] = b /\ owner[b] # NoKey /\ Tail(lifecycle[b]) \in Seq(Tasks)
      /\ Steps(t, b, Tail(lifecycle[b]))
  BY HeadWorksThere DEF PoolInv
<1>1. PICK rest \in Seq(Tasks) : rest = Tail(lifecycle[b])
  BY <1>0
<1>2. Moved(t, b, rest) /\ pc'[t] \notin AtLock
  BY <1>0, <1>1, ReleaseMoves
<1>3. Kept /\ Settle([at EXCEPT ![t] = b])
  BY <1>0, QuietKept, SettledThere
<1>. QED  BY <1>0, <1>1, <1>2, <1>3, Moving DEF Closing, AtLock

LEMMA GoesOn ==
  ASSUME NEW t
  PROVE  /\ Through(t) \in (CallerStates \cup ReaperStates) \ AtLock
         /\ Failed(t) \in (CallerStates \cup ReaperStates) \ AtLock
         /\ Written(t) \in (CallerStates \cup ReaperStates) \ AtLock
BY DEF Through, Failed, Written, CallerStates, ReaperStates, AtLock

LEMMA StartOkSafe ==
  ASSUME PoolInv, NEW b \in Bridges, StartOk(b)
  PROVE  PoolInv'
<1>0. lifecycle[b] # <<>> /\ Typed /\ HeldInv
  BY DEF PoolInv, HeldInv, StartOk
<1>1. PICK t \in Tasks, rest \in Seq(Tasks) : t = Head(lifecycle[b]) /\ rest = Tail(lifecycle[b])
  BY <1>0, HeadWorksThere
<1>2. /\ at[t] = b /\ pc[t] \in AtLock \ {"reap", "discard"} /\ owner[b] # NoKey
      /\ Steps(t, b, rest)
  BY <1>0, <1>1, HeadWorksThere DEF StartOk
<1>3. RestOK
  BY <1>0, PoolAssumption DEF RestOK, Typed, StartOk
<1>4. UNCHANGED <<table, owner>> /\ Settle(at)
  BY DEF StartOk
<1>5. CASE pc[t] = "get"
  <2>1. Request(t, b, rest, FALSE, "up")
    BY <1>1, <1>5 DEF StartOk
  <2>2. Moved(t, b, rest) /\ ~Closing(t)'
    BY <1>0, <2>1, RequestMoves DEF Closing
  <2>3. Kept /\ Settle([at EXCEPT ![t] = b])
    BY <1>0, <1>2, <1>4, QuietKept, SettledThere
  <2>. QED  BY <1>2, <1>3, <1>4, <2>2, <2>3, Moving
<1>6. CASE pc[t] = "ensure"
  <2>1. Write(t, b, rest)
    BY <1>1, <1>6 DEF StartOk
  <2>2. Moved(t, b, rest) /\ ~Closing(t)'
    BY <1>0, <2>1, WriteMoves DEF Closing, AtLock
  <2>3. Kept /\ Settle([at EXCEPT ![t] = b])
    BY <1>0, <1>2, <1>4, QuietKept, SettledThere
  <2>. QED  BY <1>2, <1>3, <1>4, <2>2, <2>3, Moving
<1>7. CASE pc[t] = "restart"
  <2>1. Release(t, b, Tail(lifecycle[b]), Failed(t))
    BY <1>1, <1>7 DEF StartOk
  <2>. QED  BY <1>0, <1>1, <1>3, <1>4, <2>1, GoesOn, LeaveSafe
<1>8. CASE pc[t] = "recycle"
  <2>1. Release(t, b, Tail(lifecycle[b]), Through(t))
    BY <1>1, <1>8 DEF StartOk
  <2>. QED  BY <1>0, <1>1, <1>3, <1>4, <2>1, GoesOn, LeaveSafe
<1>. QED  BY <1>2, <1>5, <1>6, <1>7, <1>8 DEF AtLock

LEMMA StartFailsSafe ==
  ASSUME PoolInv, NEW b \in Bridges, StartFails(b)
  PROVE  PoolInv'
<1>0. lifecycle[b] # <<>> /\ Typed /\ HeldInv
  BY DEF PoolInv, HeldInv, StartFails
<1>1. PICK t \in Tasks, rest \in Seq(Tasks) : t = Head(lifecycle[b]) /\ rest = Tail(lifecycle[b])
  BY <1>0, HeadWorksThere
<1>2. at[t] = b /\ owner[b] # NoKey /\ Steps(t, b, rest)
  BY <1>0, <1>1, HeadWorksThere
<1>3. RestOK
  BY <1>0 DEF RestOK, Typed, StartFails
<1>4. Settle(at) /\ UNCHANGED owner
  BY DEF StartFails
<1>5. CASE Release(t, b, rest, Failed(t)) /\ UNCHANGED table
  BY <1>0, <1>1, <1>3, <1>4, <1>5, GoesOn, LeaveSafe
<1>6. CASE Release(t, b, rest, Through(t)) /\ UNCHANGED table
  BY <1>0, <1>1, <1>3, <1>4, <1>6, GoesOn, LeaveSafe
<1>7. CASE TakeOut(b) /\ CloseBridge(t, b, "discard", rest, FALSE, "none")
  <2>1. Moved(t, b, rest)
    BY <1>0, <1>7, CloseMoves
  <2>2. Kept /\ ~Registered(b)'
    BY <1>4, <1>7, RemovalKept
  <2>3. Settle([at EXCEPT ![t] = b])
    BY <1>0, <1>2, <1>4, SettledThere
  <2>. QED  BY <1>2, <1>3, <1>4, <2>1, <2>2, <2>3, Moving
<1>. QED  BY <1>1, <1>5, <1>6, <1>7 DEF StartFails

LEMMA CloseDoneSafe ==
  ASSUME PoolInv, NEW b \in Bridges, CloseDone(b)
  PROVE  PoolInv'
<1>0. lifecycle[b] # <<>> /\ Typed
  BY DEF PoolInv, HeldInv, CloseDone
<1>1. Head(lifecycle[b]) \in Tasks
  BY <1>0, HeadWorksThere
<1>2. RestOK
  BY <1>0 DEF RestOK, Typed, CloseDone
<1>. QED  BY <1>0, <1>1, <1>2, GoesOn, LeaveSafe DEF CloseDone

\* What ends a wait, or a subprocess.
LEMMA EndsSafe ==
  ASSUME PoolInv, RestOK, UNCHANGED <<table, owner, lifecycle, held>>, Settle(at),
         pc' \in PcType,
         \A u \in Tasks : \/ pc'[u] = pc[u]
                          \/ /\ pc[u] \in {"await", "failed", "drain"}
                             /\ pc'[u] \in Left \cup {"unhealthy", "pass"}
  PROVE  PoolInv'
<1>1. Typed
  BY DEF PoolInv
<1>2. Kept
  BY QuietKept
<1>3. Quiet
  BY <1>1, Settling DEF Quiet, AtLock, Off, Left, Typed
<1>. QED  BY <1>2, <1>3, Staying

LEMMA CrashSafe ==
  ASSUME PoolInv, NEW b \in Bridges, Crash(b)
  PROVE  PoolInv'
<1>1. pc \in PcType /\ Typed
  BY DEF PoolInv, Typed, PcType
<1>2. /\ pc' \in PcType
      /\ \A u \in Tasks : \/ pc'[u] = pc[u]
                          \/ pc[u] = "await" /\ pc'[u] \in Left
  BY <1>1, FailAwaitingType, ToldType DEF Crash
<1>3. RestOK
  BY <1>1 DEF RestOK, Typed, Crash
<1>. QED  BY <1>2, <1>3, EndsSafe DEF Crash

LEMMA ReaderDiesSafe ==
  ASSUME PoolInv, NEW b \in Bridges, ReaderDies(b)
  PROVE  PoolInv'
<1>1. pc \in PcType /\ Typed
  BY DEF PoolInv, Typed, PcType
<1>2. /\ pc' \in PcType
      /\ \A u \in Tasks : \/ pc'[u] = pc[u]
                          \/ pc[u] = "await" /\ pc'[u] \in Left
  <2>. DEFINE uncaught == [t \in Tasks |-> Uncaught(t)]
              broken == [t \in Tasks |-> "broken"]
  <2>1. \A t \in Tasks : uncaught[t] \in Left /\ broken[t] \in Left
    BY DEF Uncaught, Left
  <2>2. pc' = FailAwaiting(pc, b, uncaught) \/ pc' = FailAwaiting(pc, b, broken)
    BY DEF ReaderDies
  <2>. HIDE DEF uncaught, broken
  <2>. QED  BY <1>1, <2>1, <2>2, FailAwaitingType
<1>3. RestOK
  BY <1>1 DEF RestOK, Typed, ReaderDies
<1>. QED  BY <1>2, <1>3, EndsSafe DEF ReaderDies

LEMMA AnswerSafe ==
  ASSUME PoolInv, NEW t \in Tasks, Answer(t) \/ Fails(t) \/ Deadline(t)
  PROVE  PoolInv'
<1>1. Typed
  BY DEF PoolInv
<1>2. /\ pc' \in PcType
      /\ \A u \in Tasks : \/ pc'[u] = pc[u]
                          \/ /\ pc[u] \in {"await", "failed"}
                             /\ pc'[u] \in {"ended", "unhealthy", "pass"}
  BY <1>1 DEF Answer, Fails, Deadline, Ends, Typed, Through, Failed, PcType,
              CallerStates, ReaperStates
<1>3. RestOK
  <2>1. 0 \in 0..Ttl
    BY PoolAssumption
  <2>2. idle' \in [Bridges -> 0..Ttl]
    BY <1>1, <2>1 DEF Typed, Answer, Fails, Deadline, Ends
  <2>. QED  BY <1>1, <2>2 DEF RestOK, Typed, Answer, Fails, Deadline, Ends
<1>4. UNCHANGED <<table, owner, lifecycle, held>> /\ Settle(at)
  BY DEF Answer, Fails, Deadline, Ends
<1>. QED  BY <1>2, <1>3, <1>4, EndsSafe DEF Left

LEMMA DrainedSafe ==
  ASSUME PoolInv, NEW n \in Notes, Drained(n)
  PROVE  PoolInv'
<1>1. Typed /\ n \in Tasks
  BY DEF PoolInv, Tasks, Clients
<1>2. /\ pc' \in PcType
      /\ \A u \in Tasks : \/ pc'[u] = pc[u]
                          \/ pc[u] = "drain" /\ pc'[u] = "ended"
  BY <1>1 DEF Drained, Typed, PcType, CallerStates
<1>3. RestOK
  <2>1. 0 \in 0..Ttl
    BY PoolAssumption
  <2>2. idle' \in [Bridges -> 0..Ttl]
    BY <1>1, <2>1 DEF Typed, Drained
  <2>. QED  BY <1>1, <2>2 DEF RestOK, Typed, Drained
<1>. QED  BY <1>2, <1>3, EndsSafe DEF Drained, Left

LEMMA RestartSafe ==
  ASSUME PoolInv, NEW t \in Tasks, Restart(t)
  PROVE  PoolInv'
<1>0. Typed /\ pc[t] \in {"await", "failed", "broken"}
  BY DEF PoolInv, Restart
<1>1. PICK b \in Bridges : b = at[t]
  BY <1>0 DEF PoolInv, Typed, AtInv, Off
<1>2. owner[b] # NoKey /\ lifecycle[b] \in Seq(Tasks) /\ held[b] \in BOOLEAN
  BY <1>0, <1>1 DEF PoolInv, AtInv, Typed, Bridges, NoBridge
<1>3. Enter(t, b, "restart", lifecycle[b], held[b], Popped(t, b))
  BY <1>1 DEF Restart
<1>4. Moved(t, b, lifecycle[b]) /\ pc'[t] = "restart"
  BY <1>0, <1>2, <1>3, EnterMoves DEF AtLock
<1>5. Steps(t, b, lifecycle[b])
  BY <1>0 DEF Steps, AtLock
<1>6. RestOK
  BY <1>0, <1>1 DEF RestOK, Typed, Restart
<1>7. Kept /\ Settle([at EXCEPT ![t] = b]) /\ UNCHANGED owner
  BY <1>0, <1>1, QuietKept, SettledThere DEF Restart
<1>. QED  BY <1>2, <1>4, <1>5, <1>6, <1>7, Moving DEF Closing

\* Whoever stays where it is forgets the bridge it looked at.
LEMMA LookedAt ==
  ASSUME Typed, NEW t \in Tasks, NEW b, Settle([at EXCEPT ![t] = b]), pc'[t] \in Off
  PROVE  /\ at' \in [Tasks -> Bridges \cup {NoBridge}]
         /\ \A u \in Tasks : at'[u] = at[u] \/ (pc'[u] \in Off /\ at'[u] = NoBridge)
BY DEF Typed, Settle, Off

LEMMA LooksSafe ==
  ASSUME PoolInv, RestOK, UNCHANGED <<table, owner, lifecycle, held>>,
         NEW t \in Tasks, pc[t] \notin AtLock, NEW b, Settle([at EXCEPT ![t] = b]),
         NEW state \in {"ended", "pass"}, pc' = [pc EXCEPT ![t] = state]
  PROVE  PoolInv'
<1>1. Typed
  BY DEF PoolInv
<1>2. /\ pc' \in PcType /\ pc'[t] \in Off /\ pc'[t] \notin AtLock \cup {"await"}
      /\ \A u \in Tasks \ {t} : pc'[u] = pc[u]
  BY <1>1 DEF Typed, PcType, Off, CallerStates, ReaperStates, AtLock
<1>3. Kept
  BY QuietKept
<1>4. Quiet
  BY <1>1, <1>2, LookedAt DEF Quiet, Typed
<1>. QED  BY <1>3, <1>4, Staying

LEMMA RecycleSafe ==
  ASSUME PoolInv, RestOK, UNCHANGED owner, NEW t \in Tasks, pc[t] \notin AtLock,
         NEW b \in Bridges, Recycle(t, b), Settle([at EXCEPT ![t] = b])
  PROVE  PoolInv'
<1>0. /\ Typed /\ HeldInv /\ lifecycle[b] \in Seq(Tasks) /\ held[b] \in BOOLEAN
      /\ UNCHANGED <<table, owner>>
  BY DEF PoolInv, Typed, Recycle
<1>1. CASE Registered(b)
  <2>1. Enter(t, b, "recycle", lifecycle[b], held[b], pending[b])
    BY <1>1 DEF Recycle
  <2>2. Moved(t, b, lifecycle[b]) /\ pc'[t] = "recycle"
    BY <1>0, <2>1, EnterMoves DEF AtLock
  <2>3. Steps(t, b, lifecycle[b]) /\ Kept /\ owner'[b] # NoKey
    BY <1>0, <1>1, QuietKept DEF Steps, Registered
  <2>. QED  BY <2>2, <2>3, Moving DEF Closing
<1>2. CASE ~Registered(b)
  <2>1. Through(t) \in {"ended", "pass"}
    BY DEF Through
  <2>. QED  BY <1>0, <1>2, <2>1, LooksSafe DEF Recycle
<1>. QED  BY <1>1, <1>2

LEMMA CheckSafe ==
  ASSUME PoolInv, RestOK, UNCHANGED <<table, owner>>, NEW t \in Tasks, pc[t] \notin AtLock,
         NEW b \in Bridges, Checked(b), Request(t, b, lifecycle[b], held[b], "up"),
         Settle([at EXCEPT ![t] = b])
  PROVE  PoolInv'
<1>0. Typed /\ HeldInv /\ lifecycle[b] \in Seq(Tasks) /\ held[b] \in BOOLEAN
  BY DEF PoolInv, Typed
<1>1. Moved(t, b, lifecycle[b]) /\ ~Closing(t)'
  BY <1>0, RequestMoves DEF Closing
<1>2. Steps(t, b, lifecycle[b]) /\ Kept /\ owner'[b] # NoKey
  BY QuietKept, PoolAssumption DEF Steps, Checked
<1>. QED  BY <1>1, <1>2, Moving

LEMMA ExamineSafe ==
  ASSUME PoolInv, NEW b \in Bridges, Examine(b)
  PROVE  PoolInv'
<1>0. /\ Typed /\ HeldInv /\ Reaper \in Tasks /\ pc[Reaper] = "pass"
      /\ pc[Reaper] \notin AtLock /\ UNCHANGED owner /\ Settle([at EXCEPT ![Reaper] = b])
  BY DEF PoolInv, Tasks, Examine, AtLock
<1>1. RestOK
  <2>1. idle' \in [Bridges -> 0..Ttl]
    BY <1>0, TouchType DEF Examine, Recycle, Typed
  <2>. QED  BY <1>0, <2>1 DEF RestOK, Typed, Examine
<1>2. CASE /\ Idle(b) /\ Registered(b) /\ TakeOut(b)
           /\ CloseBridge(Reaper, b, "reap", lifecycle[b], held[b], child[b])
  <2>0. lifecycle[b] \in Seq(Tasks) /\ held[b] \in BOOLEAN
    BY <1>0 DEF Typed
  <2>1. Moved(Reaper, b, lifecycle[b])
    BY <1>0, <1>2, <2>0, CloseMoves
  <2>2. Kept /\ ~Registered(b)'
    BY <1>0, <1>2, RemovalKept
  <2>3. Steps(Reaper, b, lifecycle[b]) /\ owner'[b] # NoKey
    BY <1>0, <1>2 DEF Steps, Registered
  <2>. QED  BY <1>0, <1>1, <2>1, <2>2, <2>3, Moving
<1>3. CASE UNCHANGED <<table, lifecycle, held, pending, pc, idle>>
  <2>1. pc' = [pc EXCEPT ![Reaper] = "pass"]
    BY <1>0, <1>3 DEF Typed
  <2>. QED  BY <1>0, <1>1, <1>3, <2>1, LooksSafe
<1>4. CASE Recycle(Reaper, b)
  BY <1>0, <1>1, <1>4, RecycleSafe
<1>5. CASE /\ Checked(b) /\ Request(Reaper, b, lifecycle[b], held[b], "up")
           /\ UNCHANGED table
  BY <1>0, <1>1, <1>5, CheckSafe
<1>. QED  BY <1>2, <1>3, <1>4, <1>5 DEF Examine

LEMMA UnhealthySafe ==
  ASSUME PoolInv, NEW t \in Tasks, Unhealthy(t)
  PROVE  PoolInv'
<1>0. Typed /\ pc[t] = "unhealthy" /\ pc[t] \notin AtLock /\ UNCHANGED owner
  BY DEF PoolInv, Unhealthy, AtLock
<1>1. PICK b \in Bridges : b = at[t]
  BY <1>0 DEF PoolInv, Typed, AtInv, Off
<1>2. RestOK
  BY <1>0 DEF RestOK, Typed, Unhealthy, Recycle
<1>3. Settle([at EXCEPT ![t] = b])
  BY <1>0, <1>1, SettledThere DEF Unhealthy
<1>. QED  BY <1>0, <1>1, <1>2, <1>3, RecycleSafe DEF Unhealthy

LEMMA ProbeSafe ==
  ASSUME PoolInv, NEW p \in Probes, Probe(p)
  PROVE  PoolInv'
<1>0. /\ Typed /\ p \in Tasks /\ pc[p] \notin AtLock /\ UNCHANGED owner
      /\ KeyOf[p] \in Keys
  BY PoolAssumption DEF PoolInv, Tasks, Probe, AtLock
<1>1. PICK b \in Bridges \cup {NoBridge} : b = table[KeyOf[p]]
  BY <1>0 DEF Typed
<1>2. Settle([at EXCEPT ![p] = b])
  BY <1>1 DEF Probe
<1>3. RestOK
  <2>1. CASE idle' = idle
    BY <1>0, <2>1 DEF RestOK, Typed, Probe
  <2>2. CASE b # NoBridge /\ Touch(p, b)
    BY <1>0, <2>2, TouchType DEF RestOK, Typed, Probe
  <2>. QED  BY <1>1, <2>1, <2>2 DEF Probe, Recycle
<1>4. CASE pc' = [pc EXCEPT ![p] = "ended"] /\ UNCHANGED <<table, lifecycle, held, pending, idle>>
  BY <1>0, <1>2, <1>3, <1>4, LooksSafe
<1>5. CASE b # NoBridge /\ Recycle(p, b)
  BY <1>0, <1>2, <1>3, <1>5, RecycleSafe
<1>6. CASE /\ b # NoBridge /\ Checked(b) /\ Request(p, b, lifecycle[b], held[b], "up")
           /\ UNCHANGED table
  BY <1>0, <1>2, <1>3, <1>6, CheckSafe
<1>. QED  BY <1>1, <1>4, <1>5, <1>6 DEF Probe

LEMMA WakeSafe ==
  ASSUME PoolInv, Wake \/ PassEnds
  PROVE  PoolInv'
<1>1. Typed /\ Reaper \in Tasks
  BY DEF PoolInv, Tasks
<1>2. RestOK
  <2>1. ASSUME Wake PROVE idle' \in [Bridges -> 0..Ttl]
    <3>. SUFFICES ASSUME NEW b \in Bridges, ~IdleTooLong(b) PROVE idle[b] + 1 \in 0..Ttl
      BY <1>1, <2>1 DEF Typed, Wake
    <3>1. idle[b] \in 0..Ttl /\ Ttl \in Nat /\ ~ (idle[b] >= Ttl)
      BY <1>1, PoolAssumption DEF Typed, IdleTooLong
    <3>. QED  BY <3>1
  <2>. QED  BY <1>1, <2>1 DEF RestOK, Typed, Wake, PassEnds
<1>3. Kept
  BY QuietKept DEF Wake, PassEnds
<1>4. Quiet
  BY <1>1 DEF Quiet, Typed, PcType, Wake, PassEnds, AtLock, Off, ReaperStates
<1>. QED  BY <1>2, <1>3, <1>4, Staying

\* Shutdown empties every queue and the table.
LEMMA CloseSafe ==
  ASSUME PoolInv, Close
  PROVE  PoolInv'
<1>0. Typed /\ Reaper \in Tasks
  BY DEF PoolInv, Tasks
<1>1. /\ pc' = [pc EXCEPT ![Reaper] = "stopped"] /\ closed' = TRUE /\ todo' = {}
      /\ table' = [k \in Keys |-> NoBridge] /\ lifecycle' = [b \in Bridges |-> <<>>]
      /\ held' = [b \in Bridges |-> FALSE] /\ UNCHANGED <<owner, idle>> /\ Settle(at)
  BY DEF Close
<1>2. Typed'
  <2>1. child' \in [Bridges -> {"none", "up", "deaf", "dead"}]
    BY <1>0 DEF Close, Typed
  <2>2. \A b \in Bridges : <<>> \in Seq(Tasks)
    OBVIOUS
  <2>3. pc' \in [Tasks -> CallerStates \cup ReaperStates]
    BY <1>0, <1>1 DEF Typed, ReaperStates
  <2>4. lifecycle' \in [Bridges -> Seq(Tasks)]
    BY <1>1, <2>2
  <2>. QED  BY <1>0, <1>1, <2>1, <2>3, <2>4, Settling DEF Typed
<1>3. QueueInv'
  BY <1>1 DEF QueueInv, Distinct, Members
<1>4. HeldInv' /\ OwnerInv'
  BY <1>1 DEF HeldInv, OwnerInv
<1>5. AtInv'
  <2>. SUFFICES ASSUME NEW t \in Tasks
                PROVE  /\ at'[t] # NoBridge => owner[at'[t]] # NoKey
                       /\ pc'[t] \notin Off \cup {"idle"} => at'[t] # NoBridge
    BY <1>1 DEF AtInv
  <2>1. at'[t] = at[t] \/ (pc'[t] \in Off /\ at'[t] = NoBridge)
    BY <1>0, <1>1, Settling
  <2>2. pc'[t] = pc[t] \/ pc'[t] = "stopped"
    BY <1>0, <1>1 DEF Typed
  <2>. QED  BY <2>1, <2>2 DEF PoolInv, AtInv, Off
<1>. QED  BY <1>2, <1>3, <1>4, <1>5 DEF PoolInv

-----------------------------------------------------------------------------
LEMMA InitPool == Init => PoolInv
<1>. SUFFICES ASSUME Init PROVE PoolInv
  OBVIOUS
<1>1. Typed
  <2>1. <<>> \in Seq(Tasks) /\ 0 \in 0..Ttl
    BY PoolAssumption
  <2>. QED  BY <2>1 DEF Init, Typed, CallerStates, ReaperStates
<1>2. QueueInv /\ HeldInv /\ OwnerInv
  BY DEF Init, QueueInv, HeldInv, OwnerInv, Distinct, Members
<1>3. AtInv
  BY DEF Init, AtInv, Off
<1>. QED  BY <1>1, <1>2, <1>3 DEF PoolInv

LEMMA StepPool == PoolInv /\ [Next]_vars => PoolInv'
<1>. SUFFICES ASSUME PoolInv, [Next]_vars PROVE PoolInv'
  OBVIOUS
<1>1. ASSUME NEW c \in Clients, Invoke(c) PROVE PoolInv'
  BY <1>1, InvokeSafe
<1>2. ASSUME NEW n \in Notes, Drained(n) PROVE PoolInv'
  BY <1>2, DrainedSafe
<1>3. ASSUME NEW p \in Probes, Probe(p) PROVE PoolInv'
  BY <1>3, ProbeSafe
<1>4. ASSUME NEW b \in Bridges,
             \/ Turn(b) \/ StartOk(b) \/ StartFails(b) \/ CloseDone(b)
             \/ Crash(b) \/ ReaderDies(b) \/ Examine(b)
      PROVE  PoolInv'
  BY <1>4, TurnSafe, StartOkSafe, StartFailsSafe, CloseDoneSafe, CrashSafe,
     ReaderDiesSafe, ExamineSafe
<1>5. ASSUME NEW t \in Tasks,
             Fails(t) \/ Deadline(t) \/ Restart(t) \/ Answer(t) \/ Unhealthy(t)
      PROVE  PoolInv'
  BY <1>5, RestartSafe, AnswerSafe, UnhealthySafe
<1>6. CASE Wake \/ PassEnds
  BY <1>6, WakeSafe
<1>7. CASE Close
  BY <1>7, CloseSafe
<1>8. CASE UNCHANGED vars
  <2>1. Typed'
    BY <1>8 DEF vars, PoolInv, Typed
  <2>2. QueueInv' /\ OwnerInv'
    BY <1>8 DEF vars, PoolInv, QueueInv, OwnerInv, Closing, Registered
  <2>3. HeldInv' /\ AtInv'
    BY <1>8 DEF vars, PoolInv, HeldInv, AtInv
  <2>. QED  BY <2>1, <2>2, <2>3 DEF PoolInv
<1>. QED  BY <1>1, <1>2, <1>3, <1>4, <1>5, <1>6, <1>7, <1>8 DEF Next

-----------------------------------------------------------------------------
(***************************************************************************)
(* What is pending.  PendInv is inductive beside PoolInv: a held lock      *)
(* leaves nothing pending, since recycling begins with _fail_pending and   *)
(* nobody registers while it lasts, which makes a failed recycling safe to *)
(* remove a bridge; and who awaits an answer under an id of its own has    *)
(* its entry, which makes has_pending safe to go by.                       *)
(***************************************************************************)
PendInv ==
  /\ PendingType
  /\ \A b \in Bridges : held[b] => pending[b] = {}
  /\ \A t \in Tasks : pc[t] = "await" /\ OwnId(t) => t \in pending[at[t]]

\* What a step makes of the entries of b: a held lock leaves none, and who
\* awaits an answer has got its entry with this step or keeps it.
Pends(b, X) ==
  /\ X \subseteq Tasks /\ pending' = [pending EXCEPT ![b] = X]
  /\ \A c \in Bridges : held'[c] => IF c = b THEN X = {} ELSE held[c]
  /\ \A u \in Tasks : pc'[u] = "await" /\ OwnId(u) =>
       \/ at'[u] = b /\ u \in X
       \/ /\ pc[u] = "await" /\ at'[u] = at[u]
          /\ at[u] = b /\ u \in pending[b] => u \in X

LEMMA PendsSafe ==
  ASSUME PoolInv, PendInv, NEW b \in Bridges, NEW X, Pends(b, X)
  PROVE  PendInv'
<1>1. /\ pending' \in [Bridges -> SUBSET Tasks] /\ pending'[b] = X
      /\ \A c \in Bridges \ {b} : pending'[c] = pending[c]
  BY DEF Pends, PendInv, PendingType
<1>2. \A c \in Bridges : held'[c] => pending'[c] = {}
  BY <1>1 DEF Pends, PendInv
<1>3. ASSUME NEW u \in Tasks, pc'[u] = "await", OwnId(u)
      PROVE  u \in pending'[at'[u]]
  <2>1. CASE at'[u] = b /\ u \in X
    BY <1>1, <2>1
  <2>2. CASE /\ pc[u] = "await" /\ at'[u] = at[u]
             /\ at[u] = b /\ u \in pending[b] => u \in X
    <3>0. at[u] \in Bridges
      <4>1. at[u] # NoBridge
        BY <2>2 DEF PoolInv, AtInv, Off
      <4>. QED  BY <4>1 DEF PoolInv, Typed
    <3>1. at[u] \in Bridges /\ u \in pending[at[u]]
      BY <1>3, <2>2, <3>0 DEF PendInv
    <3>. QED  BY <1>1, <2>2, <3>1
  <2>. QED  BY <1>3, <2>1, <2>2 DEF Pends
<1>. QED  BY <1>1, <1>2, <1>3 DEF PendInv, PendingType, OwnId

\* A step that registers, pops and takes no lock.
LEMMA NothingPends ==
  ASSUME PendInv, UNCHANGED pending, \A c \in Bridges : held'[c] => held[c],
         \A u \in Tasks : pc'[u] = "await" => pc[u] = "await" /\ at'[u] = at[u]
  PROVE  PendInv'
BY DEF PendInv, PendingType, OwnId

LEMMA FailAwaitingFails ==
  ASSUME NEW p, NEW b, NEW state, \A t \in Tasks : state[t] \in Left
  PROVE  \A u \in Tasks : FailAwaiting(p, b, state)[u] = "await" =>
           p[u] = "await" /\ ~ (at[u] = b /\ u \in pending[b])
BY DEF FailAwaiting, Left

LEMMA ToldFails ==
  ASSUME NEW p, NEW b
  PROVE  \A u \in Tasks : FailAwaiting(p, b, Told)[u] = "await" =>
           p[u] = "await" /\ ~ (at[u] = b /\ u \in pending[b])
BY FailAwaitingFails, ToldType

\* Where the others are when t settles at b.
LEMMA OthersSettle ==
  ASSUME Typed, NEW t \in Tasks, NEW b, Settle([at EXCEPT ![t] = b])
  PROVE  /\ pc'[t] = "await" => at'[t] = b
         /\ \A u \in Tasks \ {t} : pc'[u] = "await" => at'[u] = at[u]
BY DEF Settle, Typed

LEMMA EnterPends ==
  ASSUME Typed, PendInv, NEW t \in Tasks, NEW b \in Bridges, NEW op \in AtLock,
         NEW q, NEW h \in BOOLEAN, h => held[b], NEW left \in SUBSET pending[b],
         \A u \in pending[b] \ left : u = t \/ ~OwnId(u),
         Enter(t, b, op, q, h, left), Settle([at EXCEPT ![t] = b])
  PROVE  \E X : Pends(b, X)
<1>. DEFINE p == [pc EXCEPT ![t] = op]
            X == IF q = <<>> THEN {} ELSE left
<1>1. p[t] # "await" /\ \A u \in Tasks \ {t} : p[u] = pc[u]
  BY DEF Typed, AtLock
<1>2. /\ q = <<>> => pc' = FailAwaiting(p, b, Told)
      /\ q # <<>> => pc' = p
  <2>1. pc' = IF q = <<>> THEN FailAwaiting(p, b, Told) ELSE p
    BY Zenon DEF Enter
  <2>. QED  BY Zenon, <2>1
<1>. HIDE DEF p
<1>3. X \subseteq Tasks /\ pending' = [pending EXCEPT ![b] = X]
  BY DEF Enter, PendInv, PendingType
<1>4. \A c \in Bridges : held'[c] => IF c = b THEN X = {} ELSE held[c]
  <2>1. ASSUME held'[b] PROVE X = {}
    <3>1. q = <<>> \/ h
      BY <2>1 DEF Enter, Typed
    <3>. QED  BY <3>1 DEF PendInv
  <2>2. \A c \in Bridges \ {b} : held'[c] = held[c]
    BY DEF Enter, Typed
  <2>. QED  BY <2>1, <2>2
<1>5. ASSUME NEW u \in Tasks, pc'[u] = "await", OwnId(u)
      PROVE  pc[u] = "await" /\ at'[u] = at[u] /\ (at[u] = b /\ u \in pending[b] => u \in X)
  <2>1. p[u] = "await" /\ (q = <<>> => ~ (at[u] = b /\ u \in pending[b]))
    BY <1>2, <1>5, ToldFails
  <2>2. u # t /\ pc[u] = "await"
    BY <1>1, <2>1
  <2>3. at'[u] = at[u]
    BY <1>5, <2>2, OthersSettle
  <2>. QED  BY <1>5, <2>1, <2>2, <2>3
<1>. QED  BY <1>3, <1>4, <1>5 DEF Pends

\* What Release does to the others.
LEMMA ReleaseKeeps ==
  ASSUME Typed, NEW t \in Tasks, NEW b \in Bridges, NEW q, NEW state,
         Release(t, b, q, state), Settle([at EXCEPT ![t] = b])
  PROVE  /\ ~held'[b] /\ \A c \in Bridges \ {b} : held'[c] = held[c]
         /\ pc'[t] = state
         /\ \A u \in Tasks \ {t} : pc'[u] = "await" => pc[u] = "await" /\ at'[u] = at[u]
<1>1. ~held'[b] /\ (\A c \in Bridges \ {b} : held'[c] = held[c]) /\ pc'[t] = state
      /\ \A u \in Tasks \ {t} : pc'[u] = pc[u]
  BY DEF Release, Typed
<1>. QED  BY <1>1, OthersSettle

LEMMA ReleasePends ==
  ASSUME Typed, NEW t \in Tasks, NEW b \in Bridges, NEW q, NEW state,
         Release(t, b, q, state), Settle([at EXCEPT ![t] = b]), NEW X, X \subseteq Tasks,
         pending[b] \subseteq X, pending' = [pending EXCEPT ![b] = X],
         state = "await" => t \in X
  PROVE  Pends(b, X)
<1>1. \A c \in Bridges : held'[c] => IF c = b THEN X = {} ELSE held[c]
  BY ReleaseKeeps
<1>2. ASSUME NEW u \in Tasks, pc'[u] = "await"
      PROVE  \/ at'[u] = b /\ u \in X
             \/ /\ pc[u] = "await" /\ at'[u] = at[u]
                /\ at[u] = b /\ u \in pending[b] => u \in X
  <2>0. /\ pc'[t] = state
        /\ \A v \in Tasks \ {t} : pc'[v] = "await" => pc[v] = "await" /\ at'[v] = at[v]
    BY ReleaseKeeps
  <2>1. CASE u = t
    BY <1>2, <2>0, <2>1, OthersSettle
  <2>2. CASE u # t
    BY <1>2, <2>0, <2>2
  <2>. QED  BY <2>1, <2>2
<1>. QED  BY <1>1, <1>2 DEF Pends

LEMMA WritePends ==
  ASSUME Typed, PendInv, NEW t \in Tasks, NEW b \in Bridges, NEW q, Write(t, b, q),
         Settle([at EXCEPT ![t] = b])
  PROVE  \E X : Pends(b, X)
<1>0. pending[b] \subseteq Tasks /\ Entry(t) \subseteq Tasks
  BY DEF PendInv, PendingType, Entry
<1>1. CASE Release(t, b, q, Failed(t)) /\ UNCHANGED pending
  <2>1. PICK X : X = pending[b]
    OBVIOUS
  <2>2. Failed(t) # "await" /\ pending' = [pending EXCEPT ![b] = X]
    BY <1>1, <2>1 DEF Failed, PendInv, PendingType
  <2>3. X \subseteq Tasks /\ pending[b] \subseteq X
    BY <1>0, <2>1
  <2>4. Pends(b, X)
    BY <1>1, <2>2, <2>3, ReleasePends
  <2>. QED  BY <2>4
<1>2. CASE /\ \/ Release(t, b, q, Written(t))
              \/ Release(t, b, q, "ended")
           /\ pending' = [pending EXCEPT ![b] = @ \cup Entry(t)]
  <2>1. Written(t) = "await" => t \in Entry(t)
    BY DEF Written, Entry
  <2>2. PICK X : X = pending[b] \cup Entry(t)
    OBVIOUS
  <2>3. pending' = [pending EXCEPT ![b] = X] /\ X \subseteq Tasks
    BY <1>0, <1>2, <2>2
  <2>4. Pends(b, X)
    <3>1. pending[b] \subseteq X /\ (Written(t) = "await" => t \in X)
      BY <2>1, <2>2
    <3>2. CASE Release(t, b, q, Written(t))
      BY <2>3, <3>1, <3>2, ReleasePends
    <3>3. CASE Release(t, b, q, "ended")
      BY <2>3, <3>1, <3>3, ReleasePends
    <3>. QED  BY <1>2, <3>2, <3>3
  <2>. QED  BY <2>4
<1>. QED  BY <1>1, <1>2 DEF Write

LEMMA RequestPends ==
  ASSUME Typed, PendInv, NEW t \in Tasks, NEW b \in Bridges, NEW q, NEW h \in BOOLEAN,
         h => held[b], Request(t, b, q, h, "up"), Settle([at EXCEPT ![t] = b])
  PROVE  \E X : Pends(b, X)
<1>1. CASE q = <<>>
  BY <1>1, WritePends DEF Request
<1>2. CASE q # <<>>
  BY <1>2, EnterPends DEF Request, AtLock
<1>. QED  BY <1>1, <1>2

\* _fail_pending by whoever settles what is pending on b.
LEMMA FailPends ==
  ASSUME Typed, NEW b \in Bridges, NEW t \in Tasks, NEW p, p[t] # "await",
         \A u \in Tasks \ {t} : p[u] = pc[u], NEW state, \A u \in Tasks : state[u] \in Left,
         pc' = FailAwaiting(p, b, state), pending' = [pending EXCEPT ![b] = {}],
         \A c \in Bridges \ {b} : held'[c] => held[c],
         Settle([at EXCEPT ![t] = b])
  PROVE  \E X : Pends(b, X)
<1>0. PICK X : X = {}
  OBVIOUS
<1>1. \A u \in Tasks : pc'[u] = "await" => p[u] = "await" /\ ~ (at[u] = b /\ u \in pending[b])
  BY FailAwaitingFails
<1>2. \A u \in Tasks : pc'[u] = "await" =>
        pc[u] = "await" /\ at'[u] = at[u] /\ ~ (at[u] = b /\ u \in pending[b])
  BY <1>1, OthersSettle
<1>3. Pends(b, X)
  BY <1>0, <1>2 DEF Pends
<1>. QED  BY <1>3

\* The same when nobody goes on: who settles is no task, or is where it was.
LEMMA FailOnlyPends ==
  ASSUME Typed, NEW b \in Bridges, NEW state, \A u \in Tasks : state[u] \in Left,
         pc' = FailAwaiting(pc, b, state), pending' = [pending EXCEPT ![b] = {}],
         \A c \in Bridges \ {b} : held'[c] => held[c], Settle(at)
  PROVE  \E X : Pends(b, X)
<1>0. PICK X : X = {}
  OBVIOUS
<1>1. \A u \in Tasks : pc'[u] = "await" => pc[u] = "await" /\ ~ (at[u] = b /\ u \in pending[b])
  BY FailAwaitingFails
<1>2. \A u \in Tasks : pc'[u] = "await" => at'[u] = at[u]
  BY DEF Settle
<1>3. Pends(b, X)
  BY <1>0, <1>1, <1>2 DEF Pends
<1>. QED  BY <1>3

LEMMA CloseNothingPends ==
  ASSUME Typed, NEW t \in Tasks, NEW b \in Bridges, NEW q, CloseNothing(t, b, q),
         Settle([at EXCEPT ![t] = b])
  PROVE  \E X : Pends(b, X)
<1>. DEFINE p == [pc EXCEPT ![t] = Through(t)]
<1>1. p[t] # "await" /\ \A u \in Tasks \ {t} : p[u] = pc[u]
  BY DEF Typed, Through
<1>2. pc' = FailAwaiting(p, b, Told) /\ pending' = [pending EXCEPT ![b] = {}]
  BY DEF CloseNothing
<1>3. \A c \in Bridges \ {b} : held'[c] => held[c]
  BY DEF CloseNothing, Typed
<1>. HIDE DEF p
<1>. QED  BY <1>1, <1>2, <1>3, ToldType, FailPends

LEMMA ClosePends ==
  ASSUME Typed, PendInv, NEW t \in Tasks, NEW b \in Bridges, NEW q, NEW h \in BOOLEAN,
         h => held[b], NEW op \in {"reap", "discard"}, NEW st,
         CloseBridge(t, b, op, q, h, st), Settle([at EXCEPT ![t] = b])
  PROVE  \E X : Pends(b, X)
<1>1. CASE q = <<>> /\ st = "none"
  BY <1>1, CloseNothingPends DEF CloseBridge
<1>2. CASE ~ (q = <<>> /\ st = "none")
  BY <1>2, EnterPends DEF CloseBridge, AtLock
<1>. QED  BY <1>1, <1>2

\* t is through with b: it pops its entry, and only with an id that others use
\* an entry of theirs.
LEMMA LeavePends ==
  ASSUME Typed, PendInv, NEW t \in Tasks, NEW b \in Bridges, NEW X, X \subseteq pending[b],
         \A u \in pending[b] \ X : u = t \/ ~OwnId(u),
         NEW state, state # "await", pc' = [pc EXCEPT ![t] = state],
         pending' = [pending EXCEPT ![b] = X], UNCHANGED held, Settle(at)
  PROVE  Pends(b, X)
<1>1. X \subseteq Tasks /\ (held[b] => X = {})
  BY DEF PendInv, PendingType
<1>2. \A u \in Tasks : pc'[u] = "await" => u # t /\ pc[u] = "await" /\ at'[u] = at[u]
  BY DEF Settle, Typed
<1>. QED  BY <1>1, <1>2 DEF Pends

LEMMA PoppedSame ==
  ASSUME NEW t \in Tasks, NEW b, NEW u \in Tasks, u \in pending[b] \ Popped(t, b), u # t
  PROVE  ~OwnId(u)
BY DEF Popped, SameId, OwnId

-----------------------------------------------------------------------------
\* One lemma per action again.
LEMMA CallPends ==
  ASSUME PoolInv, PendInv, NEW c \in Clients, NEW b \in Bridges, Call(c, b)
  PROVE  \E X : Pends(b, X)
<1>0. /\ Typed /\ c \in Tasks /\ held[b] \in BOOLEAN
      /\ Settle([at EXCEPT ![c] = b])
  BY DEF PoolInv, Typed, Tasks, Call
<1>1. CASE Request(c, b, <<>>, FALSE, "up")
  BY <1>0, <1>1, RequestPends
<1>2. CASE Enter(c, b, "get", lifecycle[b], held[b], pending[b])
  BY <1>0, <1>2, EnterPends DEF AtLock
<1>. QED  BY <1>1, <1>2 DEF Call

LEMMA InvokePends ==
  ASSUME PoolInv, PendInv, NEW c \in Clients, Invoke(c)
  PROVE  PendInv'
<1>1. ASSUME NEW b \in Bridges, Call(c, b) PROVE PendInv'
  BY <1>1, CallPends, PendsSafe
<1>2. CASE table[KeyOf[c]] # NoBridge /\ Call(c, table[KeyOf[c]])
  <2>1. KeyOf[c] \in Keys
    BY PoolAssumption
  <2>2. PICK b \in Bridges : b = table[KeyOf[c]]
    BY <1>2, <2>1 DEF PoolInv, Typed
  <2>. QED  BY <1>1, <1>2, <2>2
<1>3. CASE /\ pc' = [pc EXCEPT ![c] = "ended"]
           /\ UNCHANGED <<table, owner, at, lifecycle, held, pending, idle>>
  BY <1>3, NothingPends DEF PoolInv, Typed
<1>. QED  BY <1>1, <1>2, <1>3 DEF Invoke

LEMMA TurnPends ==
  ASSUME PoolInv, PendInv, NEW b \in Bridges, Turn(b)
  PROVE  PendInv'
<1>. PICK t, rest : t \in Tasks /\ t = Head(lifecycle[b]) /\ rest = Tail(lifecycle[b])
  BY HeadWorksThere DEF Turn
<1>0. Typed /\ at[t] = b /\ ~held[b] /\ Settle(at)
  BY HeadWorksThere DEF PoolInv, Turn
<1>1. Settle([at EXCEPT ![t] = b])
  BY <1>0, SettledThere
<1>2. CASE Request(t, b, rest, FALSE, "up")
  BY <1>0, <1>1, <1>2, RequestPends, PendsSafe
<1>3. CASE Write(t, b, rest)
  BY <1>0, <1>1, <1>3, WritePends, PendsSafe
<1>4. CASE CloseNothing(t, b, rest)
  BY <1>0, <1>1, <1>4, CloseNothingPends, PendsSafe
<1>5. CASE /\ held' = [held EXCEPT ![b] = TRUE]
           /\ pc' = FailAwaiting(pc, b, Told)
           /\ pending' = [pending EXCEPT ![b] = {}]
  <2>1. \A c \in Bridges \ {b} : held'[c] => held[c]
    BY <1>0, <1>5 DEF Typed
  <2>. QED  BY <1>0, <1>5, <2>1, ToldType, FailOnlyPends, PendsSafe
<1>. QED  BY <1>2, <1>3, <1>4, <1>5 DEF Turn

\* Whoever held the lock has left nothing pending.
LEMMA HeadLeaves ==
  ASSUME PoolInv, PendInv, NEW b \in Bridges, held[b], NEW state, state # "await",
         Release(Head(lifecycle[b]), b, Tail(lifecycle[b]), state),
         UNCHANGED pending, Settle(at)
  PROVE  PendInv'
<1>0. lifecycle[b] # <<>>
  BY DEF PoolInv, HeldInv
<1>. PICK t, rest : t \in Tasks /\ t = Head(lifecycle[b]) /\ rest = Tail(lifecycle[b])
  BY <1>0, HeadWorksThere
<1>1. Typed /\ at[t] = b /\ pending[b] = {}
  BY <1>0, HeadWorksThere DEF PoolInv, PendInv
<1>2. Settle([at EXCEPT ![t] = b])
  BY <1>1, SettledThere
<1>3. PICK X : X = pending[b]
  OBVIOUS
<1>4. pending' = [pending EXCEPT ![b] = X] /\ X \subseteq Tasks
  BY <1>1, <1>3 DEF PendInv, PendingType
<1>5. Release(t, b, rest, state) /\ pending[b] \subseteq X
  BY <1>3
<1>6. Typed /\ X \subseteq Tasks /\ pending' = [pending EXCEPT ![b] = X]
      /\ (state = "await" => t \in X)
  BY <1>1, <1>4
<1>7. Pends(b, X)
  BY ZenonT(30), <1>2, <1>5, <1>6, ReleasePends
<1>. QED  BY <1>7, PendsSafe

LEMMA GoesOnElsewhere ==
  ASSUME NEW t
  PROVE  Failed(t) # "await" /\ Through(t) # "await"
BY DEF Failed, Through

LEMMA StartOkPends ==
  ASSUME PoolInv, PendInv, NEW b \in Bridges, StartOk(b)
  PROVE  PendInv'
<1>0. Typed /\ lifecycle[b] # <<>> /\ held[b] /\ Settle(at)
  BY DEF PoolInv, HeldInv, StartOk
<1>. PICK t, rest : t \in Tasks /\ t = Head(lifecycle[b]) /\ rest = Tail(lifecycle[b])
  BY <1>0, HeadWorksThere
<1>1. at[t] = b /\ pc[t] \in AtLock \ {"reap", "discard"}
  BY <1>0, HeadWorksThere DEF StartOk
<1>2. Settle([at EXCEPT ![t] = b])
  BY <1>0, <1>1, SettledThere
<1>3. CASE pc[t] = "get"
  <2>1. Request(t, b, rest, FALSE, "up")
    BY <1>3 DEF StartOk
  <2>. QED  BY <1>0, <1>2, <2>1, RequestPends, PendsSafe
<1>4. CASE pc[t] = "ensure"
  <2>1. Write(t, b, rest)
    BY <1>4 DEF StartOk
  <2>. QED  BY <1>0, <1>2, <2>1, WritePends, PendsSafe
<1>5. CASE pc[t] = "restart"
  <2>1. Release(Head(lifecycle[b]), b, Tail(lifecycle[b]), Failed(t)) /\ UNCHANGED pending
    BY <1>5 DEF StartOk
  <2>. QED  BY <1>0, <2>1, GoesOnElsewhere, HeadLeaves
<1>6. CASE pc[t] = "recycle"
  <2>1. Release(Head(lifecycle[b]), b, Tail(lifecycle[b]), Through(t)) /\ UNCHANGED pending
    BY <1>6 DEF StartOk
  <2>. QED  BY <1>0, <2>1, GoesOnElsewhere, HeadLeaves
<1>. QED  BY <1>1, <1>3, <1>4, <1>5, <1>6 DEF AtLock

LEMMA StartFailsPends ==
  ASSUME PoolInv, PendInv, NEW b \in Bridges, StartFails(b)
  PROVE  PendInv'
<1>0. Typed /\ lifecycle[b] # <<>> /\ held[b] /\ Settle(at)
  BY DEF PoolInv, HeldInv, StartFails
<1>. PICK t, rest : t \in Tasks /\ t = Head(lifecycle[b]) /\ rest = Tail(lifecycle[b])
  BY <1>0, HeadWorksThere
<1>1. Settle([at EXCEPT ![t] = b])
  BY <1>0, HeadWorksThere, SettledThere
<1>2. ASSUME NEW state, state # "await", Release(t, b, rest, state), UNCHANGED pending
      PROVE  PendInv'
  BY <1>0, <1>2, HeadLeaves
<1>3. CASE CloseBridge(t, b, "discard", rest, FALSE, "none")
  BY <1>0, <1>1, <1>3, ClosePends, PendsSafe
<1>. QED  BY <1>2, <1>3, GoesOnElsewhere DEF StartFails

LEMMA CloseDonePends ==
  ASSUME PoolInv, PendInv, NEW b \in Bridges, CloseDone(b)
  PROVE  PendInv'
BY GoesOnElsewhere, HeadLeaves DEF CloseDone

LEMMA CrashPends ==
  ASSUME PoolInv, PendInv, NEW b \in Bridges, Crash(b) \/ ReaderDies(b)
  PROVE  PendInv'
<1>0. Typed /\ Settle(at) /\ UNCHANGED held /\ pending' = [pending EXCEPT ![b] = {}]
  BY DEF PoolInv, Crash, ReaderDies
<1>1. ASSUME NEW state, \A t \in Tasks : state[t] \in Left, pc' = FailAwaiting(pc, b, state)
      PROVE  PendInv'
  BY <1>0, <1>1, FailOnlyPends, PendsSafe
<1>2. PICK uncaught, broken : /\ uncaught = [t \in Tasks |-> Uncaught(t)]
                              /\ broken = [t \in Tasks |-> "broken"]
  OBVIOUS
<1>3. \A t \in Tasks : uncaught[t] \in Left /\ broken[t] \in Left
  BY <1>2 DEF Uncaught, Left
<1>4. pc' \in {FailAwaiting(pc, b, Told), FailAwaiting(pc, b, uncaught),
               FailAwaiting(pc, b, broken)}
  BY <1>2 DEF Crash, ReaderDies
<1>. QED  BY <1>1, <1>3, <1>4, ToldType

LEMMA EndsPends ==
  ASSUME PoolInv, PendInv, NEW t \in Tasks, Answer(t) \/ Fails(t) \/ Deadline(t)
  PROVE  PendInv'
<1>0. /\ Typed /\ pc[t] \in {"await", "failed"} /\ UNCHANGED held /\ Settle(at)
      /\ pc' = [pc EXCEPT ![t] = Through(t)] \/ pc' = [pc EXCEPT ![t] = Failed(t)]
  BY DEF PoolInv, Answer, Fails, Deadline, Ends
<1>1. PICK b \in Bridges : b = at[t]
  BY <1>0 DEF PoolInv, Typed, AtInv, Off
<1>2. PICK X : /\ pending' = [pending EXCEPT ![b] = X]
               /\ X = pending[b] \ {t} \/ X = Popped(t, b)
  BY <1>1 DEF Answer, Fails, Deadline, Ends
<1>3. X \subseteq pending[b] /\ \A u \in pending[b] \ X : u = t \/ ~OwnId(u)
  <2>1. pending[b] \subseteq Tasks
    BY DEF PendInv, PendingType
  <2>. QED  BY <1>2, <2>1, PoppedSame DEF Popped
<1>4. Pends(b, X)
  BY <1>0, <1>2, <1>3, GoesOnElsewhere, LeavePends
<1>. QED  BY <1>4, PendsSafe

LEMMA RestartPends ==
  ASSUME PoolInv, PendInv, NEW t \in Tasks, Restart(t)
  PROVE  PendInv'
<1>0. Typed /\ pc[t] \in {"await", "failed", "broken"} /\ Settle(at)
  BY DEF PoolInv, Restart
<1>1. PICK b \in Bridges : b = at[t]
  BY <1>0 DEF PoolInv, Typed, AtInv, Off
<1>2. Settle([at EXCEPT ![t] = b]) /\ held[b] \in BOOLEAN
  BY <1>0, <1>1, SettledThere DEF Typed
<1>3. PICK left : left = Popped(t, b)
  OBVIOUS
<1>4. left \in SUBSET pending[b] /\ \A u \in pending[b] \ left : u = t \/ ~OwnId(u)
  <2>1. pending[b] \subseteq Tasks
    BY DEF PendInv, PendingType
  <2>. QED  BY <1>3, <2>1, PoppedSame DEF Popped
<1>5. Enter(t, b, "restart", lifecycle[b], held[b], left)
  BY <1>1, <1>3 DEF Restart
<1>. QED  BY <1>0, <1>2, <1>4, <1>5, EnterPends, PendsSafe DEF AtLock

LEMMA RecyclePends ==
  ASSUME PoolInv, PendInv, NEW t \in Tasks, NEW b \in Bridges, Recycle(t, b),
         Settle([at EXCEPT ![t] = b])
  PROVE  PendInv'
<1>0. Typed /\ held[b] \in BOOLEAN
  BY DEF PoolInv, Typed
<1>1. CASE Enter(t, b, "recycle", lifecycle[b], held[b], pending[b])
  BY <1>0, <1>1, EnterPends, PendsSafe DEF AtLock
<1>2. CASE pc' = [pc EXCEPT ![t] = Through(t)] /\ UNCHANGED <<lifecycle, held, pending>>
  <2>1. \A u \in Tasks : pc'[u] = "await" => pc[u] = "await" /\ u # t
    BY <1>0, <1>2, GoesOnElsewhere DEF Typed
  <2>. QED  BY <1>0, <1>2, <2>1, OthersSettle, NothingPends
<1>. QED  BY <1>1, <1>2 DEF Recycle

LEMMA ExaminePends ==
  ASSUME PoolInv, PendInv, NEW b \in Bridges, Examine(b)
  PROVE  PendInv'
<1>0. /\ Typed /\ Reaper \in Tasks /\ held[b] \in BOOLEAN /\ pc[Reaper] = "pass"
      /\ Settle([at EXCEPT ![Reaper] = b])
  BY DEF PoolInv, Typed, Tasks, Examine
<1>1. CASE CloseBridge(Reaper, b, "reap", lifecycle[b], held[b], child[b])
  BY <1>0, <1>1, ClosePends, PendsSafe
<1>2. CASE UNCHANGED <<table, lifecycle, held, pending, pc, idle>>
  <2>1. \A u \in Tasks : pc'[u] = "await" => pc[u] = "await" /\ u # Reaper
    BY <1>0, <1>2
  <2>. QED  BY <1>0, <1>2, <2>1, OthersSettle, NothingPends
<1>3. CASE Recycle(Reaper, b)
  BY <1>0, <1>3, RecyclePends
<1>4. CASE Request(Reaper, b, lifecycle[b], held[b], "up")
  BY <1>0, <1>4, RequestPends, PendsSafe
<1>. QED  BY <1>1, <1>2, <1>3, <1>4 DEF Examine

LEMMA UnhealthyPends ==
  ASSUME PoolInv, PendInv, NEW t \in Tasks, Unhealthy(t)
  PROVE  PendInv'
<1>0. Typed /\ pc[t] = "unhealthy" /\ Settle(at)
  BY DEF PoolInv, Unhealthy
<1>1. PICK b \in Bridges : b = at[t]
  BY <1>0 DEF PoolInv, Typed, AtInv, Off
<1>2. Settle([at EXCEPT ![t] = b])
  BY <1>0, <1>1, SettledThere
<1>. QED  BY <1>1, <1>2, RecyclePends DEF Unhealthy

LEMMA ProbePends ==
  ASSUME PoolInv, PendInv, NEW p \in Probes, Probe(p)
  PROVE  PendInv'
<1>0. Typed /\ p \in Tasks /\ KeyOf[p] \in Keys
  BY PoolAssumption DEF PoolInv, Tasks
<1>1. PICK b \in Bridges \cup {NoBridge} : b = table[KeyOf[p]]
  BY <1>0 DEF Typed
<1>2. Settle([at EXCEPT ![p] = b])
  BY <1>1 DEF Probe
<1>3. CASE pc' = [pc EXCEPT ![p] = "ended"] /\ UNCHANGED <<table, lifecycle, held, pending, idle>>
  <2>1. \A u \in Tasks : pc'[u] = "await" => pc[u] = "await" /\ u # p
    BY <1>0, <1>3 DEF Typed
  <2>. QED  BY <1>0, <1>2, <1>3, <2>1, OthersSettle, NothingPends
<1>4. CASE b # NoBridge /\ Recycle(p, b)
  BY <1>0, <1>2, <1>4, RecyclePends
<1>5. CASE b # NoBridge /\ Request(p, b, lifecycle[b], held[b], "up")
  <2>1. held[b] \in BOOLEAN
    BY <1>0, <1>5 DEF Typed
  <2>. QED  BY <1>0, <1>2, <1>5, <2>1, RequestPends, PendsSafe
<1>. QED  BY <1>1, <1>3, <1>4, <1>5 DEF Probe

LEMMA ClosePoolPends ==
  ASSUME PoolInv, PendInv, Close
  PROVE  PendInv'
<1>0. Typed /\ Reaper \in Tasks
  BY DEF PoolInv, Tasks
<1>1. \A u \in Tasks : ~ (pc'[u] = "await")
  <2>1. \A u \in Tasks : u # Reaper => pc[u] \in {"idle", "ended"}
    BY DEF Close, Tasks
  <2>. QED  BY <1>0, <2>1 DEF Close, Typed
<1>2. pending' \in [Bridges -> SUBSET Tasks] /\ \A b \in Bridges : ~held'[b]
  BY DEF Close, PendInv, PendingType
<1>. QED  BY <1>1, <1>2 DEF PendInv, PendingType

LEMMA StepPends == PoolInv /\ PendInv /\ [Next]_vars => PendInv'
<1>. SUFFICES ASSUME PoolInv, PendInv, [Next]_vars PROVE PendInv'
  OBVIOUS
<1>1. ASSUME NEW c \in Clients, Invoke(c) PROVE PendInv'
  BY <1>1, InvokePends
<1>2. ASSUME NEW n \in Notes, Drained(n) PROVE PendInv'
  <2>1. Typed /\ n \in Tasks /\ pc[n] = "drain" /\ UNCHANGED <<held, pending>>
    BY <1>2 DEF PoolInv, Tasks, Clients, Drained
  <2>2. \A u \in Tasks : pc'[u] = "await" => pc[u] = "await" /\ at'[u] = at[u]
    BY <1>2, <2>1 DEF Drained, Settle, Typed
  <2>. QED  BY <2>1, <2>2, NothingPends
<1>3. ASSUME NEW p \in Probes, Probe(p) PROVE PendInv'
  BY <1>3, ProbePends
<1>4. ASSUME NEW b \in Bridges,
             \/ Turn(b) \/ StartOk(b) \/ StartFails(b) \/ CloseDone(b)
             \/ Crash(b) \/ ReaderDies(b) \/ Examine(b)
      PROVE  PendInv'
  BY <1>4, TurnPends, StartOkPends, StartFailsPends, CloseDonePends, CrashPends,
     ExaminePends
<1>5. ASSUME NEW t \in Tasks,
             Fails(t) \/ Deadline(t) \/ Restart(t) \/ Answer(t) \/ Unhealthy(t)
      PROVE  PendInv'
  BY <1>5, RestartPends, EndsPends, UnhealthyPends
<1>6. CASE Wake \/ PassEnds
  <2>1. Typed /\ Reaper \in Tasks /\ UNCHANGED <<held, pending, at>>
    BY <1>6 DEF PoolInv, Tasks, Wake, PassEnds
  <2>2. \A u \in Tasks : pc'[u] = "await" => pc[u] = "await"
    BY <1>6, <2>1 DEF Wake, PassEnds, Typed
  <2>. QED  BY <2>1, <2>2, NothingPends
<1>7. CASE Close
  BY <1>7, ClosePoolPends
<1>8. CASE UNCHANGED vars
  BY <1>8, NothingPends DEF vars
<1>. QED  BY <1>1, <1>2, <1>3, <1>4, <1>5, <1>6, <1>7, <1>8 DEF Next

LEMMA PoolIsSound == Spec => [](PoolInv /\ PendInv)
<1>1. Init => PendInv
  BY DEF Init, PendInv, PendingType
<1>. QED  BY <1>1, InitPool, StepPool, StepPends, PTL DEF Spec

\* The table, the locks and the tasks keep their types, and the bound on the
\* idle count is never passed, whoever calls, crashes or shuts down.
THEOREM TypeCorrect == Spec => []TypeOK
<1>1. PoolInv /\ PendInv => TypeOK
  BY DEF PoolInv, PendInv, Typed, PendingType, TypeOK
<1>. QED  BY <1>1, PoolIsSound, PTL

\* Whoever holds the lock of a bridge in order to close it has taken the bridge
\* out of the table, or found it gone: a caller that comes in meanwhile gets
\* another one (mcp_supervisor.py:622-630).
THEOREM NobodyGetsAClosedBridge == Spec => []ClosedIsOutOfTable
<1>1. PoolInv => ClosedIsOutOfTable
  <2>. SUFFICES ASSUME PoolInv, NEW b \in Bridges, BeingClosed(b) PROVE ~Registered(b)
    BY DEF ClosedIsOutOfTable
  <2>1. lifecycle[b] # <<>>
    BY DEF BeingClosed, PoolInv, HeldInv
  <2>. QED  BY <2>1, HeadWorksThere DEF BeingClosed, Closing
<1>. QED  BY <1>1, PoolIsSound, PTL

-----------------------------------------------------------------------------
Busy(b) == HasPending(b) \/ \E t \in Tasks : Awaits(t, b)
Drops == \E k \in Keys : table[k] # NoBridge /\ table'[k] = NoBridge /\ ~closed'
                         /\ Busy(table[k])

\* Who awaits an answer under an id of its own is pending.
LEMMA NothingPendingIsFree ==
  ASSUME PendInv, NEW b, ~HasPending(b)
  PROVE  ~Busy(b)
BY DEF PendInv, HasPending, Busy, Awaits

\* A removal takes out the one bridge it means.
LEMMA TakesOne ==
  ASSUME PoolInv, PendInv, NEW b \in Bridges, TakeOut(b), Registered(b), ~HasPending(b)
  PROVE  ~Drops
<1>1. ~Busy(b)
  BY NothingPendingIsFree
<1>. QED  BY <1>1 DEF PoolInv, Typed, TakeOut, Registered, Drops

LEMMA LeavesTable ==
  ASSUME UNCHANGED table
  PROVE  ~Drops
BY DEF Drops

LEMMA StepDropsNobody ==
  ASSUME PoolInv, PendInv, [Next]_vars
  PROVE  ~Drops
<1>1. ASSUME NEW c \in Clients, Invoke(c) PROVE ~Drops
  <2>1. CASE UNCHANGED table
    BY <2>1, LeavesTable
  <2>2. ASSUME NEW b \in Bridges, table' = [table EXCEPT ![KeyOf[c]] = b] PROVE ~Drops
    BY <2>2 DEF Drops, PoolInv, Typed, Bridges, NoBridge
  <2>. QED  BY <1>1, <2>1, <2>2 DEF Invoke
<1>2. ASSUME NEW n \in Notes, Drained(n) PROVE ~Drops
  BY <1>2, LeavesTable DEF Drained
<1>3. ASSUME NEW p \in Probes, Probe(p) PROVE ~Drops
  BY <1>3, LeavesTable DEF Probe, Recycle
<1>4. ASSUME NEW b \in Bridges, Turn(b) \/ StartOk(b) \/ CloseDone(b) \/ Crash(b) \/ ReaderDies(b)
      PROVE  ~Drops
  BY <1>4, LeavesTable DEF Turn, StartOk, CloseDone, Crash, ReaderDies
\* Its holder has failed what was pending, and nobody can send anything since.
<1>5. ASSUME NEW b \in Bridges, StartFails(b) PROVE ~Drops
  <2>1. ~HasPending(b)
    BY <1>5 DEF StartFails, PendInv, HasPending
  <2>. QED  BY <1>5, <2>1, LeavesTable, TakesOne DEF StartFails
\* The reaper looks and takes out in one step.
<1>6. ASSUME NEW b \in Bridges, Examine(b) PROVE ~Drops
  BY <1>6, LeavesTable, TakesOne DEF Examine, Recycle, Idle
<1>7. ASSUME NEW t \in Tasks,
             Fails(t) \/ Deadline(t) \/ Restart(t) \/ Answer(t) \/ Unhealthy(t)
      PROVE  ~Drops
  BY <1>7, LeavesTable DEF Fails, Deadline, Ends, Restart, Answer, Unhealthy, Recycle
<1>8. CASE Wake \/ PassEnds \/ UNCHANGED vars
  BY <1>8, LeavesTable DEF Wake, PassEnds, vars
<1>9. CASE Close
  BY <1>9 DEF Close, Drops
<1>. QED  BY <1>1, <1>2, <1>3, <1>4, <1>5, <1>6, <1>7, <1>8, <1>9 DEF Next

\* Until shutdown no step takes a bridge out of the table while an entry is pending
\* on it or a request with an id of its own awaits an answer from it: neither the reaper nor whoever fails to recycle a bridge,
\* however many queue for its lock, and though the reaper's list of bridges is
\* as old as its pass (mcp_supervisor.py:577-604 and 617-630).
THEOREM NobodyIsDropped == Spec => DropsOnlyTheIdle
<1>1. PoolInv /\ PendInv /\ [Next]_vars =>
        [\A k \in Keys : table[k] # NoBridge /\ table'[k] = NoBridge /\ ~closed'
           => ~HasPending(table[k]) /\ \A t \in Tasks : ~Awaits(t, table[k])]_vars
  BY StepDropsNobody DEF Drops, Busy
<1>. QED  BY <1>1, PoolIsSound, PTL DEF Spec, DropsOnlyTheIdle
=============================================================================
