----------------------------- MODULE CallPromise -----------------------------
(***************************************************************************)
(* What ManagedMCPProcess promises its callers, whatever the subprocess    *)
(* does: a call is accepted and answered only by a process in service, and *)
(* taking the process out of service fails every call it still owes.  It   *)
(* says nothing of locks, tasks, pipes, futures or tables.                 *)
(***************************************************************************)
CONSTANT Calls

VARIABLES
  serving,  \* a process is in service: it is not being recycled or closed
  status    \* per call: not accepted yet, owed an answer, answered, failed

promise == <<serving, status>>

Init ==
  /\ serving = FALSE
  /\ status = [c \in Calls |-> "new"]

\* A call is accepted, by the process in service or the one just started.
Accept(c) ==
  /\ status[c] = "new"
  /\ serving'
  /\ status' = [status EXCEPT ![c] = "open"]

\* A call is turned away; a process may have been started for it.
Reject(c) ==
  /\ status[c] = "new"
  /\ serving \in {serving', FALSE}
  /\ status' = [status EXCEPT ![c] = "failed"]

Answer(c) ==
  /\ serving
  /\ status[c] = "open"
  /\ status' = [status EXCEPT ![c] = "answered"]
  /\ UNCHANGED serving

\* The deadline of one call, or its write failing.
GiveUp(c) ==
  /\ status[c] = "open"
  /\ status' = [status EXCEPT ![c] = "failed"]
  /\ UNCHANGED serving

StartService ==
  /\ serving'
  /\ UNCHANGED status

\* Nobody stays behind when the process stops, or is found dead or unreadable.
FailAll ==
  /\ serving' \in {serving, FALSE}
  /\ status' = [c \in Calls |->
                  IF status[c] = "open" THEN "failed" ELSE status[c]]

Next ==
  \/ \E c \in Calls : Accept(c) \/ Reject(c) \/ Answer(c) \/ GiveUp(c)
  \/ StartService \/ FailAll

Spec == Init /\ [][Next]_promise
=============================================================================
