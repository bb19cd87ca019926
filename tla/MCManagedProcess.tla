-------------------------- MODULE MCManagedProcess --------------------------
\* Small instances of ManagedProcess for TLC.
EXTENDS ManagedProcess, TLC

CONSTANTS c1, c2, c3, i1, i2

\* The first call has an id of its own, which the others share.
FirstApart == [c \in Calls |-> IF c = c1 THEN i1 ELSE i2]
\* Clients that all use the same id.
SharedId == [c \in Calls |-> i1]

\* Subprocesses are interchangeable, and so are calls that share one id.
Symmetry == Permutations(Subprocesses) \cup Permutations(Calls \ {c1})
=============================================================================
