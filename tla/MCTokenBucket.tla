---------------------------- MODULE MCTokenBucket ----------------------------
\* Small instances of TokenBucket for TLC.
EXTENDS TokenBucket, TLC

CONSTANTS c1, c2, c3

\* Fewer requests than tokens.
Limits == [k \in Buckets |-> IF k = "rpm" THEN 2 ELSE 3]

Symmetry == Permutations(Checks)
=============================================================================
