---------------------------- MODULE MCProcessPool ----------------------------
\* Small instances of ProcessPool for TLC.
EXTENDS ProcessPool, TLC

CONSTANTS c1, c2, c3, n1, p1, k1, k2, t1

\* The third caller and the notification want another server than everybody else,
\* for the same tenant.
TwoServers == [c \in Clients \cup Probes |-> IF c \in {c3, n1} THEN k2 ELSE k1]
OneTenant == [k \in Keys |-> t1]
LimitOne == [t \in Tenants |-> 1]
\* Ids begin at 1 again in every client, so that two callers may use the same;
\* or every caller has its own.
SameIds == [c \in Callers |-> 1]
OwnIds == [c \in Callers |-> c]
LimitTwo == [t \in Tenants |-> 2]
=============================================================================
