------------------------------ MODULE MCEgress ------------------------------
(* Egress on small instances.                                               *)
EXTENDS Egress, TLC

CONSTANTS c1, c2, c3, k, r1, r2

\* Three calls under one key: two of one run, one of another.
OneKey == [c \in Call |-> k]
TwoRuns == [c \in Call |-> IF c = c3 THEN r2 ELSE r1]

\* Calls of one run are interchangeable.
Symmetric == Permutations({c1, c2})
=============================================================================
