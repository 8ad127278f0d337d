---------------------------- MODULE MCChokepoint ----------------------------
(* Small instances of Chokepoint.                                           *)
EXTENDS Chokepoint, TLC

CONSTANTS p1, c1, c2, r1

\* Every caller in one process, which started the run.
OneHome == [c \in Caller |-> p1]
OneOrigin == [r \in Run |-> p1]
OneEach == [m \in Meter |-> 1]
GlobalOnly == <<"global">>

Symmetric == Permutations(Caller)
=============================================================================
