------------------------ MODULE MCExternalExecution ------------------------
(* Small instances of ExternalExecution.                                    *)
EXTENDS ExternalExecution, TLC

CONSTANT k1

\* The byte order of one approval id.
OneRank == [id \in ParkedId |-> 1]

\* Calls, agents and payloads are interchangeable.
Symmetric == Permutations(Commit) \cup Permutations(Agent) \cup Permutations(Payload)
=============================================================================
