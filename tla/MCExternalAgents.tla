-------------------------- MODULE MCExternalAgents --------------------------
(* A small instance of ExternalAgents.                                      *)
EXTENDS ExternalAgents

CONSTANTS a, b, rep

\* One report, of the agent enrolled at the start, whose enrollment ends at time 1.
ByTheFirst == [r \in Report |-> a]
FirstExpires == [x \in Agent |-> IF x = a THEN 1 ELSE MaxTime + 1]
=============================================================================
