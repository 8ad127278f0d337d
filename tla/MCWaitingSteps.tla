--------------------------- MODULE MCWaitingSteps ---------------------------
(* Small instances of WaitingSteps.                                         *)
EXTENDS WaitingSteps, TLC

\* An event whose timeout goes nowhere, a task, a gate, and an event whose timeout
\* goes to a timer.
LineKind == <<"event", "human", "gate", "event", "timer">>
LineNext == <<2, 3, 4, 0, 0>>
LineTimeouts == <<0, 0, 0, 5, 0>>
=============================================================================
