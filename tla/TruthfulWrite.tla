---------------------------- MODULE TruthfulWrite ----------------------------
(***************************************************************************)
(* What the record of a governed write promises, without calls, stores or  *)
(* sweeps.  A write is attempted once; its effect lands at most once, and  *)
(* only after the attempt began; the record says "done" of a write that    *)
(* landed and never of another, "untouched" of a write that did not land   *)
(* and never of another, and "unknown" where it cannot tell.               *)
(***************************************************************************)
CONSTANT Id

VARIABLES
  verdict,   \* what the record says of each write
  tried,     \* the writes whose one attempt has begun
  landed     \* the writes whose effect is in the world

vars == <<verdict, tried, landed>>

Init ==
  /\ verdict = [i \in Id |-> "untouched"]
  /\ tried = {}
  /\ landed = {}

Begin(i) ==
  /\ verdict[i] = "untouched" /\ i \notin tried
  /\ verdict' = [verdict EXCEPT ![i] = "attempting"]
  /\ tried' = tried \cup {i}
  /\ UNCHANGED landed

\* The effect, which may come after the record has given up waiting for it.
Land(i) ==
  /\ verdict[i] \in {"attempting", "unknown"} /\ i \notin landed
  /\ landed' = landed \cup {i}
  /\ UNCHANGED <<verdict, tried>>

Settle(i) ==
  /\ verdict[i] = "attempting"
  /\ \/ i \in landed /\ verdict' = [verdict EXCEPT ![i] = "done"]
     \/ i \notin landed /\ verdict' = [verdict EXCEPT ![i] = "untouched"]
     \/ verdict' = [verdict EXCEPT ![i] = "unknown"]
  /\ UNCHANGED <<tried, landed>>

Next == \E i \in Id : Begin(i) \/ Land(i) \/ Settle(i)

Spec == Init /\ [][Next]_vars
=============================================================================
