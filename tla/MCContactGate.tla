---------------------------- MODULE MCContactGate ----------------------------
(* Small instances of ContactGate.                                          *)
EXTENDS ContactGate, TLC

\* An entry from time 1 on, for ever as far as the clock goes.
FromOne == {<<1, MaxTime + 1>>}

Symmetric == Permutations(Call) \cup Permutations(Key) \cup Permutations(Approval)
=============================================================================
