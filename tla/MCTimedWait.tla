---------------------------- MODULE MCTimedWait ----------------------------
(* Small instances of TimedWait. *)
EXTENDS TimedWait, TLC

CONSTANTS p1, p2, a1, s1

OneSpace == [p \in Pid |-> s1]

OneBucket == [a \in Addr |-> 0]

(* p2 was created with a CLEARTID word. *)
ClearTid == [p \in Pid |-> IF p = p2 THEN a1 ELSE NoAddr]
NoClearTid == [p \in Pid |-> NoAddr]
Symmetry == Permutations(Pid) \cup Permutations(Core)
=============================================================================
