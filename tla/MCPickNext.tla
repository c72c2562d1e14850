----------------------------- MODULE MCPickNext -----------------------------
(* Instances of PickNext: weights 1 and 2, more merit the lower the slot. *)
EXTENDS PickNext

MCWeight(p, h) == IF h /\ p \in Performance THEN 1 ELSE 1 + (p % 2)

MCMerit(p, c, h) == 40 - 20 * p
=============================================================================
