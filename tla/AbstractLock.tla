---------------------------- MODULE AbstractLock ----------------------------
(***************************************************************************)
(* What a mutex promises: one holder at a time, and only its holder gives  *)
(* it up.                                                                  *)
(***************************************************************************)
CONSTANT Thread
VARIABLE holders

Init == holders = {}

Acquire(t) == holders = {} /\ holders' = {t}
Release(t) == holders = {t} /\ holders' = {}

Next == \E t \in Thread : Acquire(t) \/ Release(t)

Spec == Init /\ [][Next]_holders
=============================================================================
