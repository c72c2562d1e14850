---------------------------- MODULE MCScheduler -----------------------------
(* Instances of Scheduler for TLC: pid numbers matter (find_free_slot and   *)
(* do_wait take the lowest), so slots are numbers and only cores are model  *)
(* values.                                                                  *)
EXTENDS Scheduler, TLC

Pids2 == 1..2
=============================================================================
