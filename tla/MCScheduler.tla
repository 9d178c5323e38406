----------------------------- MODULE MCScheduler -----------------------------
(* An instance of Scheduler for TLC; tasks that have the same role are       *)
(* interchangeable.                                                          *)
EXTENDS Scheduler, TLC

TaskSymmetry == Permutations(Mortal) \cup Permutations(Tasks \ Mortal)

=============================================================================
