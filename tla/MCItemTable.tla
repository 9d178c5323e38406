----------------------------- MODULE MCItemTable -----------------------------
(* Instances of ItemTable for TLC: two item entries, each a block of its own, with *)
(* indices above all slot numbers or among them.                                   *)
EXTENDS ItemTable
AboveSlots == <<<<4>>, <<5>>>>
AmongSlots == <<<<1>>, <<2>>>>
TaskSymmetry == Permutations(Tasks)
=============================================================================
