------------------------------ MODULE MCTaskLife ------------------------------
(* Instances of TaskLife for TLC: a task, its thread and the thread's thread. *)
EXTENDS TaskLife
CONSTANTS a, b, c, q
MCParent  == [t \in Tasks |-> CASE t = b -> a [] t = c -> b [] OTHER -> NoTask]
MCCreator == [r \in Reqs |-> IF r = q THEN c ELSE b]
ByParent  == [t \in Tasks |-> {MCParent[t]} \ {NoTask}]
===============================================================================
