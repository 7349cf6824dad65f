------------------------------- MODULE MCKanban -------------------------------
(* Model values for the kanban kernel, and what TLC explores of it.          *)
EXTENDS Kanban, TLC

Symmetry == Permutations(Task) \cup Permutations(Dispatcher)

(* Links matter between tasks, dispatchers and runs within one: states with  *)
(* several tasks are explored with one run and with no dispatcher at work,   *)
(* and a third run while a dispatcher is idle.                               *)
RunsOrLinks ==
  \/ /\ Cardinality({t \in Task : Exists(t)}) <= 1
     /\ NextRun <= 3 \/ \E d \in Dispatcher : at[d] = "idle"
  \/ NextRun <= 2 /\ \A d \in Dispatcher : at[d] = "idle"

===============================================================================
