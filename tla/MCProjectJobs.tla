---------------------------- MODULE MCProjectJobs ----------------------------
(* Two jobs of one ticket, for TLC.                                         *)
EXTENDS ProjectJobs, TLC

CONSTANTS j1, j2, board

OneTicket == [j \in Job |-> board]
Symmetry == Permutations(Job)

(* No guard reads the column a ticket is in: states that differ in nothing  *)
(* else have the same future.                                               *)
AllButTheTicket ==
  <<status, worktrees, mode, runtime, calls, history>>

==============================================================================
