----------------------------- MODULE MCSharedTurns -----------------------------
(* Three requests of one turn and another caller of the model, for TLC.      *)
EXTENDS SharedTurns, TLC

CONSTANTS r1, r2, r3, other

Symmetry == Permutations(Request)

(* The limits are explored while one request is under way, beside the other  *)
(* caller; the requests with calls that are refused or fail, on one day.     *)
LimitsOrRequests ==
  \/ /\ Cardinality({r \in Request : stage[r] # "new"}) <= 1
     /\ \A r \in Request : stage[r] \in {"new", "running", "gone"}
  \/ /\ today = 1 /\ recorded[1] = 0
     /\ \A r \in Request : call[r].used = 0
     /\ At(other, "none")

===============================================================================
