-------------------------- MODULE MCDelegationJobs --------------------------
(* A small instance of DelegationJobs for TLC.                             *)
EXTENDS DelegationJobs, TLC

(* A cancellation settles its job at once.  After the last mishap there is *)
(* none any more, so that what is left over has to be settled by a worker. *)
LastUncanceledNext ==
  /\ Next
  /\ mishaps' = MaxMishap => \A j \in Job : canceling'[j] = Nobody

LastUncanceledFairSpec == Init /\ [][LastUncanceledNext]_vars /\ Fairness

=============================================================================
