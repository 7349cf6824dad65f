-------------------------- MODULE MCScheduledRuns --------------------------
(* Instances of ScheduledRuns for TLC.                                     *)
EXTENDS ScheduledRuns

(* The repeating skill is installed alone, with the one-shot skill or with *)
(* the package: jobs share nothing but the slots of their scheduler.       *)
FewJobsInit ==
  Init /\ installed \in {Job \ Once, Job \ Package, Job \ (Once \cup Package)}

(* With a second job one mishap less is explored.                          *)
Alone == \A j \in Once \cup Package : j \notin installed /\ runs[j] = <<>>
FewMishaps == Alone \/ mishaps < MaxMishap

FewJobsFairSpec == FewJobsInit /\ [][Next /\ FewMishaps']_vars /\ Fairness
=============================================================================
