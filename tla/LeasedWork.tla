----------------------------- MODULE LeasedWork -----------------------------
(***************************************************************************)
(* What the durable work queues of kittypaw promise, whatever table they   *)
(* are kept in: a work item is held by one holder at a time, each hold is  *)
(* a new generation, only the current generation can close the item, and a *)
(* closed item never opens again.  Leases, claim tokens, workers,          *)
(* heartbeats, crashes and shutdown appear only in the modules that        *)
(* implement this one (DelegationJobs, ScheduledRuns).                      *)
(***************************************************************************)
EXTENDS Naturals

CONSTANT Item           \* the units of work

VARIABLES
  stage,                \* "open", "held" or "closed"
  generation,           \* how often the item has been taken
  closedBy              \* the generation that closed it, 0 if none did

vars == <<stage, generation, closedBy>>

Init ==
  /\ stage = [i \in Item |-> "open"]
  /\ generation = [i \in Item |-> 0]
  /\ closedBy = [i \in Item |-> 0]

(* A set of items is taken in one step.  A held item may be taken over: the *)
(* new generation supersedes the old holder.                                *)
Take(S) ==
  /\ S # {}
  /\ \A i \in S : stage[i] # "closed"
  /\ stage' = [i \in Item |-> IF i \in S THEN "held" ELSE stage[i]]
  /\ generation' =
       [i \in Item |-> IF i \in S THEN generation[i] + 1 ELSE generation[i]]
  /\ UNCHANGED closedBy

GiveBack(i) ==
  /\ stage[i] = "held"
  /\ stage' = [stage EXCEPT ![i] = "open"]
  /\ UNCHANGED <<generation, closedBy>>

(* The holder closes the item; the record names the current generation.    *)
Close(i) ==
  /\ stage[i] = "held"
  /\ stage' = [stage EXCEPT ![i] = "closed"]
  /\ closedBy' = [closedBy EXCEPT ![i] = generation[i]]
  /\ UNCHANGED generation

(* Somebody other than the holder closes it; no generation is credited.    *)
Withdraw(i) ==
  /\ stage[i] # "closed"
  /\ stage' = [stage EXCEPT ![i] = "closed"]
  /\ UNCHANGED <<generation, closedBy>>

Next ==
  \/ \E S \in SUBSET Item : Take(S)
  \/ \E i \in Item : GiveBack(i) \/ Close(i) \/ Withdraw(i)

Spec == Init /\ [][Next]_vars

=============================================================================
