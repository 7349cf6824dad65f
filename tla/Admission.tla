------------------------------ MODULE Admission ------------------------------
(***************************************************************************)
(* Admission of turns to the runtime of one account,                        *)
(* apps/kittypaw/engine/admission.go.                                       *)
(*                                                                         *)
(* A turn needs a slot of the account and a slot of its scope (its          *)
(* conversation).  It first tries both without waiting, the account first;  *)
(* if that fails it takes a place in the account's queue, waits for the     *)
(* scope and then for the account.  Gates count, they do not know who holds *)
(* them.  The count of those waiting for a scope is shown in a status only  *)
(* and is left out.                                                        *)
(***************************************************************************)
EXTENDS Naturals, FiniteSets

CONSTANTS
  Turn,          \* calls that may be under way at a time
  Inner,         \* turns that run inside another turn of the same runtime
  OuterOf,       \* that other turn
  Scope, ScopeOf,
  MaxAccount,    \* slots of the account, 0: no limit
  MaxQueue,      \* places in its queue
  MaxScope       \* slots of each scope, 0: no limit

ASSUME TurnAssumption ==
  /\ IsFiniteSet(Turn)
  /\ Inner \subseteq Turn
  /\ OuterOf \in [Inner -> Turn \ Inner]
  /\ ScopeOf \in [Turn -> Scope]
ASSUME LimitAssumption == {MaxAccount, MaxQueue, MaxScope} \subseteq Nat

Stage ==
  {"out",
   "trying",         \* has an account slot, about to try the scope
   "undoing",        \* has an account slot, found the scope full
   "reserving",      \* could not start at once, has nothing
   "awaitScope",     \* has a place in the queue
   "awaitAccount",   \* has a scope slot and a place in the queue
   "dequeuing",      \* has both slots and a place in the queue
   "running",        \* has both slots
   "ending",         \* has released its account slot, not its scope slot
   "nested",         \* runs inside another turn, has nothing of its own
   "old"}            \* belongs to a runtime that has been replaced since

HasAccount == {"trying", "undoing", "dequeuing", "running"}
HasScope == {"awaitAccount", "dequeuing", "running", "ending"}
HasPlace == {"awaitScope", "awaitAccount", "dequeuing"}

VARIABLES
  stage,         \* Turn -> Stage
  accountUsed,   \* slots taken in the account's channel
  scopeUsed,     \* Scope -> slots taken in the scope's channel
  queued         \* places taken in the account's queue

admission == <<stage, accountUsed, scopeUsed, queued>>

AdmissionTypeOK ==
  /\ stage \in [Turn -> Stage]
  /\ accountUsed \in Nat
  /\ scopeUsed \in [Scope -> Nat]
  /\ queued \in Nat

AdmissionInit ==
  /\ stage = [t \in Turn |-> "out"]
  /\ accountUsed = 0
  /\ scopeUsed = [s \in Scope |-> 0]
  /\ queued = 0

-----------------------------------------------------------------------------

Advance(t, from, to) ==
  /\ stage[t] = from
  /\ stage' = [stage EXCEPT ![t] = to]

(* A gate without a limit has no channel: nothing is counted.              *)
AccountIsFree == MaxAccount = 0 \/ accountUsed < MaxAccount
TakeAccount == accountUsed' = IF MaxAccount = 0 THEN accountUsed ELSE accountUsed + 1
FreeAccount == accountUsed' = IF MaxAccount = 0 THEN accountUsed ELSE accountUsed - 1

ScopeIsFree(t) == MaxScope = 0 \/ scopeUsed[ScopeOf[t]] < MaxScope
TakeScope(t) ==
  scopeUsed' = IF MaxScope = 0 THEN scopeUsed
                               ELSE [scopeUsed EXCEPT ![ScopeOf[t]] = @ + 1]
FreeScope(t) ==
  scopeUsed' = IF MaxScope = 0 THEN scopeUsed
                               ELSE [scopeUsed EXCEPT ![ScopeOf[t]] = @ - 1]

(* Acquire, from the first attempt ...                                     *)
TryAccount(t) ==
  /\ t \notin Inner
  /\ IF AccountIsFree
       THEN Advance(t, "out", "trying") /\ TakeAccount
       ELSE Advance(t, "out", "reserving") /\ UNCHANGED accountUsed
  /\ UNCHANGED <<scopeUsed, queued>>

TryScope(t) ==
  /\ IF ScopeIsFree(t)
       THEN Advance(t, "trying", "running") /\ TakeScope(t)
       ELSE Advance(t, "trying", "undoing") /\ UNCHANGED scopeUsed
  /\ UNCHANGED <<accountUsed, queued>>

Undo(t) ==
  /\ Advance(t, "undoing", "reserving")
  /\ FreeAccount
  /\ UNCHANGED <<scopeUsed, queued>>

(* ... to the queue.                                                       *)
Reserve(t) ==
  /\ queued < MaxQueue
  /\ Advance(t, "reserving", "awaitScope")
  /\ queued' = queued + 1
  /\ UNCHANGED <<accountUsed, scopeUsed>>

(* ErrRuntimeAdmissionBusy                                                 *)
Refuse(t) ==
  /\ queued >= MaxQueue
  /\ Advance(t, "reserving", "out")
  /\ UNCHANGED <<accountUsed, scopeUsed, queued>>

AwaitScope(t) ==
  /\ ScopeIsFree(t)
  /\ Advance(t, "awaitScope", "awaitAccount")
  /\ TakeScope(t)
  /\ UNCHANGED <<accountUsed, queued>>

AwaitAccount(t) ==
  /\ AccountIsFree
  /\ Advance(t, "awaitAccount", "dequeuing")
  /\ TakeAccount
  /\ UNCHANGED <<scopeUsed, queued>>

(* releaseQueueSlot *)
LeaveQueue == queued' = IF queued > 0 THEN queued - 1 ELSE queued

Dequeue(t) ==
  /\ Advance(t, "dequeuing", "running")
  /\ LeaveQueue
  /\ UNCHANGED <<accountUsed, scopeUsed>>

(* The context of a waiting turn ends.  It frees what it has on its way    *)
(* out, where nothing makes it wait any more.                              *)
GiveUp(t) ==
  /\ \/ Advance(t, "awaitScope", "out") /\ UNCHANGED scopeUsed
     \/ Advance(t, "awaitAccount", "out") /\ FreeScope(t)
  /\ LeaveQueue
  /\ UNCHANGED accountUsed

(* Mutant: a nested turn asks for slots of its own.                        *)
NestedTurnAsks(t) ==
  /\ t \in Inner /\ stage[OuterOf[t]] = "running"
  /\ IF AccountIsFree
       THEN Advance(t, "out", "trying") /\ TakeAccount
       ELSE Advance(t, "out", "reserving") /\ UNCHANGED accountUsed
  /\ UNCHANGED <<scopeUsed, queued>>

(* acquireTurnAdmission finds that the context holds a lease already.      *)
StartNested(t) ==
  /\ t \in Inner /\ stage[OuterOf[t]] = "running"
  /\ Advance(t, "out", "nested")
  /\ UNCHANGED <<accountUsed, scopeUsed, queued>>

EndNested(t) ==
  /\ Advance(t, "nested", "out")
  /\ UNCHANGED <<accountUsed, scopeUsed, queued>>

NestedAreOut(t) == \A i \in Inner : OuterOf[i] = t => stage[i] = "out"

(* The lease of a turn frees the account and then the scope, once, when    *)
(* the turn and those inside it have returned.                             *)
FinishTurn(t) ==
  /\ NestedAreOut(t)
  /\ Advance(t, "running", "ending")
  /\ FreeAccount
  /\ UNCHANGED <<scopeUsed, queued>>

FreeLease(t) ==
  /\ Advance(t, "ending", "out")
  /\ FreeScope(t)
  /\ UNCHANGED <<accountUsed, queued>>

(* A reload of the account's configuration builds a new runtime with gates *)
(* of its own; turns of the old one go on with the old gates, and what     *)
(* they do there no longer concerns the new one.                           *)
ReplaceRuntime ==
  /\ stage' = [t \in Turn |-> IF stage[t] = "out" THEN "out" ELSE "old"]
  /\ accountUsed' = 0
  /\ scopeUsed' = [s \in Scope |-> 0]
  /\ queued' = 0

(* A caller that got hold of the old runtime before asks its gates.        *)
AskOld(t) ==
  /\ t \notin Inner
  /\ Advance(t, "out", "old")
  /\ UNCHANGED <<accountUsed, scopeUsed, queued>>

EndOld(t) ==
  /\ NestedAreOut(t)
  /\ Advance(t, "old", "out")
  /\ UNCHANGED <<accountUsed, scopeUsed, queued>>

(* The daemon dies.                                                        *)
LoseTurns ==
  /\ stage' = [t \in Turn |-> "out"]
  /\ accountUsed' = 0
  /\ scopeUsed' = [s \in Scope |-> 0]
  /\ queued' = 0

-----------------------------------------------------------------------------

(* The steps of a call until it runs, and the steps that end it.           *)
Acquire(t) ==
  \/ TryAccount(t) \/ TryScope(t) \/ Undo(t) \/ Reserve(t)
  \/ AwaitScope(t) \/ AwaitAccount(t) \/ Dequeue(t)

Return(t) == Refuse(t) \/ GiveUp(t) \/ FreeLease(t) \/ EndOld(t)

TurnStep(t) ==
  \/ Acquire(t) \/ FinishTurn(t) \/ Return(t)
  \/ StartNested(t) \/ EndNested(t) \/ AskOld(t)

AdmissionNext ==
  \/ \E t \in Turn : TurnStep(t)
  \/ ReplaceRuntime \/ LoseTurns

AdmissionSpec == AdmissionInit /\ [][AdmissionNext]_admission

-----------------------------------------------------------------------------
(* Properties.                                                             *)

(* The gates count right whatever ends a turn, and in whatever order: no   *)
(* more turns of the runtime run than the account and each conversation    *)
(* may run at a time, and no more wait than the queue holds.               *)
(* (admission_test.go, TestRuntimeAdmissionAccountQueueCapsScopeWaiters)   *)
TurnsWithinLimits ==
  /\ MaxAccount > 0 =>
       Cardinality({t \in Turn : stage[t] = "running"}) <= MaxAccount
  /\ MaxScope > 0 =>
       \A s \in Scope :
         Cardinality({t \in Turn : ScopeOf[t] = s /\ stage[t] = "running"})
           <= MaxScope
  /\ Cardinality({t \in Turn : stage[t] \in HasPlace}) <= MaxQueue

(* Turns never wait for each other in a circle, nor for a slot that nobody *)
(* will free: while the account is full, some holder of its slots has no   *)
(* turn inside it that waits; and while a turn waits for a full scope, so  *)
(* does some holder of the scope's slots, which at most waits for the      *)
(* account itself.                                                         *)
GoesOn(t) == \A i \in Inner : OuterOf[i] = t => stage[i] \in {"out", "nested"}

WaitsEnd ==
  /\ ~AccountIsFree => \E t \in Turn : stage[t] \in HasAccount /\ GoesOn(t)
  /\ \A t \in Turn :
       stage[t] = "awaitScope" /\ ~ScopeIsFree(t) =>
         \E u \in Turn :
           ScopeOf[u] = ScopeOf[t] /\ stage[u] \in HasScope /\ GoesOn(u)

=============================================================================
