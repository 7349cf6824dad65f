--------------------------- MODULE DelegationJobs ---------------------------
(***************************************************************************)
(* Background delegation: the delegation_jobs table of one account         *)
(* (store/delegation_jobs.go) and the DelegationJobRuntime instances that   *)
(* claim its rows, run them and write the outcome back                     *)
(* (engine/delegation_job_runtime.go).                                     *)
(*                                                                         *)
(* Every SQL statement or transaction is one step.  Between two of them    *)
(* any other goroutine, instance or API call may run, a lease may run out, *)
(* an instance may be replaced by a configuration reload, and the daemon   *)
(* may crash and start again.                                              *)
(*                                                                         *)
(* Time is kept only as far as the queries see it: a lease is fresh until  *)
(* a LeaseExpires step, which may come at any moment.  The claim token, a  *)
(* random id drawn by every claim, is represented by the attempt number of *)
(* that claim, equally fresh for its job.                                  *)
(***************************************************************************)
EXTENDS Naturals, FiniteSets

CONSTANTS
  Job,          \* ids of the jobs of the account
  Runtime,      \* slots for DelegationJobRuntime instances of the account
  Nobody,       \* no instance
  BatchSize,    \* DelegationJobRuntimeOptions.BatchSize, at most 10
  MaxAttempt,   \* bound: claims of one job
  MaxMishap     \* bound: mishaps (see Mishap) in one behaviour

ASSUME JobAssumption == IsFiniteSet(Job)
ASSUME NobodyAssumption == Nobody \notin Runtime
ASSUME BatchAssumption == BatchSize \in Nat \ {0}
ASSUME BoundAssumption == MaxAttempt \in Nat /\ MaxMishap \in Nat

Attempt == 1 .. MaxAttempt
Claim == Job \X Attempt

Terminal == {"succeeded", "failed", "canceled"}
Status == {"absent", "queued", "running"} \cup Terminal

(* What a claimed job's goroutine does next.                               *)
Phase == {"none", "spawned", "executing", "returned", "panicked",
          "finishing", "failing", "releasing", "exiting", "gone"}

(* The goroutine still acts for its claim.                                 *)
Active == {"spawned", "executing", "returned", "panicked",
           "finishing", "failing", "releasing"}

(* The lease heartbeat of the claim is ticking.  It is stopped before the  *)
(* recover handler of a panicking worker runs.                             *)
Beating == {"executing", "returned", "finishing", "releasing"}

VARIABLES
  status,      \* Job -> the status column, "absent" before the row exists
  attempt,     \* Job -> the attempt column
  token,       \* Job -> the claim_token column, 0 for ''
  lease,       \* Job -> lease_expires_at: "none", "fresh" or "expired"
  mode,        \* Runtime -> life cycle of the instance in that slot
  room,        \* Runtime -> capacity the poll loop has read, 0 when idle
  registered,  \* Runtime -> the running map: Job -> the attempt whose cancel
               \*   function is stored for the job, 0 if there is none
  phase,       \* Claim -> Phase of its goroutine
  host,        \* Claim -> the instance its goroutine runs in, Nobody if none
  signaled,    \* goroutines whose run context CancelJob has cancelled
  canceling,   \* Job -> instance whose CancelJob has updated the row and not
               \*   yet looked into the running map, Nobody if there is none
  mishaps,     \* mishaps so far
  settledBy,   \* history, Job -> the claim that wrote the final result
  overrun,     \* history, jobs whose lease expired while a worker held it
  orphaned     \* history, jobs a crash or a failed write left running with
               \*   no worker

table == <<status, attempt, token, lease, settledBy>>
instances == <<mode, room, registered>>
workers == <<phase, host, signaled>>
history == <<mishaps, overrun, orphaned>>
vars == <<table, instances, workers, canceling, history>>

-----------------------------------------------------------------------------

TypeOK ==
  /\ status \in [Job -> Status]
  /\ attempt \in [Job -> 0 .. MaxAttempt]
  /\ token \in [Job -> 0 .. MaxAttempt]
  /\ lease \in [Job -> {"none", "fresh", "expired"}]
  /\ mode \in [Runtime -> {"down", "up", "replaced", "closing", "draining"}]
  /\ room \in [Runtime -> 0 .. BatchSize]
  /\ registered \in [Runtime -> [Job -> 0 .. MaxAttempt]]
  /\ phase \in [Claim -> Phase]
  /\ host \in [Claim -> Runtime \cup {Nobody}]
  /\ signaled \in SUBSET Claim
  /\ canceling \in [Job -> Runtime \cup {Nobody}]
  /\ mishaps \in 0 .. MaxMishap
  /\ settledBy \in [Job -> 0 .. MaxAttempt]
  /\ overrun \in SUBSET Job
  /\ orphaned \in SUBSET Job

Init ==
  /\ status = [j \in Job |-> "absent"]
  /\ attempt = [j \in Job |-> 0]
  /\ token = [j \in Job |-> 0]
  /\ lease = [j \in Job |-> "none"]
  /\ mode = [r \in Runtime |-> "down"]
  /\ room = [r \in Runtime |-> 0]
  /\ registered = [r \in Runtime |-> [j \in Job |-> 0]]
  /\ phase = [c \in Claim |-> "none"]
  /\ host = [c \in Claim |-> Nobody]
  /\ signaled = {}
  /\ canceling = [j \in Job |-> Nobody]
  /\ mishaps = 0
  /\ settledBy = [j \in Job |-> 0]
  /\ overrun = {}
  /\ orphaned = {}

-----------------------------------------------------------------------------
(* Mutant: the guard compares the status only.                             *)
HoldsByStatusOnly(c) == status[c[1]] = "running"

(* The claim of a worker still stands: the guard of every update a worker  *)
(* makes, "WHERE id = ? AND claim_token = ? AND status = 'running'".       *)
Holds(c) == status[c[1]] = "running" /\ token[c[1]] = c[2]

(* Mutant: running jobs are claimed without a look at their lease.         *)
ClaimableWithoutLease(j) == status[j] \in {"queued", "running"}

(* Mutant: failed jobs are retried.                                        *)
ClaimableAfterFailure(j) ==
  \/ status[j] \in {"queued", "failed"}
  \/ status[j] = "running" /\ lease[j] # "fresh"

(* Mutant: only queued jobs are claimed, expired leases are never noticed. *)
ClaimableQueuedOnly(j) == status[j] = "queued"

(* The guard of the claim query.                                           *)
Claimable(j) ==
  \/ status[j] = "queued"
  \/ status[j] = "running" /\ lease[j] # "fresh"

(* The parent context of the instance's workers is cancelled.              *)
Stopping(r) == mode[r] \in {"closing", "draining"}

Alive(j) == \E a \in Attempt : phase[<<j, a>>] \in Active /\ Holds(<<j, a>>)

(* Crashes, lost leases, failed statements and shutdowns are mishaps.  A   *)
(* behaviour has at most MaxMishap of them.                                *)
Mishap == mishaps < MaxMishap /\ mishaps' = mishaps + 1

-----------------------------------------------------------------------------
(* Life cycle of the instances.                                            *)

(* The daemon starts, or restarts, with one instance for the account.      *)
Start(r) ==
  /\ \A s \in Runtime : mode[s] = "down"
  /\ mode' = [mode EXCEPT ![r] = "up"]
  /\ UNCHANGED <<table, room, registered, workers, canceling, history>>

(* Replace registers and starts a new instance; "go old.Close()" has only  *)
(* been scheduled, so the old one keeps polling.                           *)
Replace(r, s) ==
  /\ Mishap
  /\ mode[r] = "up" /\ mode[s] = "down"
  /\ mode' = [mode EXCEPT ![r] = "replaced", ![s] = "up"]
  /\ UNCHANGED <<table, room, registered, workers, canceling, overrun, orphaned>>

(* Close cancels the loop and every worker.  The workers see it through    *)
(* their parent context, whether or not they are in the running map yet.   *)
CloseRuntime(r) ==
  /\ mode[r] = "replaced"
  /\ mode' = [mode EXCEPT ![r] = "closing"]
  /\ UNCHANGED <<table, room, registered, workers, canceling, history>>

(* The same on shutdown (StopAll).                                         *)
StopRuntime(r) ==
  /\ Mishap
  /\ mode[r] = "up"
  /\ mode' = [mode EXCEPT ![r] = "closing"]
  /\ UNCHANGED <<table, room, registered, workers, canceling, overrun, orphaned>>

(* The poll loop sees its context done and returns.                        *)
LoopExits(r) ==
  /\ mode[r] = "closing" /\ room[r] = 0
  /\ mode' = [mode EXCEPT ![r] = "draining"]
  /\ UNCHANGED <<table, room, registered, workers, canceling, history>>

(* wg.Wait returns: no worker of the instance is left.                     *)
CloseReturns(r) ==
  /\ mode[r] = "draining"
  /\ \A c \in Claim : host[c] # r
  /\ \A j \in Job : canceling[j] # r
  /\ mode' = [mode EXCEPT ![r] = "down"]
  /\ UNCHANGED <<table, room, registered, workers, canceling, history>>

(* The process dies: goroutines and maps are lost, the table is not.       *)
Crash ==
  /\ Mishap
  /\ mode' = [r \in Runtime |-> "down"]
  /\ room' = [r \in Runtime |-> 0]
  /\ registered' = [r \in Runtime |-> [j \in Job |-> 0]]
  /\ phase' = [c \in Claim |-> IF phase[c] = "none" THEN "none" ELSE "gone"]
  /\ host' = [c \in Claim |-> Nobody]
  /\ signaled' = {}
  /\ canceling' = [j \in Job |-> Nobody]
  /\ orphaned' = orphaned \cup {j \in Job : status[j] = "running"}
  /\ UNCHANGED <<table, overrun>>

-----------------------------------------------------------------------------
(* Jobs are created, claimed and given workers.                            *)

Enqueue(j) ==
  /\ status[j] = "absent"
  /\ status' = [status EXCEPT ![j] = "queued"]
  /\ UNCHANGED <<attempt, token, lease, settledBy, instances, workers,
                 canceling, history>>

(* The poll loop reads its capacity under the mutex and lets go of it.     *)
(* Once the context is done it polls again only if its select picks the    *)
(* ticker over the cancelled context.                                      *)
ReadCapacity(r) ==
  /\ room[r] = 0
  /\ \/ mode[r] \in {"up", "replaced"} /\ UNCHANGED mishaps
     \/ mode[r] = "closing" /\ Mishap
  /\ LET used == Cardinality({j \in Job : registered[r][j] # 0})
     IN  /\ used < BatchSize
         /\ room' = [room EXCEPT ![r] = BatchSize - used]
  /\ UNCHANGED <<table, mode, registered, workers, canceling, overrun, orphaned>>

(* ClaimDelegationJobs: one transaction claims up to the capacity read     *)
(* before; the loop then starts a goroutine for every job it got.          *)
ClaimBatch(r, S) ==
  /\ room[r] > 0
  /\ \A j \in S : Claimable(j) /\ attempt[j] < MaxAttempt
  /\ Cardinality(S) <= room[r]
  /\ Cardinality(S) = room[r] \/ \A j \in Job \ S : ~ Claimable(j)
  /\ status' = [j \in Job |-> IF j \in S THEN "running" ELSE status[j]]
  /\ attempt' = [j \in Job |-> IF j \in S THEN attempt[j] + 1 ELSE attempt[j]]
  /\ token' = [j \in Job |-> IF j \in S THEN attempt[j] + 1 ELSE token[j]]
  /\ lease' = [j \in Job |-> IF j \in S THEN "fresh" ELSE lease[j]]
  /\ phase' = [c \in Claim |->
       IF c[1] \in S /\ c[2] = attempt[c[1]] + 1 THEN "spawned" ELSE phase[c]]
  /\ host' = [c \in Claim |->
       IF c[1] \in S /\ c[2] = attempt[c[1]] + 1 THEN r ELSE host[c]]
  /\ room' = [room EXCEPT ![r] = 0]
  /\ orphaned' = orphaned \ S
  /\ UNCHANGED <<settledBy, mode, registered, signaled, canceling, mishaps, overrun>>

(* The transaction fails; the loop waits for the next tick.                *)
ClaimFails(r) ==
  /\ Mishap
  /\ room[r] > 0
  /\ room' = [room EXCEPT ![r] = 0]
  /\ UNCHANGED <<table, mode, registered, workers, canceling, overrun, orphaned>>

(* The goroutine stores its cancel function under the job's id, over the   *)
(* one an earlier claim of this instance may have left there.              *)
BeginRun(j, a) ==
  LET c == <<j, a>> IN
  /\ phase[c] = "spawned"
  /\ phase' = [phase EXCEPT ![c] = "executing"]
  /\ registered' = [registered EXCEPT ![host[c]][j] = a]
  /\ UNCHANGED <<table, mode, room, host, signaled, canceling, history>>

-----------------------------------------------------------------------------
(* A worker.                                                               *)

(* executeDelegateTask returns or panics.                                  *)
Execute(j, a) ==
  LET c == <<j, a>> IN
  /\ phase[c] = "executing"
  /\ \E next \in {"returned", "panicked"} : phase' = [phase EXCEPT ![c] = next]
  /\ UNCHANGED <<table, instances, host, signaled, canceling, history>>

(* Mutant: a worker that panicked gives its job back instead of failing it. *)
RecheckRetriesPanic(j, a) ==
  LET c == <<j, a>> IN
  /\ phase[c] \in {"returned", "panicked"}
  /\ phase' = [phase EXCEPT ![c] =
       CASE status[j] = "canceled" -> "exiting"
         [] status[j] # "canceled" /\ (Stopping(host[c]) \/ phase[c] = "panicked")
              -> "releasing"
         [] OTHER -> "finishing"]
  /\ UNCHANGED <<table, instances, host, signaled, canceling, mishaps, overrun, orphaned>>

(* The worker reads the row again and, unless it panicked, its context.  A *)
(* failed read counts as "not canceled".                                   *)
Recheck(j, a) ==
  LET c == <<j, a>> IN
  /\ phase[c] \in {"returned", "panicked"}
  /\ \E canceled \in BOOLEAN :
       /\ \/ canceled = (status[j] = "canceled") /\ UNCHANGED mishaps
          \/ status[j] = "canceled" /\ ~canceled /\ Mishap
       /\ phase' = [phase EXCEPT ![c] =
            CASE canceled -> "exiting"
              [] ~canceled /\ phase[c] = "panicked" -> "failing"
              [] ~canceled /\ phase[c] = "returned" /\ Stopping(host[c]) -> "releasing"
              [] OTHER -> "finishing"]
  /\ UNCHANGED <<table, instances, host, signaled, canceling, overrun, orphaned>>

(* FinishDelegationJob: the result is written only while the claim stands. *)
Finish(j, a, outcome) ==
  LET c == <<j, a>> IN
  /\ phase[c] = "finishing" \/ (phase[c] = "failing" /\ outcome = "failed")
  /\ phase' = [phase EXCEPT ![c] = "exiting"]
  /\ IF Holds(c)
     THEN /\ status' = [status EXCEPT ![j] = outcome]
          /\ lease' = [lease EXCEPT ![j] = "none"]
          /\ settledBy' = [settledBy EXCEPT ![j] = a]
     ELSE UNCHANGED <<status, lease, settledBy>>
  /\ UNCHANGED <<attempt, token, instances, host, signaled, canceling, history>>

(* ReleaseDelegationJobClaim, under the same guard.                        *)
Release(j, a) ==
  LET c == <<j, a>> IN
  /\ phase[c] = "releasing"
  /\ phase' = [phase EXCEPT ![c] = "exiting"]
  /\ IF Holds(c)
     THEN /\ status' = [status EXCEPT ![j] = "queued"]
          /\ token' = [token EXCEPT ![j] = 0]
          /\ lease' = [lease EXCEPT ![j] = "none"]
     ELSE UNCHANGED <<status, token, lease>>
  /\ UNCHANGED <<attempt, settledBy, instances, host, signaled, canceling, history>>

(* The last write of the worker fails: it is logged or ignored, never      *)
(* retried.                                                                *)
WriteFails(j, a) ==
  LET c == <<j, a>> IN
  /\ Mishap
  /\ phase[c] \in {"finishing", "failing", "releasing"}
  /\ phase' = [phase EXCEPT ![c] = "exiting"]
  /\ orphaned' = IF Holds(c) THEN orphaned \cup {j} ELSE orphaned
  /\ UNCHANGED <<table, instances, host, signaled, canceling, overrun>>

(* The deferred clean-up deletes whatever the running map holds for the    *)
(* job, its own entry or that of a later claim.                            *)
Deregister(j, a) ==
  LET c == <<j, a>> IN
  /\ phase[c] = "exiting"
  /\ phase' = [phase EXCEPT ![c] = "gone"]
  /\ registered' = [registered EXCEPT ![host[c]][j] = 0]
  /\ host' = [host EXCEPT ![c] = Nobody]
  /\ signaled' = signaled \ {c}
  /\ UNCHANGED <<table, mode, room, canceling, history>>

-----------------------------------------------------------------------------
(* Leases.                                                                 *)

(* ExtendDelegationJobLease: the heartbeat renews the lease while the      *)
(* claim stands, be the lease fresh or expired.                            *)
Heartbeat(j, a) ==
  /\ phase[<<j, a>>] \in Beating
  /\ Holds(<<j, a>>) /\ lease[j] = "expired"
  /\ lease' = [lease EXCEPT ![j] = "fresh"]
  /\ UNCHANGED <<status, attempt, token, settledBy, instances, workers,
                 canceling, history>>

(* The lease of a claim without a worker runs out.                         *)
LeaseExpires(j) ==
  /\ status[j] = "running" /\ lease[j] = "fresh"
  /\ ~ Alive(j)
  /\ lease' = [lease EXCEPT ![j] = "expired"]
  /\ UNCHANGED <<status, attempt, token, settledBy, instances, workers,
                 canceling, history>>

(* The lease runs out under a live worker: heartbeats failed, or the       *)
(* machine slept.                                                          *)
LeaseLost(j) ==
  /\ Mishap
  /\ status[j] = "running" /\ lease[j] = "fresh"
  /\ Alive(j)
  /\ lease' = [lease EXCEPT ![j] = "expired"]
  /\ overrun' = overrun \cup {j}
  /\ UNCHANGED <<status, attempt, token, settledBy, instances, workers,
                 canceling, orphaned>>

-----------------------------------------------------------------------------
(* CancelJob: the row first, the worker's context second.                  *)

(* Mutant: only a queued row is updated; a running one is left to the      *)
(* worker that is about to be signaled.                                    *)
CancelRowQueuedOnly(r, j) ==
  /\ mode[r] \in {"up", "replaced"}
  /\ canceling[j] = Nobody
  /\ status[j] # "absent"
  /\ canceling' = [canceling EXCEPT ![j] = r]
  /\ IF status[j] = "queued"
     THEN status' = [status EXCEPT ![j] = "canceled"]
     ELSE UNCHANGED status
  /\ UNCHANGED <<attempt, token, lease, settledBy, instances, workers, history>>

CancelRow(r, j) ==
  /\ mode[r] \in {"up", "replaced"}
  /\ canceling[j] = Nobody
  /\ status[j] # "absent"
  /\ canceling' = [canceling EXCEPT ![j] = r]
  /\ IF status[j] \in {"queued", "running"}
     THEN /\ status' = [status EXCEPT ![j] = "canceled"]
          /\ lease' = [lease EXCEPT ![j] = "none"]
     ELSE UNCHANGED <<status, lease>>
  /\ UNCHANGED <<attempt, token, settledBy, instances, workers, history>>

CancelWorker(j) ==
  LET r == canceling[j] IN
  /\ r # Nobody
  /\ canceling' = [canceling EXCEPT ![j] = Nobody]
  /\ signaled' = IF registered[r][j] # 0
                 THEN signaled \cup {<<j, registered[r][j]>>}
                 ELSE signaled
  /\ UNCHANGED <<table, instances, phase, host, history>>

-----------------------------------------------------------------------------

Worker(j, a) ==
  \/ BeginRun(j, a)
  \/ Execute(j, a)
  \/ Recheck(j, a)
  \/ \E outcome \in {"succeeded", "failed"} : Finish(j, a, outcome)
  \/ Release(j, a)
  \/ WriteFails(j, a)
  \/ Deregister(j, a)
  \/ Heartbeat(j, a)

Lifecycle(r) ==
  \/ Start(r)
  \/ \E s \in Runtime : Replace(r, s)
  \/ CloseRuntime(r)
  \/ StopRuntime(r)
  \/ LoopExits(r)
  \/ CloseReturns(r)

Next ==
  \/ \E r \in Runtime :
       \/ Lifecycle(r)
       \/ ReadCapacity(r)
       \/ \E S \in SUBSET Job : ClaimBatch(r, S)
       \/ ClaimFails(r)
       \/ \E j \in Job : CancelRow(r, j)
  \/ \E j \in Job :
       \/ Enqueue(j)
       \/ LeaseExpires(j)
       \/ LeaseLost(j)
       \/ CancelWorker(j)
       \/ \E a \in Attempt : Worker(j, a)
  \/ Crash

Spec == Init /\ [][Next]_vars

(* The daemon is restarted, its loops poll, its goroutines get scheduled,  *)
(* delegate runs end (every model call has a timeout), and time passes, so *)
(* that the lease of a dead worker expires.  Go's select picks the done    *)
(* context eventually, hence SF for the end of the loop.                   *)
Fairness ==
  /\ WF_vars(\E r \in Runtime : Start(r))
  /\ \A r \in Runtime :
       /\ WF_vars(CloseRuntime(r))
       /\ SF_vars(LoopExits(r))
       /\ WF_vars(CloseReturns(r))
       /\ WF_vars(ReadCapacity(r) /\ ~Stopping(r))
       /\ WF_vars(\E S \in SUBSET Job : ClaimBatch(r, S))
  /\ \A j \in Job :
       /\ WF_vars(LeaseExpires(j))
       /\ WF_vars(CancelWorker(j))
       /\ \A a \in Attempt :
            /\ WF_vars(BeginRun(j, a))
            /\ WF_vars(Execute(j, a))
            /\ WF_vars(Recheck(j, a))
            /\ WF_vars(\E o \in {"succeeded", "failed"} : Finish(j, a, o))
            /\ WF_vars(Release(j, a))
            /\ WF_vars(Deregister(j, a))

FairSpec == Spec /\ Fairness

-----------------------------------------------------------------------------
(* Properties.                                                             *)

(* A result in the table was written by the newest claim of the job: a     *)
(* worker that lost its lease and was superseded cannot settle the job     *)
(* with its own, late result.                                              *)
SettledByLatestClaim ==
  \A j \in Job :
    status[j] \in {"succeeded", "failed"} =>
      settledBy[j] = attempt[j] /\ settledBy[j] # 0

(* As long as no lease of the job ran out under its worker, at most one    *)
(* worker acts for the job, across instances, reloads, releases and        *)
(* restarts.                                                               *)
OneWorkerUnlessLeaseLost ==
  \A j \in Job \ overrun :
    \A a, b \in Attempt :
      phase[<<j, a>>] \in Active /\ phase[<<j, b>>] \in Active => a = b

(* A job the table calls running has a worker that can still settle it,    *)
(* unless a crash or a failed write took the worker away.  Orderly         *)
(* shutdown, reload and panics leave no orphan behind.                     *)
RunningJobHasWorker ==
  \A j \in Job \ orphaned : status[j] = "running" => Alive(j)

(* CancelJob only ever stops a worker whose job no longer needs it: the    *)
(* signal is sent after the row became final, and it hits no worker of a   *)
(* job that is still to be done.                                           *)
SignalOnlyAfterSettled ==
  \A c \in signaled : status[c[1]] \in Terminal

(* Work is repeated only for a reason: without crash, lost lease, failed   *)
(* statement or shutdown a job is claimed once.  Each mishap costs a job   *)
(* at most two more claims (a closing instance can claim once more).       *)
RetriesAreExplained ==
  \A j \in Job : attempt[j] <= 1 + 2 * mishaps

(* A settled job stays as it is: no late result, release, heartbeat,       *)
(* cancellation or claim reopens or rewrites it.                           *)
TerminalIsFinal ==
  [][\A j \in Job : status[j] \in Terminal =>
       /\ status'[j] = status[j]
       /\ settledBy'[j] = settledBy[j]
       /\ lease'[j] = "none"]_vars

(* Every job that was queued is settled in the end, whatever crashes,      *)
(* reloads and lost leases come in between, as long as these end.          *)
EveryJobSettles ==
  \A j \in Job : status[j] = "queued" ~> status[j] \in Terminal

-----------------------------------------------------------------------------
(* The table implements a leased work queue.                               *)

Stage(s) ==
  CASE s \in {"absent", "queued"} -> "open"
    [] s = "running" -> "held"
    [] OTHER -> "closed"

Queue == INSTANCE LeasedWork
  WITH Item <- Job,
       stage <- [j \in Job |-> Stage(status[j])],
       generation <- attempt,
       closedBy <- settledBy

(* The promise of the queue: one holder at a time, only the current holder *)
(* closes an item, closed is closed.                                       *)
ImplementsLeasedWork == Queue!Spec

=============================================================================
