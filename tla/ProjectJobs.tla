------------------------------ MODULE ProjectJobs ------------------------------
(***************************************************************************)
(* Project jobs: an approved job of a ticket runs a coding agent in a git   *)
(* worktree of its own.  The rows are in apps/kittypaw/store/projects.go,   *)
(* the processes in apps/kittypaw/engine/project_job_runtime.go.            *)
(*                                                                         *)
(* API handlers and the Projects tool call the runtime from any goroutine.  *)
(* Each statement or transaction on the rows, each critical section of the  *)
(* runtime's mutex and each start or end of a process is one step.  The     *)
(* worktree directory and its branch are made and removed together, and a   *)
(* second start of a job fails on them, so that one start per job is under  *)
(* way at a time.  Approvals and cancellations of a job may overlap freely. *)
(*                                                                         *)
(* An account is removed in two steps, Close and CloseStore, and nothing    *)
(* waits for the starts and goroutines under way: they go on beside the     *)
(* runtime of an account added again, on a store that fails every call of   *)
(* theirs (`former`).  A daemon that dies does not take its children along  *)
(* ("orphan").                                                             *)
(***************************************************************************)
EXTENDS Naturals, FiniteSets

CONSTANTS
  Job,
  Ticket,
  TicketOf,     \* the ticket a job belongs to
  MaxApprovals  \* bound: approvals of a ticket's jobs under way at a time

ASSUME TicketAssumption == TicketOf \in [Job -> Ticket]
ASSUME ApprovalAssumption == MaxApprovals \in Nat

Terminal == {"succeeded", "failed", "canceled"}
JobStatus == {"planned", "approved", "running"} \cup Terminal
(* "other" is draft, ready, done and archived, where no job puts a ticket. *)
TicketStatus == {"backlog", "in_progress", "review", "blocked", "other"}

(* What the goroutine that starts and then watches the process of a job    *)
(* does next.                                                              *)
Phase == {"idle",
          "prepared",    \* worktree made, row not yet updated
          "claimed",     \* row running, process not yet registered
          "launching",   \* registered, process not yet started
          "alive",       \* process runs
          "exited",      \* process ended, row not yet looked at
          "recording",   \* row was not canceled when it looked
          "leaving",     \* nothing left to do but to deregister
          "orphan"}      \* process runs, the daemon that watched it is dead

VARIABLES
  status,        \* Job -> JobStatus, "absent" before it is planned
  ticket,        \* Ticket -> TicketStatus
  worktrees,     \* jobs whose worktree and branch exist
  mode,          \* of the account's runtime
  phase,         \* Job -> Phase
  exitZero,      \* jobs whose process ended with exit code 0
  registered,    \* jobs in the runtime's map `running`
  killed,        \* jobs whose context was canceled
  former,        \* jobs a runtime still works for whose store was closed
  approving,     \* Job -> calls of ApproveJob that have read it as planned,
                 \*   and not updated it yet
  found,         \* jobs a CancelJob found registered, and not updated yet
  missed,        \* jobs a CancelJob did not find registered, the same
  launches,      \* history, Job -> processes started for it
  lost,          \* history, jobs whose row missed the end of their process,
                 \*   because a statement failed
  slipped        \* history, jobs whose process no runtime looks after: see
                 \*   ProcessesAreExplained

rows == <<status, ticket>>
runtime == <<phase, exitZero, registered, killed, former>>
calls == <<approving, found, missed>>
history == <<launches, lost, slipped>>
vars == <<rows, worktrees, mode, runtime, calls, history>>

TypeOK ==
  /\ status \in [Job -> JobStatus \cup {"absent"}]
  /\ ticket \in [Ticket -> TicketStatus]
  /\ mode \in {"up", "closing", "down"}
  /\ phase \in [Job -> Phase]
  /\ approving \in [Job -> 0 .. MaxApprovals]
  /\ launches \in [Job -> Nat]
  /\ {worktrees, exitZero, registered, killed, former, found, missed,
      lost, slipped} \subseteq SUBSET Job

Init ==
  /\ status = [j \in Job |-> "absent"]
  /\ ticket = [t \in Ticket |-> "backlog"]
  /\ worktrees = {}
  /\ mode = "up"
  /\ phase = [j \in Job |-> "idle"]
  /\ exitZero = {} /\ registered = {} /\ killed = {} /\ former = {}
  /\ approving = [j \in Job |-> 0]
  /\ found = {} /\ missed = {}
  /\ launches = [j \in Job |-> 0]
  /\ lost = {} /\ slipped = {}

-----------------------------------------------------------------------------

Go(j, p) == phase' = [phase EXCEPT ![j] = p]

Siblings(j) == {k \in Job : TicketOf[k] = TicketOf[j]} \ {j}

(* A statement of the runtime that works for the job reaches its store.    *)
Served(j) == mode # "down" /\ j \notin former

(* moveTicketStatusTx, in the transaction that moves the job.              *)
Settle(j, s, t) ==
  /\ status' = [status EXCEPT ![j] = s]
  /\ ticket' = [ticket EXCEPT ![TicketOf[j]] = t]

(* MoveTicket, ArchiveTicket: from any status to any, whatever the jobs of *)
(* the ticket do.                                                          *)
MoveTicket(t, s) ==
  /\ mode # "down" /\ ticket[t] # s
  /\ ticket' = [ticket EXCEPT ![t] = s]
  /\ UNCHANGED <<status, worktrees, mode, runtime, calls, history>>

PlanJob(j) ==
  /\ mode # "down" /\ status[j] = "absent"
  /\ status' = [status EXCEPT ![j] = "planned"]
  /\ UNCHANGED <<ticket, worktrees, mode, runtime, calls, history>>

(* ApproveJob reads the row ...                                            *)
BeginApprove(j) ==
  /\ mode # "down" /\ status[j] = "planned"
  /\ approving[j] < MaxApprovals
  /\ \A k \in Siblings(j) : approving[j] + approving[k] < MaxApprovals
  /\ approving' = [approving EXCEPT ![j] = @ + 1]
  /\ UNCHANGED <<rows, worktrees, mode, runtime, found, missed, history>>

(* ... and updates it in another statement, whatever it is by then.        *)
ApproveJob(j) ==
  /\ mode # "down" /\ approving[j] > 0
  /\ approving' = [approving EXCEPT ![j] = @ - 1]
  /\ status' = [status EXCEPT ![j] = "approved"]
  /\ slipped' = IF status[j] = "planned" THEN slipped ELSE slipped \cup {j}
  /\ UNCHANGED <<ticket, worktrees, mode, runtime, found, missed,
                 launches, lost>>

-----------------------------------------------------------------------------
(* StartJob of the runtime.                                                *)

(* Mutant: the worktree of an earlier start is used again.                 *)
PrepareAgain(j) ==
  /\ mode # "down" /\ status[j] = "approved"
  /\ phase[j] = "idle"
  /\ worktrees' = worktrees \cup {j}
  /\ Go(j, "prepared")
  /\ UNCHANGED <<rows, mode, exitZero, registered, killed, former, calls,
                 history>>

(* prepareApprovedJob.  Directory and branch of an earlier start refuse a  *)
(* new one.                                                                *)
Prepare(j) ==
  /\ mode # "down" /\ status[j] = "approved"
  /\ phase[j] = "idle" /\ j \notin worktrees
  /\ worktrees' = worktrees \cup {j}
  /\ Go(j, "prepared")
  /\ UNCHANGED <<rows, mode, exitZero, registered, killed, former, calls,
                 history>>

Startable(j) ==
  status[j] = "approved" /\ \A k \in Siblings(j) : status[k] # "running"

(* StartJob of the store, one transaction.                                 *)
StartRow(j) ==
  /\ Served(j) /\ phase[j] = "prepared" /\ Startable(j)
  /\ Settle(j, "running", "in_progress")
  /\ Go(j, "claimed")
  /\ UNCHANGED <<worktrees, mode, exitZero, registered, killed, former, calls,
                 history>>

(* cleanupPreparedJobWorktree ignores the errors of git.                   *)
CleanUp(j) == worktrees' \in {worktrees, worktrees \ {j}}

(* The transaction refuses the job or fails, as it does on a closed store. *)
StartRefused(j) ==
  /\ phase[j] = "prepared"
  /\ CleanUp(j)
  /\ Go(j, "idle")
  /\ former' = former \ {j}
  /\ UNCHANGED <<rows, mode, exitZero, registered, killed, calls, history>>

(* It commits, but the row cannot be read back: the caller takes the job   *)
(* for not started.                                                        *)
StartUnread(j) ==
  /\ Served(j) /\ phase[j] = "prepared" /\ Startable(j)
  /\ Settle(j, "running", "in_progress")
  /\ CleanUp(j)
  /\ Go(j, "idle")
  /\ lost' = lost \cup {j}
  /\ UNCHANGED <<mode, exitZero, registered, killed, former, calls,
                 launches, slipped>>

(* Nothing asks whether the runtime was closed meanwhile.                  *)
Register(j) ==
  /\ phase[j] = "claimed"
  /\ registered' = registered \cup {j}
  /\ Go(j, "launching")
  /\ slipped' = IF mode = "up" /\ j \notin former THEN slipped
                                                 ELSE slipped \cup {j}
  /\ UNCHANGED <<rows, worktrees, mode, exitZero, killed, former, calls,
                 launches, lost>>

(* The command or the PTY session starts, unless its context is canceled.  *)
Launch(j) ==
  /\ phase[j] = "launching" /\ j \notin killed
  /\ Go(j, "alive")
  /\ launches' = [launches EXCEPT ![j] = @ + 1]
  /\ UNCHANGED <<rows, worktrees, mode, exitZero, registered, killed, former,
                 calls, lost, slipped>>

(* It cannot be built or started.  A failed start is recorded at once, a   *)
(* command that ends by failing to start like any other.                   *)
LaunchFails(j) ==
  /\ phase[j] = "launching"
  /\ phase' \in {[phase EXCEPT ![j] = p] : p \in {"exited", "recording"}}
  /\ UNCHANGED <<rows, worktrees, mode, exitZero, registered, killed, former,
                 calls, history>>

-----------------------------------------------------------------------------
(* runPreparedJob, waitPreparedPTYJob.                                     *)

(* The process ends, by itself or because it was killed.                   *)
ProcessEnds(j) ==
  /\ phase[j] = "alive"
  /\ Go(j, "exited")
  /\ exitZero' \in {exitZero, exitZero \cup {j}}
  /\ UNCHANGED <<rows, worktrees, mode, registered, killed, former, calls,
                 history>>

(* GetJob: the row of a canceled job is left alone, unless it cannot be    *)
(* read.                                                                   *)
LookAtRow(j) ==
  /\ phase[j] = "exited"
  /\ \/ Served(j) /\ status[j] = "canceled" /\ Go(j, "leaving")
     \/ Go(j, "recording")
  /\ UNCHANGED <<rows, worktrees, mode, exitZero, registered, killed, former,
                 calls, history>>

(* finishJob, which acts on running jobs only.                             *)
Finish(j) ==
  IF status[j] # "running" THEN UNCHANGED rows
  ELSE IF j \in exitZero THEN Settle(j, "succeeded", "review")
                         ELSE Settle(j, "failed", "blocked")

(* SucceedJob, FailJob                                                     *)
Record(j) ==
  /\ Served(j) /\ phase[j] = "recording"
  /\ Finish(j)
  /\ Go(j, "leaving")
  /\ UNCHANGED <<worktrees, mode, exitZero, registered, killed, former, calls,
                 history>>

(* Their error is ignored.  What became of a former runtime's row is up to *)
(* the restart.                                                            *)
RecordFails(j) ==
  /\ phase[j] = "recording"
  /\ Go(j, "leaving")
  /\ lost' = lost \cup ({j} \ former)
  /\ UNCHANGED <<rows, worktrees, mode, exitZero, registered, killed, former,
                 calls, launches, slipped>>

Deregister(j) ==
  /\ phase[j] = "leaving"
  /\ Go(j, "idle")
  /\ registered' = registered \ {j}
  /\ killed' = killed \ {j}
  /\ exitZero' = exitZero \ {j}
  /\ former' = former \ {j}
  /\ UNCHANGED <<rows, worktrees, mode, calls, history>>

-----------------------------------------------------------------------------
(* The runtime of the account has the job in its map.                      *)
InMap(j) == j \in registered \ former

(* Mutant: the process is found and left running.                          *)
FindProcess(j) ==
  /\ mode # "down" /\ InMap(j)
  /\ found' = found \cup {j}
  /\ UNCHANGED <<rows, worktrees, mode, runtime, approving, missed, history>>

(* CancelJob of the runtime looks for the process and stops it.  A call for *)
(* a job that is over, and has no process, changes nothing and is left out. *)
StopProcess(j) ==
  /\ mode # "down"
  /\ \/ /\ InMap(j)
        /\ killed' = killed \cup {j}
        /\ found' = found \cup {j}
        /\ UNCHANGED missed
     \/ /\ ~ InMap(j) /\ status[j] \notin Terminal \cup {"absent"}
        /\ missed' = missed \cup {j}
        /\ UNCHANGED <<killed, found>>
  /\ UNCHANGED <<rows, worktrees, mode, phase, exitZero, registered, former,
                 approving, history>>

(* It then updates the row, from any status that is not terminal.     *)
CancelRow(j) ==
  /\ mode # "down" /\ j \in found \cup missed
  /\ \/ j \in found /\ found' = found \ {j} /\ UNCHANGED <<missed, slipped>>
     \/ /\ j \in missed /\ missed' = missed \ {j} /\ UNCHANGED found
        /\ slipped' = IF status[j] = "running" THEN slipped \cup {j}
                                              ELSE slipped
  /\ IF status[j] \in Terminal \cup {"absent"} THEN UNCHANGED rows
     ELSE Settle(j, "canceled", "backlog")
  /\ UNCHANGED <<worktrees, mode, runtime, approving, launches, lost>>

-----------------------------------------------------------------------------
(* The end of a runtime, and the next one.                                 *)

(* Close, when the account is removed: the processes in the map are        *)
(* stopped.                                                                *)
Close ==
  /\ mode = "up"
  /\ mode' = "closing"
  /\ killed' = killed \cup {j \in Job : InMap(j)}
  /\ UNCHANGED <<rows, worktrees, phase, exitZero, registered, former, calls,
                 history>>

(* No call of ApproveJob or CancelJob survives the store or the daemon.    *)
CallsFail ==
  /\ approving' = [j \in Job |-> 0]
  /\ found' = {} /\ missed' = {}

(* The daemon lives on, and with it every start and every goroutine.       *)
CloseStore ==
  /\ mode = "closing"
  /\ mode' = "down"
  /\ former' = former \cup {j \in Job : phase[j] \notin {"idle", "orphan"}}
  /\ CallsFail
  /\ UNCHANGED <<rows, worktrees, phase, exitZero, registered, killed,
                 history>>

(* The daemon dies.  A process of its own may end with it or live on.      *)
Die ==
  /\ mode' = "down"
  /\ \E S \in SUBSET {j \in Job : phase[j] = "alive"} :
       /\ phase' = [j \in Job |->
                      IF j \in S \/ phase[j] = "orphan" THEN "orphan"
                                                      ELSE "idle"]
       /\ slipped' = slipped \cup S
  /\ exitZero' = {} /\ registered' = {} /\ killed' = {} /\ former' = {}
  /\ CallsFail
  /\ UNCHANGED <<rows, worktrees, launches, lost>>

OrphanEnds(j) ==
  /\ phase[j] = "orphan"
  /\ Go(j, "idle")
  /\ UNCHANGED <<rows, worktrees, mode, exitZero, registered, killed, former,
                 calls, history>>

(* Mutant: the jobs of the old daemon are left alone.                      *)
RestartOnly ==
  /\ mode = "down"
  /\ mode' = "up"
  /\ UNCHANGED <<rows, worktrees, runtime, calls, history>>

(* MarkRunningJobsFailedOnStartup fails one job after the other, and stops *)
(* at the first that cannot be failed.                                     *)
Restart ==
  /\ mode = "down"
  /\ mode' = "up"
  /\ \E S \in SUBSET {j \in Job : status[j] = "running"} :
       /\ status' = [j \in Job |-> IF j \in S THEN "failed" ELSE status[j]]
       /\ ticket' = [t \in Ticket |-> IF \E j \in S : TicketOf[j] = t
                                        THEN "blocked" ELSE ticket[t]]
       /\ lost' = lost \cup {j \in Job : status'[j] = "running"}
  /\ UNCHANGED <<worktrees, runtime, calls, launches, slipped>>

-----------------------------------------------------------------------------

JobStep(j) ==
  \/ PlanJob(j) \/ BeginApprove(j) \/ ApproveJob(j)
  \/ Prepare(j) \/ StartRow(j) \/ StartRefused(j) \/ StartUnread(j)
  \/ Register(j) \/ Launch(j) \/ LaunchFails(j)
  \/ ProcessEnds(j) \/ LookAtRow(j) \/ Record(j) \/ RecordFails(j)
  \/ Deregister(j)
  \/ StopProcess(j) \/ CancelRow(j) \/ OrphanEnds(j)

Next ==
  \/ \E j \in Job : JobStep(j)
  \/ \E t \in Ticket, s \in TicketStatus : MoveTicket(t, s)
  \/ Close \/ CloseStore \/ Die \/ Restart

Spec == Init /\ [][Next]_vars

-----------------------------------------------------------------------------
(* Properties.                                                             *)

(* A job is one attempt: no order of approvals, starts, cancellations,     *)
(* removals and restarts runs a process twice for it, although an approval *)
(* that comes late can make a finished job approved again.                 *)
(* (apps/kittypaw/docs/superpowers/specs/                                  *)
(*  2026-05-10-project-job-runtime-design.md:40)                           *)
OneAttempt == \A j \in Job : launches[j] <= 1

(* A process works for the one row of its ticket that says running, or it  *)
(* was stopped and is about to end, or it slipped away in one of four      *)
(* orders of steps: a cancellation looked for it before it was registered, *)
(* an approval came late and took the status away, it was registered after *)
(* Close had stopped what was in the map, or its daemon died and left it   *)
(* behind.                                                                 *)
ProcessesAreExplained ==
  \A j \in Job :
    phase[j] \in {"alive", "orphan"} =>
      \/ status[j] = "running" /\ \A k \in Siblings(j) : status[k] # "running"
      \/ j \in killed \cup slipped

(* A row that says running will be settled: somebody who can still reach   *)
(* the store is about to start its process or to record its end, or a      *)
(* restart is due, unless a statement failed when its turn had come.       *)
RunningJobHasOwner ==
  mode # "down" =>
    \A j \in Job \ lost :
      status[j] = "running" =>
        /\ j \notin former
        /\ phase[j] \in {"claimed", "launching", "alive", "exited", "recording"}

=============================================================================
