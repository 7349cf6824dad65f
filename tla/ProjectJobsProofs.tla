--------------------------- MODULE ProjectJobsProofs ---------------------------
(***************************************************************************)
(* Proofs about ProjectJobs for any jobs, any tickets and any number of    *)
(* approvals under way.                                                    *)
(*                                                                         *)
(* The argument: a worktree is taken away again only by the start that has *)
(* made it, and only before there is a process.  So a job without one has  *)
(* had no process (WorktreeInv), one that was found registered keeps its   *)
(* worktree, so that what is stopped once never starts again (StopInv),    *)
(* and the row a start has set to running stays so until the process has   *)
(* ended, unless a cancellation, an approval or the end of the runtime is  *)
(* to blame (StatusInv).  The rows of a runtime that is closed may change  *)
(* under its processes: those it knew are stopped by then, and those it    *)
(* registers later have slipped away (ClosedInv).                          *)
(***************************************************************************)
EXTENDS ProjectJobs, TLAPS

(* The row says running, the process has not ended.                        *)
Working == {"claimed", "launching", "alive"}

WorktreeInv ==
  \A j \in Job : j \notin worktrees => launches[j] = 0 /\ phase[j] = "idle"

LaunchInv ==
  \A j \in Job :
    /\ launches[j] <= 1
    /\ phase[j] \in {"prepared", "claimed", "launching"} => launches[j] = 0

(* What is registered is past the update of its row; what a cancellation   *)
(* has found was stopped, and does not start again.                        *)
StopInv ==
  \A j \in Job :
    /\ j \in registered <=>
         phase[j] \in {"launching", "alive", "exited", "recording", "leaving"}
    /\ j \in found =>
         /\ j \in worktrees
         /\ phase[j] \notin {"prepared", "claimed"}
         /\ phase[j] \in Working => j \in killed

(* The runtime that works for the job is closed, or closing.               *)
Closed(j) == mode # "up" \/ j \in former

StatusInv ==
  \A j \in Job :
    phase[j] \in Working =>
      \/ status[j] = "running"
      \/ phase[j] = "claimed" /\ Closed(j)
      \/ j \in killed \cup slipped

ClosedInv ==
  \A j \in Job :
    /\ phase[j] \in {"launching", "alive"} /\ Closed(j) => j \in killed \cup slipped
    /\ phase[j] = "orphan" => j \in slipped

(* One job of a ticket is running at most.                                 *)
TicketInv ==
  \A j \in Job : \A k \in Siblings(j) :
    ~ (status[j] = "running" /\ status[k] = "running")

DownInv ==
  mode = "down" => \A j \in Job : phase[j] \in {"idle", "orphan"} \/ j \in former

IInv ==
  /\ TypeOK
  /\ WorktreeInv /\ LaunchInv /\ StopInv
  /\ StatusInv /\ ClosedInv /\ TicketInv /\ DownInv
  /\ RunningJobHasOwner

-----------------------------------------------------------------------------

(* A job settled in its row, as the prover sees it.                        *)
LEMMA SettleMeans ==
  ASSUME TypeOK, NEW j \in Job, NEW s \in JobStatus, NEW t \in TicketStatus,
         Settle(j, s, t)
  PROVE  /\ status' \in [Job -> JobStatus \cup {"absent"}]
         /\ ticket' \in [Ticket -> TicketStatus]
         /\ status'[j] = s
         /\ \A k \in Job \ {j} : status'[k] = status[k]
BY TicketAssumption DEF Settle, TypeOK

LEMMA InitIInv == Init => IInv
BY ApprovalAssumption
DEF Init, IInv, TypeOK, WorktreeInv, LaunchInv, StopInv, StatusInv, ClosedInv,
    Closed, TicketInv, DownInv, RunningJobHasOwner, Siblings, TicketStatus,
    Phase, JobStatus, Working

(* Steps on the rows and calls that no process takes part in.              *)
LEMMA CallStep ==
  ASSUME IInv, NEW j \in Job,
         PlanJob(j) \/ BeginApprove(j) \/ ApproveJob(j) \/ StopProcess(j)
  PROVE  IInv'
<1>. USE DEF IInv, rows, runtime, calls, history, Terminal
<1>1. CASE PlanJob(j)
  <2>1. TypeOK'
    BY <1>1 DEF PlanJob, TypeOK, JobStatus
  <2>2. WorktreeInv' /\ LaunchInv' /\ StopInv' /\ DownInv'
    BY <1>1 DEF PlanJob, TypeOK, WorktreeInv, LaunchInv, StopInv, DownInv
  <2>3. StatusInv' /\ ClosedInv' /\ TicketInv' /\ RunningJobHasOwner'
    BY <1>1 DEF PlanJob, TypeOK, StatusInv, ClosedInv, Closed, TicketInv,
       RunningJobHasOwner, Siblings
  <2>. QED
    BY <2>1, <2>2, <2>3
<1>2. CASE BeginApprove(j)
  <2>1. TypeOK'
    BY <1>2, ApprovalAssumption DEF BeginApprove, TypeOK
  <2>2. WorktreeInv' /\ LaunchInv' /\ StopInv' /\ DownInv'
    BY <1>2 DEF BeginApprove, TypeOK, WorktreeInv, LaunchInv, StopInv, DownInv
  <2>3. StatusInv' /\ ClosedInv' /\ TicketInv' /\ RunningJobHasOwner'
    BY <1>2 DEF BeginApprove, TypeOK, StatusInv, ClosedInv, Closed, TicketInv,
       RunningJobHasOwner, Siblings
  <2>. QED
    BY <2>1, <2>2, <2>3
<1>3. CASE ApproveJob(j)
  <2>1. TypeOK'
    BY <1>3, ApprovalAssumption DEF ApproveJob, TypeOK, JobStatus
  <2>2. WorktreeInv' /\ LaunchInv' /\ StopInv' /\ DownInv'
    BY <1>3 DEF ApproveJob, TypeOK, WorktreeInv, LaunchInv, StopInv, DownInv
  <2>3. StatusInv' /\ ClosedInv' /\ TicketInv' /\ RunningJobHasOwner'
    BY <1>3 DEF ApproveJob, TypeOK, StatusInv, ClosedInv, Closed, TicketInv,
       RunningJobHasOwner, Siblings
  <2>. QED
    BY <2>1, <2>2, <2>3
<1>4. CASE StopProcess(j)
  <2>1. TypeOK'
    BY <1>4 DEF StopProcess, InMap, TypeOK
  <2>2. WorktreeInv' /\ LaunchInv' /\ DownInv'
    BY <1>4 DEF StopProcess, InMap, TypeOK, WorktreeInv, LaunchInv, DownInv
  <2>3. StopInv'
    BY <1>4 DEF StopProcess, InMap, TypeOK, StopInv, WorktreeInv
  <2>4. StatusInv' /\ ClosedInv' /\ TicketInv' /\ RunningJobHasOwner'
    BY <1>4 DEF StopProcess, InMap, TypeOK, StatusInv, ClosedInv, Closed,
       TicketInv, RunningJobHasOwner, Siblings
  <2>. QED
    BY <2>1, <2>2, <2>3, <2>4
<1>. QED
  BY <1>1, <1>2, <1>3, <1>4

LEMMA CancelRowStep ==
  ASSUME IInv, NEW j \in Job, CancelRow(j)
  PROVE  IInv'
<1>. USE DEF IInv, CancelRow, runtime
<1>1. /\ status' \in [Job -> JobStatus \cup {"absent"}]
      /\ ticket' \in [Ticket -> TicketStatus]
      /\ \A k \in Job \ {j} : status'[k] = status[k]
      /\ status[j] = "running" => status'[j] = "canceled"
      /\ status[j] # "running" => status'[j] # "running"
  <2>1. CASE status[j] \in Terminal \cup {"absent"}
    BY <2>1 DEF rows, TypeOK, Terminal
  <2>2. CASE status[j] \notin Terminal \cup {"absent"}
    <3>1. Settle(j, "canceled", "backlog")
      BY <2>2
    <3>. QED
      BY <3>1, SettleMeans DEF JobStatus, Terminal, TicketStatus
  <2>. QED
    BY <2>1, <2>2
<1>2. TypeOK'
  BY <1>1 DEF TypeOK
<1>3. WorktreeInv' /\ LaunchInv' /\ StopInv' /\ DownInv'
  BY DEF WorktreeInv, LaunchInv, StopInv, DownInv
<1>4. TicketInv' /\ RunningJobHasOwner'
  BY <1>1 DEF TicketInv, RunningJobHasOwner, Siblings
<1>5. StatusInv' /\ ClosedInv'
  BY <1>1 DEF StatusInv, ClosedInv, Closed, StopInv, TypeOK
<1>. QED
  BY <1>2, <1>3, <1>4, <1>5

(* The steps of a start.                                                   *)
LEMMA StartStep ==
  ASSUME IInv, NEW j \in Job,
         Prepare(j) \/ StartRow(j) \/ StartRefused(j) \/ StartUnread(j)
  PROVE  IInv'
<1>. USE DEF IInv, Go, rows, calls, history
<1>1. CASE Prepare(j)
  <2>1. TypeOK'
    BY <1>1 DEF Prepare, TypeOK, Phase
  <2>2. WorktreeInv' /\ LaunchInv' /\ StopInv' /\ DownInv'
    BY <1>1 DEF Prepare, TypeOK, WorktreeInv, LaunchInv, StopInv, DownInv,
       Working
  <2>3. StatusInv' /\ ClosedInv' /\ TicketInv' /\ RunningJobHasOwner'
    BY <1>1 DEF Prepare, TypeOK, StatusInv, ClosedInv, Closed, TicketInv,
       RunningJobHasOwner, Siblings, Working
  <2>. QED
    BY <2>1, <2>2, <2>3
<1>2. CASE StartRow(j)
  <2>1. /\ status' \in [Job -> JobStatus \cup {"absent"}]
        /\ ticket' \in [Ticket -> TicketStatus]
        /\ status'[j] = "running"
        /\ \A k \in Job \ {j} : status'[k] = status[k]
    BY <1>2, SettleMeans DEF StartRow, Served, JobStatus, TicketStatus
  <2>2. TypeOK'
    BY <1>2, <2>1 DEF StartRow, Served, TypeOK, Phase
  <2>3. WorktreeInv' /\ LaunchInv' /\ StopInv' /\ DownInv'
    BY <1>2 DEF StartRow, Served, TypeOK, WorktreeInv, LaunchInv, StopInv,
       DownInv, Working
  <2>4. TicketInv'
    BY <1>2, <2>1 DEF StartRow, Served, Startable, TicketInv, Siblings
  <2>5. StatusInv' /\ ClosedInv' /\ RunningJobHasOwner'
    BY <1>2, <2>1 DEF StartRow, Served, TypeOK, StatusInv, ClosedInv, Closed,
       RunningJobHasOwner
  <2>. QED
    BY <2>2, <2>3, <2>4, <2>5
<1>3. CASE StartRefused(j)
  <2>1. TypeOK'
    BY <1>3 DEF StartRefused, CleanUp, TypeOK, Phase
  <2>2. WorktreeInv' /\ LaunchInv' /\ StopInv' /\ DownInv'
    BY <1>3 DEF StartRefused, CleanUp, TypeOK, WorktreeInv, LaunchInv, StopInv,
       DownInv, Working
  <2>3. StatusInv' /\ ClosedInv' /\ TicketInv' /\ RunningJobHasOwner'
    BY <1>3 DEF StartRefused, TypeOK, StatusInv, ClosedInv, Closed, TicketInv,
       RunningJobHasOwner, Siblings, Working
  <2>. QED
    BY <2>1, <2>2, <2>3
<1>4. CASE StartUnread(j)
  <2>1. /\ status' \in [Job -> JobStatus \cup {"absent"}]
        /\ ticket' \in [Ticket -> TicketStatus]
        /\ status'[j] = "running"
        /\ \A k \in Job \ {j} : status'[k] = status[k]
    BY <1>4, SettleMeans DEF StartUnread, Served, JobStatus, TicketStatus
  <2>2. TypeOK'
    <3>1. worktrees' \in SUBSET Job /\ lost' \in SUBSET Job
      BY <1>4 DEF StartUnread, Served, CleanUp, TypeOK
    <3>2. phase' \in [Job -> Phase]
      BY <1>4 DEF StartUnread, Served, TypeOK, Phase
    <3>. QED
      BY <1>4, <2>1, <3>1, <3>2 DEF StartUnread, Served, TypeOK
  <2>3. WorktreeInv' /\ LaunchInv' /\ StopInv' /\ DownInv'
    BY <1>4 DEF StartUnread, Served, CleanUp, TypeOK, WorktreeInv, LaunchInv,
       StopInv, DownInv, Working
  <2>4. TicketInv'
    BY <1>4, <2>1 DEF StartUnread, Served, Startable, TicketInv, Siblings
  <2>5. StatusInv' /\ ClosedInv' /\ RunningJobHasOwner'
    BY <1>4, <2>1 DEF StartUnread, Served, TypeOK, StatusInv, ClosedInv,
       Closed, RunningJobHasOwner, Working
  <2>. QED
    BY <2>2, <2>3, <2>4, <2>5
<1>. QED
  BY <1>1, <1>2, <1>3, <1>4

(* The steps around the process that leave the rows alone.                 *)
LEMMA ProcessStep ==
  ASSUME IInv, NEW j \in Job,
         \/ Register(j) \/ Launch(j) \/ LaunchFails(j) \/ ProcessEnds(j)
         \/ LookAtRow(j) \/ Deregister(j) \/ OrphanEnds(j)
  PROVE  IInv'
<1>. USE DEF IInv, Go, rows, calls, history
<1>1. CASE Register(j)
  <2>1. TypeOK'
    BY <1>1 DEF Register, TypeOK, Phase
  <2>2. WorktreeInv' /\ LaunchInv' /\ StopInv' /\ DownInv'
    BY <1>1 DEF Register, TypeOK, WorktreeInv, LaunchInv, StopInv, DownInv,
       Working
  <2>3. StatusInv' /\ ClosedInv' /\ TicketInv' /\ RunningJobHasOwner'
    BY <1>1 DEF Register, TypeOK, StatusInv, ClosedInv, Closed, TicketInv,
       RunningJobHasOwner, Siblings, Working
  <2>. QED
    BY <2>1, <2>2, <2>3
<1>2. CASE Launch(j)
  <2>1. TypeOK'
    BY <1>2 DEF Launch, TypeOK, Phase
  <2>2. WorktreeInv' /\ LaunchInv' /\ StopInv' /\ DownInv'
    BY <1>2 DEF Launch, TypeOK, WorktreeInv, LaunchInv, StopInv, DownInv,
       Working
  <2>3. StatusInv' /\ ClosedInv' /\ TicketInv' /\ RunningJobHasOwner'
    BY <1>2 DEF Launch, TypeOK, StatusInv, ClosedInv, Closed, TicketInv,
       RunningJobHasOwner, Siblings, Working
  <2>. QED
    BY <2>1, <2>2, <2>3
<1>3. CASE LaunchFails(j)
  <2>1. TypeOK'
    BY <1>3 DEF LaunchFails, TypeOK, Phase, runtime
  <2>2. WorktreeInv' /\ LaunchInv' /\ StopInv' /\ DownInv'
    BY <1>3 DEF LaunchFails, TypeOK, WorktreeInv, LaunchInv, StopInv, DownInv,
       Working
  <2>3. StatusInv' /\ ClosedInv' /\ TicketInv' /\ RunningJobHasOwner'
    BY <1>3 DEF LaunchFails, TypeOK, StatusInv, ClosedInv, Closed, TicketInv,
       RunningJobHasOwner, Siblings, Working
  <2>. QED
    BY <2>1, <2>2, <2>3
<1>4. CASE ProcessEnds(j)
  <2>1. TypeOK'
    BY <1>4 DEF ProcessEnds, TypeOK, Phase
  <2>2. WorktreeInv' /\ LaunchInv' /\ StopInv' /\ DownInv'
    BY <1>4 DEF ProcessEnds, TypeOK, WorktreeInv, LaunchInv, StopInv, DownInv,
       Working
  <2>3. StatusInv' /\ ClosedInv' /\ TicketInv' /\ RunningJobHasOwner'
    BY <1>4 DEF ProcessEnds, TypeOK, StatusInv, ClosedInv, Closed, TicketInv,
       RunningJobHasOwner, Siblings, Working
  <2>. QED
    BY <2>1, <2>2, <2>3
<1>5. CASE LookAtRow(j)
  <2>1. TypeOK'
    BY <1>5 DEF LookAtRow, Served, TypeOK, Phase
  <2>2. WorktreeInv' /\ LaunchInv' /\ StopInv' /\ DownInv'
    BY <1>5 DEF LookAtRow, Served, TypeOK, WorktreeInv, LaunchInv, StopInv,
       DownInv, Working
  <2>3. StatusInv' /\ ClosedInv' /\ TicketInv' /\ RunningJobHasOwner'
    BY <1>5 DEF LookAtRow, Served, TypeOK, StatusInv, ClosedInv, Closed,
       TicketInv, RunningJobHasOwner, Siblings, Working
  <2>. QED
    BY <2>1, <2>2, <2>3
<1>6. CASE Deregister(j)
  <2>1. TypeOK'
    BY <1>6 DEF Deregister, TypeOK, Phase
  <2>2. WorktreeInv' /\ LaunchInv' /\ StopInv' /\ DownInv'
    BY <1>6 DEF Deregister, TypeOK, WorktreeInv, LaunchInv, StopInv, DownInv,
       Working
  <2>3. StatusInv' /\ ClosedInv' /\ TicketInv' /\ RunningJobHasOwner'
    BY <1>6 DEF Deregister, TypeOK, StatusInv, ClosedInv, Closed, TicketInv,
       RunningJobHasOwner, Siblings, Working
  <2>. QED
    BY <2>1, <2>2, <2>3
<1>7. CASE OrphanEnds(j)
  <2>1. TypeOK'
    BY <1>7 DEF OrphanEnds, TypeOK, Phase
  <2>2. WorktreeInv' /\ LaunchInv' /\ StopInv' /\ DownInv'
    BY <1>7 DEF OrphanEnds, TypeOK, WorktreeInv, LaunchInv, StopInv, DownInv,
       Working
  <2>3. StatusInv' /\ ClosedInv' /\ TicketInv' /\ RunningJobHasOwner'
    BY <1>7 DEF OrphanEnds, TypeOK, StatusInv, ClosedInv, Closed, TicketInv,
       RunningJobHasOwner, Siblings, Working
  <2>. QED
    BY <2>1, <2>2, <2>3
<1>. QED
  BY <1>1, <1>2, <1>3, <1>4, <1>5, <1>6, <1>7

(* The end of a process comes into the rows, or is lost.                   *)
LEMMA RecordStep ==
  ASSUME IInv, NEW j \in Job, Record(j) \/ RecordFails(j)
  PROVE  IInv'
<1>. USE DEF IInv, Go, calls
<1>1. CASE Record(j)
  <2>1. /\ status' \in [Job -> JobStatus \cup {"absent"}]
        /\ ticket' \in [Ticket -> TicketStatus]
        /\ \A k \in Job \ {j} : status'[k] = status[k]
        /\ status'[j] # "running"
    <3>1. CASE status[j] # "running"
      BY <1>1, <3>1 DEF Record, Served, Finish, rows, TypeOK
    <3>2. CASE status[j] = "running"
      <4>1. Settle(j, "succeeded", "review") \/ Settle(j, "failed", "blocked")
        BY <1>1, <3>2 DEF Record, Served, Finish
      <4>. QED
        BY <4>1, SettleMeans DEF JobStatus, Terminal, TicketStatus
    <3>. QED
      BY <3>1, <3>2
  <2>2. TypeOK'
    BY <1>1, <2>1 DEF Record, Served, TypeOK, Phase, history
  <2>3. WorktreeInv' /\ LaunchInv' /\ StopInv' /\ DownInv'
    BY <1>1 DEF Record, Served, TypeOK, WorktreeInv, LaunchInv, StopInv,
       DownInv, Working, history
  <2>4. TicketInv'
    BY <2>1 DEF TicketInv, Siblings
  <2>5. StatusInv' /\ ClosedInv' /\ RunningJobHasOwner'
    BY <1>1, <2>1 DEF Record, Served, TypeOK, StatusInv, ClosedInv, Closed,
       RunningJobHasOwner, Working, history
  <2>. QED
    BY <2>2, <2>3, <2>4, <2>5
<1>2. CASE RecordFails(j)
  <2>1. TypeOK'
    BY <1>2 DEF RecordFails, TypeOK, Phase, rows
  <2>2. WorktreeInv' /\ LaunchInv' /\ StopInv' /\ DownInv'
    BY <1>2 DEF RecordFails, TypeOK, WorktreeInv, LaunchInv, StopInv, DownInv,
       Working
  <2>3. StatusInv' /\ ClosedInv' /\ TicketInv' /\ RunningJobHasOwner'
    BY <1>2 DEF RecordFails, TypeOK, StatusInv, ClosedInv, Closed, TicketInv,
       RunningJobHasOwner, Siblings, Working, rows
  <2>. QED
    BY <2>1, <2>2, <2>3
<1>. QED
  BY <1>1, <1>2

(* Tickets moved by hand, the end of the runtime and its return.           *)
LEMMA RuntimeStep ==
  ASSUME IInv,
         \/ \E t \in Ticket, s \in TicketStatus : MoveTicket(t, s)
         \/ Close \/ CloseStore \/ Die \/ Restart
  PROVE  IInv'
<1>. USE DEF IInv, calls, history, rows, runtime
<1>1. ASSUME NEW t \in Ticket, NEW s \in TicketStatus, MoveTicket(t, s)
      PROVE  IInv'
  <2>1. TypeOK'
    BY <1>1 DEF MoveTicket, TypeOK
  <2>. QED
    BY <1>1, <2>1 DEF MoveTicket, WorktreeInv, LaunchInv, StopInv, DownInv,
       StatusInv, ClosedInv, Closed, TicketInv, RunningJobHasOwner, Siblings
<1>2. CASE Close
  <2>1. TypeOK'
    BY <1>2 DEF Close, InMap, TypeOK
  <2>2. WorktreeInv' /\ LaunchInv' /\ StopInv' /\ DownInv'
    BY <1>2 DEF Close, InMap, WorktreeInv, LaunchInv, StopInv, DownInv
  <2>3. StatusInv' /\ ClosedInv' /\ TicketInv' /\ RunningJobHasOwner'
    BY <1>2 DEF Close, InMap, StopInv, StatusInv, ClosedInv, Closed, TicketInv,
       RunningJobHasOwner, Siblings, Working
  <2>. QED
    BY <2>1, <2>2, <2>3
<1>3. CASE CloseStore
  <2>1. TypeOK'
    BY <1>3, ApprovalAssumption DEF CloseStore, CallsFail, TypeOK, Phase
  <2>2. WorktreeInv' /\ LaunchInv' /\ StopInv' /\ DownInv'
    BY <1>3 DEF CloseStore, CallsFail, WorktreeInv, LaunchInv, StopInv, DownInv
  <2>3. StatusInv' /\ ClosedInv' /\ TicketInv' /\ RunningJobHasOwner'
    BY <1>3 DEF CloseStore, CallsFail, StatusInv, ClosedInv, Closed, TicketInv,
       RunningJobHasOwner, Siblings, Working
  <2>. QED
    BY <2>1, <2>2, <2>3
<1>4. CASE Die
  <2>1. PICK S \in SUBSET {j \in Job : phase[j] = "alive"} :
          /\ phase' = [j \in Job |->
                         IF j \in S \/ phase[j] = "orphan" THEN "orphan" ELSE "idle"]
          /\ slipped' = slipped \cup S
    BY <1>4 DEF Die
  <2>2. TypeOK'
    BY <1>4, <2>1, ApprovalAssumption DEF Die, CallsFail, TypeOK, Phase
  <2>3. WorktreeInv' /\ LaunchInv' /\ StopInv' /\ DownInv'
    BY <1>4, <2>1 DEF Die, CallsFail, WorktreeInv, LaunchInv, StopInv, DownInv,
       Working
  <2>4. StatusInv' /\ ClosedInv' /\ TicketInv' /\ RunningJobHasOwner'
    BY <1>4, <2>1 DEF Die, StatusInv, ClosedInv, TicketInv, RunningJobHasOwner,
       Siblings, Working
  <2>. QED
    BY <2>2, <2>3, <2>4
<1>5. CASE Restart
  <2>1. /\ status' \in [Job -> JobStatus \cup {"absent"}]
        /\ ticket' \in [Ticket -> TicketStatus]
        /\ \A k \in Job : status'[k] = "running" => status[k] = "running"
        /\ \A k \in Job : status'[k] = "running" => k \in lost'
        /\ lost' \in SUBSET Job
    BY <1>5 DEF Restart, TypeOK, JobStatus, Terminal, TicketStatus
  <2>2. TypeOK'
    BY <1>5, <2>1 DEF Restart, TypeOK
  <2>3. WorktreeInv' /\ LaunchInv' /\ StopInv' /\ DownInv'
    BY <1>5 DEF Restart, WorktreeInv, LaunchInv, StopInv, DownInv
  <2>4. StatusInv' /\ ClosedInv'
    BY <1>5 DEF Restart, StatusInv, ClosedInv, Closed, DownInv, Working
  <2>5. TicketInv' /\ RunningJobHasOwner'
    BY <2>1 DEF TicketInv, RunningJobHasOwner, Siblings
  <2>. QED
    BY <2>2, <2>3, <2>4, <2>5
<1>. QED
  BY <1>1, <1>2, <1>3, <1>4, <1>5

LEMMA NextIInv == IInv /\ [Next]_vars => IInv'
<1> SUFFICES ASSUME IInv, [Next]_vars PROVE IInv'
  OBVIOUS
<1>1. ASSUME NEW j \in Job, JobStep(j)
      PROVE  IInv'
  BY <1>1, CallStep, CancelRowStep, StartStep, ProcessStep, RecordStep DEF
     JobStep
<1>2. CASE UNCHANGED vars
  BY <1>2 DEF vars, rows, runtime, calls, history, IInv, TypeOK, WorktreeInv,
     LaunchInv, StopInv, StatusInv, ClosedInv, Closed, TicketInv, DownInv,
     RunningJobHasOwner, Siblings
<1>. QED
  BY <1>1, <1>2, RuntimeStep DEF Next

(* The invariant holds in every state of every instance.                   *)
LEMMA Invariance == Spec => []IInv
BY InitIInv, NextIInv, PTL DEF Spec

-----------------------------------------------------------------------------

(* Statuses, phases and sets stay what the code declares them to be.       *)
THEOREM TypeCorrect == Spec => []TypeOK
<1>. IInv => TypeOK
  BY DEF IInv
<1>. QED
  BY Invariance, PTL

(* However approvals, starts, cancellations, removals and restarts         *)
(* interleave, StartJob runs a process for a job at most once.             *)
THEOREM OneAttemptThm == Spec => []OneAttempt
<1>. IInv => OneAttempt
  BY DEF IInv, LaunchInv, OneAttempt
<1>. QED
  BY Invariance, PTL

(* A process nobody has stopped works for the one running row of its       *)
(* ticket, or CancelJob came too early, ApproveJob or the registration too *)
(* late, or its daemon died without it.                                    *)
THEOREM ProcessesAreExplainedThm == Spec => []ProcessesAreExplained
<1>. IInv => ProcessesAreExplained
  BY DEF IInv, StatusInv, ClosedInv, Closed, TicketInv, ProcessesAreExplained,
     Working
<1>. QED
  BY Invariance, PTL

(* A running row has a goroutine that will settle it, unless a statement   *)
(* failed when its turn had come.                                          *)
THEOREM RunningJobHasOwnerThm == Spec => []RunningJobHasOwner
<1>. IInv => RunningJobHasOwner
  BY DEF IInv
<1>. QED
  BY Invariance, PTL

=============================================================================
