-------------------------------- MODULE Kanban --------------------------------
(***************************************************************************)
(* The kanban kernel (apps/kittypaw/store/kanban.go): tasks, the "blocks"   *)
(* links between them and the runs that work on them, and the processes    *)
(* that use it: interactive `kittypaw kanban` commands and any number of   *)
(* `kittypaw kanban dispatch` loops (apps/kittypaw/cli/cmd_kanban.go).     *)
(*                                                                         *)
(* Each store call is one SQLite transaction and one step.  What a process *)
(* remembers between two calls (a listing, a run id) may be out of date.   *)
(* A command that looks up the running run of a task and then acts on that *)
(* run is covered by letting commands act on any run id at any time.       *)
(***************************************************************************)
EXTENDS Naturals, FiniteSets

CONSTANTS
  Task,         \* tasks of one project
  Dispatcher,   \* dispatch processes
  NoTask,
  MaxRun,       \* bound: runs in one behaviour
  MaxAttempts   \* --max-attempts, 0 for no limit

ASSUME TaskAssumption == NoTask \notin Task
ASSUME RunAssumption == MaxRun \in Nat /\ MaxAttempts \in Nat

Run == 1 .. MaxRun       \* in order of creation
NoRun == 0

Status == {"triage", "todo", "ready", "running", "blocked", "done", "archived"}
Outcome == {"running", "completed", "blocked", "failed", "canceled", "reclaimed"}

VARIABLES
  status,      \* Task -> Status, "absent" before the task is created
  blocks,      \* pairs <<parent, child>> of kanban_task_links
  taskOf,      \* Run -> Task, NoTask before the run is created
  outcome,     \* Run -> Outcome, "none" before the run is created
  second,      \* Run -> started_at, which has a resolution of one second
  stale,       \* running runs whose heartbeat_at is past the stale cutoff
  at,          \* Dispatcher -> where it is
  item,        \* Dispatcher -> task it took from a listing
  seen,        \* Dispatcher -> run it listed as stale, or executes
  unmanaged    \* history, tasks moved into or out of "running" by a command
               \*   that starts or ends no run

tasks == <<status, blocks>>
runs == <<taskOf, outcome, second, stale>>
dispatch == <<at, item, seen>>
vars == <<tasks, runs, dispatch, unmanaged>>

TypeOK ==
  /\ status \in [Task -> Status \cup {"absent"}]
  /\ blocks \in SUBSET (Task \X Task)
  /\ taskOf \in [Run -> Task \cup {NoTask}]
  /\ outcome \in [Run -> Outcome \cup {"none"}]
  /\ \A r \in Run : outcome[r] = "none" <=> taskOf[r] = NoTask
  /\ second \in [Run -> 0 .. MaxRun]
  /\ stale \in SUBSET {r \in Run : outcome[r] = "running"}
  /\ at \in [Dispatcher -> {"idle", "listed", "cleared", "exhausted",
                            "executing"}]
  /\ item \in [Dispatcher -> Task \cup {NoTask}]
  /\ seen \in [Dispatcher -> Run \cup {NoRun}]
  /\ unmanaged \in SUBSET Task

Init ==
  /\ status = [t \in Task |-> "absent"]
  /\ blocks = {}
  /\ taskOf = [r \in Run |-> NoTask]
  /\ outcome = [r \in Run |-> "none"]
  /\ second = [r \in Run |-> 0]
  /\ stale = {}
  /\ at = [d \in Dispatcher |-> "idle"]
  /\ item = [d \in Dispatcher |-> NoTask]
  /\ seen = [d \in Dispatcher |-> NoRun]
  /\ unmanaged = {}

-----------------------------------------------------------------------------

Exists(t) == status[t] # "absent"
Blockers(t) == {p \in Task : <<p, t>> \in blocks}
RunningRuns(t) == {r \in Run : taskOf[r] = t /\ outcome[r] = "running"}

(* The runs "ORDER BY started_at DESC LIMIT 1" may pick.  Two that started *)
(* within a second are in no order.                                        *)
Latest(t) ==
  {r \in RunningRuns(t) : \A o \in RunningRuns(t) : second[o] <= second[r]}

(* hasKanbanPath: b is reached from a along the links.  The search visits   *)
(* the least set that contains a and every child of its members.           *)
Leads(a, b) ==
  \A S \in SUBSET Task :
    (a \in S /\ \A l \in blocks : l[1] \in S => l[2] \in S) => b \in S

(* Mutant: any run will do.                                                *)
RequireExists(r) == outcome[r] # "none"

(* requireRunningKanbanRunTx                                               *)
RequireRunning(r) == outcome[r] = "running" /\ r \in Latest(taskOf[r])

(* promoteUnblockedChildren, run on the statuses st in which t is done.    *)
Promoted(t, st) ==
  [c \in Task |->
    IF /\ t \in Blockers(c) /\ st[c] = "todo"
       /\ \A p \in Blockers(c) : st[p] = "done"
      THEN "ready" ELSE st[c]]

NextRun == Cardinality({r \in Run : outcome[r] # "none"}) + 1

(* A new run for t is inserted into the runs whose outcomes are old, in    *)
(* the second of the run before it or a later one.                         *)
StartRun(t, old) ==
  /\ NextRun \in Run
  /\ outcome' = [old EXCEPT ![NextRun] = "running"]
  /\ taskOf' = [taskOf EXCEPT ![NextRun] = t]
  /\ IF NextRun = 1 THEN UNCHANGED second
     ELSE \E s \in {second[NextRun - 1], second[NextRun - 1] + 1} :
            second' = [second EXCEPT ![NextRun] = s]

(* A run ends with outcome o.                                              *)
EndRun(r, o) ==
  /\ outcome' = [outcome EXCEPT ![r] = o]
  /\ stale' = stale \ {r}
  /\ UNCHANGED <<taskOf, second>>

-----------------------------------------------------------------------------
(* Store calls.  Their effect on tasks and runs; who calls them follows.   *)

(* CreateKanbanTask takes any status the command accepts, "running" too.   *)
Create(t, s) ==
  /\ ~Exists(t)
  /\ status' = [status EXCEPT ![t] = s]
  /\ unmanaged' = IF s = "running" THEN unmanaged \cup {t} ELSE unmanaged
  /\ UNCHANGED <<blocks, runs, dispatch>>

Claimable(t) == status[t] \notin {"absent", "running", "done", "archived"}

(* ClaimKanbanTask.  Links are not looked at.                              *)
Claim(t) ==
  /\ Claimable(t)
  /\ StartRun(t, outcome)
  /\ status' = [status EXCEPT ![t] = "running"]
  /\ UNCHANGED <<blocks, stale, unmanaged>>

CompleteRun(r) ==
  LET t == taskOf[r] IN
  /\ RequireRunning(r)
  /\ EndRun(r, "completed")
  /\ status' = Promoted(t, [status EXCEPT ![t] = "done"])
  /\ UNCHANGED <<blocks, unmanaged>>

FailRun(r) ==
  /\ RequireRunning(r)
  /\ EndRun(r, "failed")
  /\ status' = [status EXCEPT ![taskOf[r]] = "todo"]
  /\ UNCHANGED <<blocks, unmanaged>>

(* ReclaimKanbanRun closes the run and starts another in its place.        *)
ReclaimRun(r) ==
  /\ RequireRunning(r)
  /\ StartRun(taskOf[r], [outcome EXCEPT ![r] = "reclaimed"])
  /\ stale' = stale \ {r}
  /\ status' = [status EXCEPT ![taskOf[r]] = "running"]
  /\ UNCHANGED <<blocks, unmanaged>>

HeartbeatRun(r) ==
  /\ RequireRunning(r)
  /\ stale' = stale \ {r}
  /\ UNCHANGED <<tasks, taskOf, outcome, second, unmanaged>>

Cancel(t) ==
  \E r \in Latest(t) :
    /\ EndRun(r, "canceled")
    /\ status' = [status EXCEPT ![t] = "todo"]
    /\ UNCHANGED <<blocks, unmanaged>>

(* Mutant: children wait for a run to complete.                            *)
UpdateWithoutPromotion(t, s) ==
  /\ status[t] \notin {"absent", "running", "archived"}
  /\ s # "running" /\ s # status[t]
  /\ s = "ready" => \A p \in Blockers(t) : status[p] = "done"
  /\ status' = [status EXCEPT ![t] = s]
  /\ UNCHANGED <<blocks, runs, unmanaged>>

(* UpdateKanbanTask, --status.                                             *)
Update(t, s) ==
  /\ status[t] \notin {"absent", "running", "archived"}
  /\ s # "running" /\ s # status[t]
  /\ s = "ready" => \A p \in Blockers(t) : status[p] = "done"
  /\ status' = LET st == [status EXCEPT ![t] = s]
               IN IF s = "done" THEN Promoted(t, st) ELSE st
  /\ UNCHANGED <<blocks, runs, unmanaged>>

Archive(t) ==
  /\ status[t] \notin {"absent", "running", "archived"}
  /\ status' = [status EXCEPT ![t] = "archived"]
  /\ UNCHANGED <<blocks, runs, unmanaged>>

(* Mutant: the run of a blocked task stays running.                        *)
BlockKeepingRun(t) ==
  /\ Exists(t)
  /\ status' = [status EXCEPT ![t] = "blocked"]
  /\ UNCHANGED <<blocks, runs, unmanaged>>

(* BlockKanbanTask, from any status; ends the latest running run if there  *)
(* is one.                                                                 *)
Block(t) ==
  /\ Exists(t)
  /\ status' = [status EXCEPT ![t] = "blocked"]
  /\ IF Latest(t) = {} THEN UNCHANGED runs
     ELSE \E r \in Latest(t) : EndRun(r, "blocked")
  /\ UNCHANGED <<blocks, unmanaged>>

(* UnblockKanbanTask, from any status; touches no run.                     *)
Unblock(t) ==
  /\ Exists(t)
  /\ status' = [status EXCEPT ![t] = "todo"]
  /\ unmanaged' = IF status[t] = "running" THEN unmanaged \cup {t}
                                           ELSE unmanaged
  /\ UNCHANGED <<blocks, runs>>

(* Mutant: the path is searched from the parent to the child.              *)
LinkWrongWay(p, c) ==
  /\ p # c /\ Exists(p) /\ Exists(c)
  /\ <<p, c>> \notin blocks
  /\ ~Leads(p, c)
  /\ blocks' = blocks \cup {<<p, c>>}
  /\ UNCHANGED <<status, runs, unmanaged>>

(* LinkKanbanTasks.  A child that is already ready stays ready.            *)
Link(p, c) ==
  /\ p # c /\ Exists(p) /\ Exists(c)
  /\ <<p, c>> \notin blocks
  /\ ~Leads(c, p)
  /\ blocks' = blocks \cup {<<p, c>>}
  /\ UNCHANGED <<status, runs, unmanaged>>

-----------------------------------------------------------------------------
(* Interactive commands and `kanban exec`.                                 *)

TaskCommand(t) ==
  /\ \/ Claim(t) \/ Cancel(t) \/ Archive(t) \/ Block(t) \/ Unblock(t)
     \/ \E s \in Status : Update(t, s)
     \/ \E c \in Task : Link(t, c)
  /\ UNCHANGED dispatch

RunCommand(r) ==
  /\ CompleteRun(r) \/ FailRun(r) \/ ReclaimRun(r) \/ HeartbeatRun(r)
  /\ UNCHANGED dispatch

(* The heartbeat of a running run is older than the cutoff.                *)
Age(r) ==
  /\ outcome[r] = "running" /\ r \notin stale
  /\ stale' = stale \cup {r}
  /\ UNCHANGED <<tasks, taskOf, outcome, second, dispatch, unmanaged>>

-----------------------------------------------------------------------------
(* A dispatch process.                                                     *)

Go(d, place) == at' = [at EXCEPT ![d] = place]

(* It is done with its item, or stops and is started again.                *)
Drop(d) ==
  /\ Go(d, "idle")
  /\ item' = [item EXCEPT ![d] = NoTask]
  /\ seen' = [seen EXCEPT ![d] = NoRun]

(* An item of ListStaleKanbanRuns or of ListKanbanTasks(ready), to be      *)
(* handled now or, when other items come first, much later.                *)
List(d, t, r) ==
  /\ at[d] = "idle"
  /\ \/ status[t] = "running" /\ r \in RunningRuns(t) \cap stale
     \/ status[t] = "ready" /\ r = NoRun
  /\ Go(d, "listed")
  /\ item' = [item EXCEPT ![d] = t]
  /\ seen' = [seen EXCEPT ![d] = r]
  /\ UNCHANGED <<tasks, runs, unmanaged>>

FailedRuns(t) == {r \in Run : taskOf[r] = t /\ outcome[r] = "failed"}

(* maybeBlockKanbanDispatchTask counts the failed runs of the task ...     *)
CountAttempts(d) ==
  /\ at[d] = "listed"
  /\ Go(d, IF MaxAttempts > 0 /\ Cardinality(FailedRuns(item[d])) >= MaxAttempts
             THEN "exhausted" ELSE "cleared")
  /\ UNCHANGED <<tasks, runs, item, seen, unmanaged>>

(* ... and blocks a task that has too many, whatever its status is by now. *)
GiveUp(d) ==
  /\ at[d] = "exhausted"
  /\ Block(item[d])
  /\ Drop(d)

(* claimAndExecuteKanbanTask, reclaimAndExecuteKanbanTask                  *)
Take(d) ==
  /\ at[d] = "cleared"
  /\ \/ seen[d] = NoRun /\ Claim(item[d])
     \/ seen[d] # NoRun /\ ReclaimRun(seen[d])
  /\ Go(d, "executing")
  /\ seen' = [seen EXCEPT ![d] = NextRun]
  /\ UNCHANGED item

TakeFails(d) ==
  /\ at[d] = "cleared"
  /\ IF seen[d] = NoRun THEN ~Claimable(item[d]) ELSE ~RequireRunning(seen[d])
  /\ Drop(d)
  /\ UNCHANGED <<tasks, runs, unmanaged>>

Heartbeat(d) ==
  /\ at[d] = "executing"
  /\ HeartbeatRun(seen[d])
  /\ UNCHANGED dispatch

(* The command ends and its result is recorded.  Nobody can tell the       *)
(* moment it ends from the moment before the result is recorded.           *)
Record(d) ==
  /\ at[d] = "executing"
  /\ CompleteRun(seen[d]) \/ FailRun(seen[d])
  /\ Drop(d)

(* The run is no longer the current one: a heartbeat fails, the command is *)
(* killed and its failure cannot be recorded, or a result is rejected.     *)
Rejected(d) ==
  /\ at[d] = "executing" /\ ~RequireRunning(seen[d])
  /\ Drop(d)
  /\ UNCHANGED <<tasks, runs, unmanaged>>

(* The dispatch process is killed.                                         *)
Crash(d) ==
  /\ at[d] # "idle"
  /\ Drop(d)
  /\ UNCHANGED <<tasks, runs, unmanaged>>

DispatchStep(d) ==
  \/ \E t \in Task, r \in Run \cup {NoRun} : List(d, t, r)
  \/ CountAttempts(d) \/ GiveUp(d) \/ Take(d) \/ TakeFails(d)
  \/ Heartbeat(d) \/ Record(d) \/ Rejected(d) \/ Crash(d)

Next ==
  \/ \E t \in Task, s \in Status : Create(t, s)
  \/ \E t \in Task : TaskCommand(t)
  \/ \E r \in Run : RunCommand(r) \/ Age(r)
  \/ \E d \in Dispatcher : DispatchStep(d)

Spec == Init /\ [][Next]_vars

-----------------------------------------------------------------------------
(* Properties.                                                             *)

(* A task is running exactly while it has a running run, and has one at    *)
(* most, unless a command moved it into or out of "running" on its own: a  *)
(* task created as running, or unblocked while it ran.  However claims,    *)
(* reclaims, dispatchers and late results interleave, nothing else can     *)
(* give a task two live runs; and two dispatchers never execute the same.   *)
LiveRunsAreExplained ==
  \A t \in Task \ unmanaged :
    /\ Cardinality(RunningRuns(t)) <= 1
    /\ status[t] = "running" <=> RunningRuns(t) # {}
    /\ \A d, e \in Dispatcher :
         at[d] = "executing" /\ at[e] = "executing" /\ item[d] = t /\ item[e] = t
           /\ seen[d] = seen[e] => d = e

(* An ended run keeps its outcome: a worker that was reclaimed, cancelled  *)
(* or blocked cannot report a result later.                                *)
(* (kanban_test.go, TestKanbanCompleteRunDoesNotCloseReplacementRun)       *)
EndedRunIsFinal ==
  [][\A r \in Run :
       outcome[r] \notin {"none", "running"} => outcome'[r] = outcome[r]]_vars

(* A todo task becomes ready when, and without an explicit update only     *)
(* when, its last incomplete blocker is done.                              *)
PromotionIsExact ==
  [][\A t \in Task :
       LET open == {p \in Blockers(t) : status[p] # "done"}
           openAfter == {p \in Blockers(t) : status'[p] # "done"}
       IN /\ (status[t] = "todo" /\ open # {} /\ openAfter = {})
               => status'[t] = "ready"
          /\ (status[t] = "todo" /\ status'[t] = "ready") => openAfter = {}]_vars

(* No task blocks itself through a chain of links.                         *)
Acyclic == \A p, c \in Task : <<p, c>> \in blocks => ~Leads(c, p)

(* "ready: unblocked and claimable"                                        *)
ReadyIsUnblocked ==
  \A t \in Task :
    status[t] = "ready" => \A p \in Blockers(t) : status[p] = "done"

=============================================================================
