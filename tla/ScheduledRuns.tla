--------------------------- MODULE ScheduledRuns ---------------------------
(***************************************************************************)
(* Scheduled skills and packages of one account: the scheduled_runs table  *)
(* (store/scheduled_runs.go), the last_run_at column of skill_schedule     *)
(* (store/store.go) and the Scheduler instances that poll, claim, run and  *)
(* record (engine/schedule.go).  A configuration reload starts a new       *)
(* Scheduler while the goroutines of the old one finish, so two instances  *)
(* share the tables (server/account_schedulers.go).                        *)
(*                                                                         *)
(* What matters of a due time is what it was computed from.  A job that    *)
(* has run is due at the first time its expression names after last_run_at *)
(* and a job with a run_at anchor that never ran is due at the anchor:     *)
(* every poll computes the same due time until last_run_at changes.  A job *)
(* that never ran and has no anchor is due at the moment of the poll.  So  *)
(* a due time is here the run last_run_at was taken from (0: never ran),   *)
(* or Now.  The failure count only postpones a due time (the backoff) and  *)
(* is left out: the jobs meant here repeat no faster than the backoff of   *)
(* 64 minutes.                                                             *)
(*                                                                         *)
(* A claim token, drawn at random by every claim, is represented by the    *)
(* attempt number of the claim.  A lease is fresh until it expires, which  *)
(* may happen at any moment: nothing extends it.                           *)
(***************************************************************************)
EXTENDS Naturals, FiniteSets, Sequences

CONSTANTS
  Job,        \* names of skills and packages
  Once,       \* skills with a "once" trigger, deleted when they have run
  Package,    \* packages with a cron expression
  Anchored,   \* skills whose first due time is fixed by run_at
  Scheduler,  \* slots for Scheduler instances of the account
  Idle,       \* no tick in progress
  Now,        \* the due time of a job that was never run and has no anchor
  Slots,      \* MaxConcurrentScheduledJobs
  MaxRun,     \* bound: rows of one job
  MaxMishap   \* bound: mishaps (see Mishap) in one behaviour

ASSUME JobAssumption ==
  /\ Once \subseteq Job
  /\ Package \subseteq Job
  /\ Anchored \subseteq Job
  /\ Package \cap (Once \cup Anchored) = {}
ASSUME ValueAssumption == Now \notin 0 .. MaxRun
ASSUME BoundAssumption == Slots \in Nat \ {0} /\ MaxRun \in Nat /\ MaxMishap \in Nat

Due == 0 .. MaxRun \cup {Now}
Attempt == 1 .. MaxMishap + 1

Row == [due : Due,
        status : {"queued", "running", "done"},   \* done: succeeded or failed
        attempt : Attempt,
        lease : {"none", "fresh", "expired"}]

(* The goroutine of one claim, from the claim to its last deferred call.   *)
Worker == [host : Scheduler, job : Job, run : 1 .. MaxRun, attempt : Attempt,
           phase : {"admission", "executing", "finishing", "recording",
                    "deleting", "exiting"}]

Tick == [job : Job, due : Due, stage : {"computed", "reserved"}]

VARIABLES
  runs,       \* Job -> its rows of scheduled_runs, in order of id
  last,       \* Job -> last_run_at, as the run it was taken from; 0 for NULL
  installed,  \* jobs whose skill or package is on disk
  mode,       \* Scheduler -> "down", "up" or "stopping"
  listed,     \* Scheduler -> one-shot skills its tick has loaded
  tick,       \* Scheduler -> the job its checkAndRun is at, Idle if none
  inflight,   \* Scheduler -> its inflight map; every entry holds a job slot
  workers,    \* the goroutines
  mishaps,    \* mishaps so far
  endings,    \* history, Job -> due time -> executions that came to an end
  excuses,    \* history, Job -> due time -> mishaps that hit a claim for it
  overrun,    \* history, jobs whose lease ran out under a worker
  lost,       \* history, jobs with a finished run whose last_run_at was lost
  endedBy     \* history, Job -> row -> attempt that recorded its outcome, or 0

store == <<runs, last, installed>>
instances == <<mode, listed, tick, inflight>>
history == <<endings, excuses, overrun, lost, endedBy>>
vars == <<store, instances, workers, mishaps, history>>

TypeOK ==
  /\ runs \in [Job -> Seq(Row)]
  /\ \A j \in Job : Len(runs[j]) <= MaxRun
  /\ last \in [Job -> 0 .. MaxRun]
  /\ installed \subseteq Job
  /\ mode \in [Scheduler -> {"down", "up", "stopping"}]
  /\ listed \in [Scheduler -> SUBSET Once]
  /\ tick \in [Scheduler -> Tick \cup {Idle}]
  /\ inflight \in [Scheduler -> SUBSET Job]
  /\ workers \subseteq Worker
  /\ mishaps \in 0 .. MaxMishap
  /\ endings \in [Job -> [Due -> Nat]]
  /\ excuses \in [Job -> [Due -> 0 .. MaxMishap]]
  /\ overrun \subseteq Job
  /\ lost \subseteq Job
  /\ endedBy \in [Job -> [1 .. MaxRun -> Attempt \cup {0}]]

Init ==
  /\ runs = [j \in Job |-> <<>>]
  /\ last = [j \in Job |-> 0]
  /\ installed \in SUBSET Job
  /\ mode = [s \in Scheduler |-> "down"]
  /\ listed = [s \in Scheduler |-> {}]
  /\ tick = [s \in Scheduler |-> Idle]
  /\ inflight = [s \in Scheduler |-> {}]
  /\ workers = {}
  /\ mishaps = 0
  /\ endings = [j \in Job |-> [d \in Due |-> 0]]
  /\ excuses = [j \in Job |-> [d \in Due |-> 0]]
  /\ overrun = {}
  /\ lost = {}
  /\ endedBy = [j \in Job |-> [r \in 1 .. MaxRun |-> 0]]

-----------------------------------------------------------------------------
(* Something goes wrong; MaxMishap bounds how often.                       *)
Mishap == mishaps < MaxMishap /\ mishaps' = mishaps + 1

(* The due time a poll computes for a job without a last_run_at, and now.  *)
FirstDue(j) == IF j \in Anchored THEN 0 ELSE Now
NextDue(j) == IF last[j] = 0 THEN FirstDue(j) ELSE last[j]

Active(j) == {r \in DOMAIN runs[j] : runs[j][r].status # "done"}

(* The worker's row still carries its claim token and is running: the      *)
(* WHERE clause of the updates that end a claim.                           *)
Holds(w) ==
  LET row == runs[w.job][w.run] IN row.status = "running" /\ row.attempt = w.attempt

DueOf(w) == runs[w.job][w.run].due

Become(w, phase) == workers' = (workers \ {w}) \cup {[w EXCEPT !.phase = phase]}

Blame(hit) ==
  excuses' = [j \in Job |-> [d \in Due |->
    excuses[j][d] + (IF \E w \in hit : w.job = j /\ DueOf(w) = d THEN 1 ELSE 0)]]

-----------------------------------------------------------------------------
(* Scheduler life cycle.  Replace registers a new instance, stops the old  *)
(* one and starts the new one; StopAll stops it; a restart starts one.     *)

Start(s) ==
  /\ \A t \in Scheduler : mode[t] # "up"
  /\ mode[s] = "down"
  /\ mode' = [mode EXCEPT ![s] = "up"]
  /\ UNCHANGED <<store, listed, tick, inflight, workers, mishaps, history>>

Stop(s) ==
  /\ mode[s] = "up"
  /\ Mishap
  /\ mode' = [mode EXCEPT ![s] = "stopping"]
  /\ UNCHANGED <<store, listed, tick, inflight, workers, history>>

(* The loop has left and the last goroutine is done: Wait returns.         *)
Stopped(s) ==
  /\ mode[s] = "stopping"
  /\ tick[s] = Idle
  /\ \A w \in workers : w.host # s
  /\ mode' = [mode EXCEPT ![s] = "down"]
  /\ listed' = [listed EXCEPT ![s] = {}]
  /\ UNCHANGED <<store, tick, inflight, workers, mishaps, history>>

(* The daemon dies.  The tables stay.                                      *)
Crash ==
  /\ Mishap
  /\ \E s \in Scheduler : mode[s] # "down"
  /\ mode' = [s \in Scheduler |-> "down"]
  /\ listed' = [s \in Scheduler |-> {}]
  /\ tick' = [s \in Scheduler |-> Idle]
  /\ inflight' = [s \in Scheduler |-> {}]
  /\ workers' = {}
  /\ Blame({w \in workers : Holds(w)})
  /\ lost' = lost \cup {w.job : w \in {v \in workers : v.phase = "recording"}}
  /\ UNCHANGED <<store, endings, overrun, endedBy>>

-----------------------------------------------------------------------------
(* One tick: for every job compute the due time, reserve, claim.           *)

(* A tick begins and loads the skills.  Only one-shot skills can be gone   *)
(* from the disk by the time the tick comes to them.  A stopped loop may   *)
(* still take one more tick.                                               *)
Load(s) ==
  /\ mode[s] # "down"
  /\ tick[s] = Idle
  /\ listed' = [listed EXCEPT ![s] = installed \cap Once]
  /\ UNCHANGED <<store, mode, tick, inflight, workers, mishaps, history>>

(* The tick comes to a job with the due time it computes for it.           *)
Visit(s, j, due) ==
  /\ mode[s] # "down"
  /\ tick[s] = Idle
  /\ j \in listed[s] \cup (installed \ Once)
  /\ tick' = [tick EXCEPT ![s] = [job |-> j, due |-> due, stage |-> "computed"]]
  /\ listed' = [listed EXCEPT ![s] = @ \ {j}]
  /\ UNCHANGED <<store, mode, inflight, workers, history>>

(* The job is due: now is not earlier.  A one-shot skill that has a         *)
(* last_run_at is never due again.                                         *)
Poll(s, j) ==
  /\ j \in Once => last[j] = 0
  /\ Visit(s, j, NextDue(j))
  /\ UNCHANGED mishaps

(* The query of GetLastRun fails: it finds no valid value before it looks  *)
(* at the error (and checkPackages drops the error), so the job is taken   *)
(* for one that never ran.                                                 *)
Misread(s, j) ==
  /\ Mishap
  /\ Visit(s, j, FirstDue(j))

(* Mutant: the inflight map is not consulted.                              *)
ReserveAlways(s) ==
  /\ tick[s] # Idle
  /\ tick[s].stage = "computed"
  /\ tick' = [tick EXCEPT ![s].stage = "reserved"]
  /\ inflight' = [inflight EXCEPT ![s] = @ \cup {tick[s].job}]
  /\ UNCHANGED <<store, mode, listed, workers, mishaps, history>>

(* inflight.LoadOrStore, then a job slot; without either, the next job.    *)
Reserve(s) ==
  /\ tick[s] # Idle
  /\ tick[s].stage = "computed"
  /\ \/ /\ tick[s].job \notin inflight[s]
        /\ Cardinality(inflight[s]) < Slots
        /\ tick' = [tick EXCEPT ![s].stage = "reserved"]
        /\ inflight' = [inflight EXCEPT ![s] = @ \cup {tick[s].job}]
     \/ /\ tick[s].job \in inflight[s] \/ Cardinality(inflight[s]) >= Slots
        /\ tick' = [tick EXCEPT ![s] = Idle]
        /\ UNCHANGED inflight
  /\ UNCHANGED <<store, mode, listed, workers, mishaps, history>>

(* The tick gives the reservation back and goes on.                        *)
PutBack(s) ==
  /\ tick' = [tick EXCEPT ![s] = Idle]
  /\ inflight' = [inflight EXCEPT ![s] = @ \ {tick[s].job}]
  /\ UNCHANGED workers

(* The goroutine of a claim starts; packages pass no admission gate.       *)
Spawn(s, j, r, a) ==
  /\ tick' = [tick EXCEPT ![s] = Idle]
  /\ workers' = workers \cup {[host |-> s, job |-> j, run |-> r, attempt |-> a,
                               phase |-> IF j \in Package THEN "executing" ELSE "admission"]}
  /\ UNCHANGED inflight

(* Mutant: an expired lease keeps a row busy.                              *)
BusyForever(j) == \E r \in Active(j) : runs[j][r].status = "running"

(* Another claim of the job is running under a fresh lease.                *)
Busy(j) ==
  \E r \in Active(j) : runs[j][r].status = "running" /\ runs[j][r].lease = "fresh"

(* Mutant: the due time is not unique among the rows of a job.             *)
TakenNever(j, due) == FALSE

(* UNIQUE(job_key, due_at) refuses a second row.                           *)
Taken(j, due) ==
  due # Now /\ \E r \in DOMAIN runs[j] : runs[j][r].due = due

(* ClaimScheduledRun: refuse, claim the open row again, or insert one.  The *)
(* model refuses rows beyond the bound MaxRun.                             *)
Claim(s) ==
  /\ tick[s] # Idle
  /\ tick[s].stage = "reserved"
  /\ LET j == tick[s].job  due == tick[s].due IN
     \/ /\ Busy(j) \/ (Active(j) = {} /\ (Taken(j, due) \/ Len(runs[j]) = MaxRun))
        /\ PutBack(s)
        /\ UNCHANGED runs
     \/ /\ ~ Busy(j)
        /\ \E r \in Active(j) :
             /\ runs' = [runs EXCEPT ![j][r] = [@ EXCEPT !.status = "running",
                                                         !.attempt = runs[j][r].attempt + 1,
                                                         !.lease = "fresh"]]
             /\ Spawn(s, j, r, runs[j][r].attempt + 1)
     \/ /\ Active(j) = {}
        /\ ~ Taken(j, due)
        /\ Len(runs[j]) < MaxRun
        /\ runs' = [runs EXCEPT ![j] = Append(@, [due |-> due, status |-> "running",
                                                  attempt |-> 1, lease |-> "fresh"])]
        /\ Spawn(s, j, Len(runs[j]) + 1, 1)
  /\ UNCHANGED <<last, installed, mode, listed, mishaps, history>>

(* The claim transaction fails, or meets a concurrent one.                 *)
ClaimFails(s) ==
  /\ tick[s] # Idle
  /\ tick[s].stage = "reserved"
  /\ Mishap
  /\ PutBack(s)
  /\ UNCHANGED <<store, mode, listed, history>>

(* The lease of a row runs out; a worker that still holds it is not told.  *)
LeaseExpires(j, r) ==
  /\ r \in DOMAIN runs[j]
  /\ runs[j][r].status = "running"
  /\ runs[j][r].lease = "fresh"
  /\ runs' = [runs EXCEPT ![j][r].lease = "expired"]
  /\ LET holders == {w \in workers : w.job = j /\ w.run = r /\ Holds(w)} IN
     IF holders = {} THEN UNCHANGED <<mishaps, excuses, overrun>>
     ELSE /\ Mishap
          /\ Blame(holders)
          /\ overrun' = overrun \cup {j}
  /\ UNCHANGED <<last, installed, instances, workers, endings, lost, endedBy>>

-----------------------------------------------------------------------------
(* The goroutine of a claim.                                               *)

Admit(w) ==
  /\ w.phase = "admission"
  /\ Become(w, "executing")
  /\ UNCHANGED <<store, instances, mishaps, history>>

(* The account is busy: the claim is given back, the job stays due.        *)
AdmissionBusy(w) ==
  /\ w.phase = "admission"
  /\ Mishap
  /\ runs' = IF Holds(w) THEN [runs EXCEPT ![w.job][w.run] =
                                 [@ EXCEPT !.status = "queued", !.lease = "none"]]
             ELSE runs
  /\ Become(w, "exiting")
  /\ UNCHANGED <<last, installed, instances, history>>

(* The skill or package has run and its output was handed over, or either  *)
(* failed.                                                                 *)
RunEnds(w) ==
  /\ w.phase = "executing"
  /\ endings' = [endings EXCEPT ![w.job][DueOf(w)] = @ + 1]
  /\ Become(w, "finishing")
  /\ UNCHANGED <<store, instances, mishaps, excuses, overrun, lost, endedBy>>

(* A panic is recovered; the row keeps the claim until the lease is over.  *)
Panics(w) ==
  /\ w.phase = "executing"
  /\ Mishap
  /\ Become(w, "exiting")
  /\ UNCHANGED <<store, instances, history>>

AfterRecord(w) == IF w.job \in Once THEN "deleting" ELSE "exiting"

(* finishScheduledRun: only the holder of the claim records the outcome,   *)
(* and only then goes on to last_run_at.                                   *)
Finish(w) ==
  /\ w.phase = "finishing"
  /\ IF Holds(w)
     THEN /\ runs' = [runs EXCEPT ![w.job][w.run] =
                        [@ EXCEPT !.status = "done", !.lease = "none"]]
          /\ endedBy' = [endedBy EXCEPT ![w.job][w.run] = w.attempt]
          /\ Become(w, "recording")
     ELSE /\ Become(w, AfterRecord(w))
          /\ UNCHANGED <<runs, endedBy>>
  /\ UNCHANGED <<last, installed, instances, mishaps, endings, excuses, overrun, lost>>

(* The statement fails: logged, treated like a lost claim.                 *)
FinishFails(w) ==
  /\ w.phase = "finishing"
  /\ Mishap
  /\ Blame({w})
  /\ Become(w, AfterRecord(w))
  /\ UNCHANGED <<store, instances, endings, overrun, lost, endedBy>>

(* Mutant: a skill that is about to be deleted gets no last_run_at.        *)
RecordRecurring(w) ==
  /\ w.phase = "recording"
  /\ last' = IF w.job \in Once THEN last ELSE [last EXCEPT ![w.job] = w.run]
  /\ Become(w, AfterRecord(w))
  /\ UNCHANGED <<runs, installed, instances, mishaps, history>>

(* setLastRunFromScheduledRun.                                             *)
Record(w) ==
  /\ w.phase = "recording"
  /\ last' = [last EXCEPT ![w.job] = w.run]
  /\ Become(w, AfterRecord(w))
  /\ UNCHANGED <<runs, installed, instances, mishaps, history>>

(* SetLastRun fails: logged only.                                          *)
RecordFails(w) ==
  /\ w.phase = "recording"
  /\ Mishap
  /\ lost' = lost \cup {w.job}
  /\ Become(w, AfterRecord(w))
  /\ UNCHANGED <<store, instances, endings, excuses, overrun, endedBy>>

(* A one-shot skill is deleted however its run ended; a failure is logged. *)
DeleteSkill(w) ==
  /\ w.phase = "deleting"
  /\ Become(w, "exiting")
  /\ \/ installed' = installed \ {w.job} /\ UNCHANGED mishaps
     \/ Mishap /\ UNCHANGED installed
  /\ UNCHANGED <<runs, last, instances, history>>

(* The deferred calls: the inflight entry and the job slot.                *)
Exit(w) ==
  /\ w.phase = "exiting"
  /\ workers' = workers \ {w}
  /\ inflight' = [inflight EXCEPT ![w.host] = @ \ {w.job}]
  /\ UNCHANGED <<store, mode, listed, tick, mishaps, history>>

-----------------------------------------------------------------------------
WorkerStep(w) ==
  \/ Admit(w) \/ AdmissionBusy(w) \/ RunEnds(w) \/ Panics(w)
  \/ Finish(w) \/ FinishFails(w) \/ Record(w) \/ RecordFails(w)
  \/ DeleteSkill(w) \/ Exit(w)

SchedulerStep(s) ==
  \/ Start(s) \/ Stop(s) \/ Stopped(s) \/ Load(s)
  \/ Reserve(s) \/ Claim(s) \/ ClaimFails(s)

Next ==
  \/ \E s \in Scheduler : SchedulerStep(s)
  \/ \E s \in Scheduler, j \in Job : Poll(s, j) \/ Misread(s, j)
  \/ \E j \in Job, r \in 1 .. MaxRun : LeaseExpires(j, r)
  \/ \E w \in workers : WorkerStep(w)
  \/ Crash

Spec == Init /\ [][Next]_vars

(* Fairness.  A tick visits every job, every minute; started statements    *)
(* and goroutines go on; a stopped loop leaves its select; leases nobody   *)
(* holds run out in time; the daemon is running unless it is being         *)
(* restarted.  Mishaps need not happen.                                    *)
Fairness ==
  /\ WF_vars(\E s \in Scheduler : Start(s))
  /\ \A s \in Scheduler :
       /\ SF_vars(Stopped(s))
       /\ WF_vars(Reserve(s))
       /\ WF_vars(Claim(s))
       /\ \A j \in Job :
            /\ SF_vars(mode[s] = "up" /\ Poll(s, j))
            /\ WF_vars(\E w \in workers : w.host = s /\ w.job = j /\ WorkerStep(w))
  /\ \A j \in Job, r \in 1 .. MaxRun : WF_vars(LeaseExpires(j, r))

FairSpec == Spec /\ Fairness

-----------------------------------------------------------------------------
(* One Scheduler instance never runs a job twice at a time, even when the  *)
(* lease of the first run is over, and no more jobs than it has slots: the *)
(* inflight map outlives every claim (checkAndRun, checkPackages).  Two     *)
(* instances execute a job at the same time only after a lease ran out     *)
(* under one of them (ClaimScheduledRun).                                  *)
OneRunnerUnlessOverrun ==
  /\ \A s \in Scheduler : Cardinality({w \in workers : w.host = s}) <= Slots
  /\ \A v, w \in workers :
       v.job = w.job /\ v # w =>
         /\ v.host # w.host
         /\ v.phase = "executing" /\ w.phase = "executing" => v.job \in overrun

(* A due time is executed to the end more than once only if a crash, a     *)
(* failed statement or an overrun lease hit a claim for it: ticks that     *)
(* computed the due time before another run was recorded do not repeat it. *)
RepeatsAreExplained ==
  \A j \in Job, d \in 0 .. MaxRun : endings[j][d] <= 1 + excuses[j][d]

(* last_run_at of an anchored job never goes back to an earlier run,       *)
(* however late a goroutine writes it (setLastRunFromScheduledRun).        *)
LastRunMovesForward ==
  [][\A j \in Anchored : last'[j] >= last[j]]_vars

(* A due time whose row is already finished, so that every later claim for *)
(* it is refused (INSERT OR IGNORE), belongs to a job whose goroutine is   *)
(* about to move last_run_at on, or lost that write.                       *)
RefusedOnlyAfterLostWrite ==
  \A j \in installed :
    /\ Active(j) = {}
    /\ Taken(j, NextDue(j))
    => \/ j \in lost
       \/ \E w \in workers : w.job = j /\ w.phase = "recording"

(* An installed job that repeats is run and recorded, and a job with an    *)
(* anchor again and again (up to the bound), whatever stops, crashes and   *)
(* overruns hit it, unless a write of its last_run_at was lost.            *)
JobKeepsRunning ==
  \A j \in Job \ Once :
    <>(\/ last[j] > 0 /\ (j \in Anchored => last[j] = MaxRun)
       \/ j \in lost
       \/ j \notin installed)

(* The missed-run policy: a job that is due is caught up.                  *)
MissedRunIsCaughtUp ==
  \A j \in Anchored \ Once : <>(last[j] > 0 \/ j \notin installed)

-----------------------------------------------------------------------------
(* Every row of the table is an item of leased work.                       *)

RowStage(j, r) ==
  CASE r \notin DOMAIN runs[j] -> "open"
    [] r \in DOMAIN runs[j] /\ runs[j][r].status = "queued" -> "open"
    [] r \in DOMAIN runs[j] /\ runs[j][r].status = "running" -> "held"
    [] OTHER -> "closed"

RowAttempt(j, r) == IF r \in DOMAIN runs[j] THEN runs[j][r].attempt ELSE 0

RowItem == Job \X (1 .. MaxRun)

Queue == INSTANCE LeasedWork
  WITH Item <- RowItem,
       stage <- [i \in RowItem |-> RowStage(i[1], i[2])],
       generation <- [i \in RowItem |-> RowAttempt(i[1], i[2])],
       closedBy <- [i \in RowItem |-> endedBy[i[1]][i[2]]]

(* scheduled_runs keeps the promise of the queue row by row: a claim takes *)
(* one row as a new attempt, a late goroutine of an earlier attempt neither *)
(* closes the row nor gives it back, and a row that is done keeps the      *)
(* attempt that ended it and is never claimed again (ClaimScheduledRun,    *)
(* finishScheduledRun).                                                    *)
ImplementsLeasedWork == Queue!Spec
=============================================================================
