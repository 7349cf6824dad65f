--------------------------- MODULE ScheduledRunsProofs ---------------------------
(***************************************************************************)
(* Proofs about ScheduledRuns for any jobs, any Scheduler instances, any     *)
(* number of slots and any bounds.                                          *)
(*                                                                         *)
(* The argument: a claim takes the next attempt of its row, so the worker   *)
(* whose attempt is the row's is the only one that can end the claim        *)
(* (WorkerInv), and while its lease is fresh nobody can take it (ClaimInv).  *)
(* A row that is done was recorded by one worker, which then moves          *)
(* last_run_at on, so a due time that was left behind never comes back      *)
(* (RecordInv); for a job with an anchor the rows follow each other         *)
(* (AnchorInv).  Executions that may yet come to an end are paid for: each   *)
(* worker that lost its claim by the mishap that took it (DebtInv).          *)
(*                                                                         *)
(* A worker that still holds its claim has the attempt of its row, so rows  *)
(* are taken, closed and given back as LeasedWork has it (Refinement).      *)
(***************************************************************************)
EXTENDS ScheduledRuns, FiniteSetTheorems, TLAPS

Live == {"admission", "executing", "finishing"}
Rows(j) == 1 .. Len(runs[j])

(* A goroutine belongs to a claim that was made, and no two to the same.    *)
WorkerInv ==
  /\ IsFiniteSet(workers)
  /\ \A w \in workers :
       w.run \in Rows(w.job) /\ w.attempt <= runs[w.job][w.run].attempt
  /\ \A v, w \in workers :
       v.job = w.job /\ v.run = w.run /\ v.attempt = w.attempt => v = w

(* A worker that is not done has the claim of row r.                        *)
Held(j, r) ==
  \E w \in workers : /\ w.job = j /\ w.run = r /\ w.phase \in Live
                     /\ w.attempt = runs[j][r].attempt

(* Exactly running rows have a lease, and a row is claimed again only after *)
(* a mishap.                                                               *)
AttemptInv ==
  \A j \in Job : \A r \in Rows(j) :
    /\ runs[j][r].status = "running" <=> runs[j][r].lease # "none"
    /\ runs[j][r].attempt <= mishaps + 1
    /\ \/ runs[j][r].status = "done"
       \/ runs[j][r].status = "running" /\ runs[j][r].lease = "fresh" /\ Held(j, r)
       \/ runs[j][r].attempt <= mishaps

ExcuseInv == \A j \in Job : \A d \in Due : excuses[j][d] <= mishaps

OneActive == \A j \in Job : \A q, r \in Active(j) : q = r

(* A worker keeps its job in the inflight map of its instance, and a tick   *)
(* has reserved a job nobody works on there.                                *)
SlotInv ==
  /\ \A s \in Scheduler : IsFiniteSet(inflight[s]) /\ Cardinality(inflight[s]) <= Slots
  /\ \A w \in workers : w.job \in inflight[w.host]
  /\ \A v, w \in workers : v.host = w.host /\ v.job = w.job => v = w
  /\ \A s \in Scheduler :
       tick[s] # Idle /\ tick[s].stage = "reserved" =>
         /\ tick[s].job \in inflight[s]
         /\ \A w \in workers : ~(w.host = s /\ w.job = tick[s].job)

(* Unless a lease ran out under a worker of the job, a worker has its claim *)
(* as long as it needs it.                                                 *)
ClaimInv ==
  \A w \in workers : w.phase \in Live /\ w.job \notin overrun =>
    Holds(w) /\ runs[w.job][w.run].lease = "fresh"

(* Row r was recorded: it may be what a due time is computed from.          *)
Recorded(j, r) == r \in Rows(j) /\ runs[j][r].status = "done"

(* No due time was computed from row r.                                    *)
Unused(j, r) ==
  /\ last[j] # r
  /\ \A q \in Rows(j) : runs[j][q].due # r
  /\ \A s \in Scheduler : tick[s] # Idle /\ tick[s].job = j => tick[s].due # r

RecordInv ==
  /\ \A j \in Job : \A r \in 1 .. MaxRun : Unused(j, r) \/ Recorded(j, r)
  /\ \A w \in workers : w.phase = "recording" =>
       /\ Unused(w.job, w.run)
       /\ runs[w.job][w.run].status = "done"
       /\ w.attempt = runs[w.job][w.run].attempt

(* The row of the current due time is done: its worker is about to record   *)
(* the run, or could not.                                                  *)
LostInv ==
  \A j \in Job : \A q \in Rows(j) :
    runs[j][q].status = "done" /\ runs[j][q].due = last[j] =>
      \/ j \in lost
      \/ \E w \in workers : w.job = j /\ w.run = q /\ w.phase = "recording"

AnchorInv ==
  \A j \in Anchored :
    /\ last[j] <= Len(runs[j])
    /\ \A r \in Rows(j) : runs[j][r].due = r - 1
    /\ \A s \in Scheduler :
         tick[s] # Idle /\ tick[s].job = j => tick[s].due \in 0 .. Len(runs[j])

(* Workers that have lost their claim and may yet end an execution.         *)
Loose(j, r) ==
  {w \in workers : /\ w.job = j /\ w.run = r
                   /\ w.phase \in {"admission", "executing"} /\ ~Holds(w)}

Overdue(j, r) ==
  runs[j][r].status = "running" /\ runs[j][r].lease = "expired" /\ Held(j, r)

(* The execution of the current claim has come to its end.                 *)
Settled(j, r) ==
  \/ runs[j][r].status = "done"
  \/ \E w \in workers : w.job = j /\ w.run = r /\ w.phase = "finishing" /\ Holds(w)

One(b) == IF b THEN 1 ELSE 0

Paid(j, r) ==
  endings[j][runs[j][r].due] + Cardinality(Loose(j, r)) + One(Overdue(j, r))
    <= excuses[j][runs[j][r].due] + One(Settled(j, r))

DebtInv ==
  /\ \A j \in Job : \A q, r \in Rows(j) :
       runs[j][q].due = runs[j][r].due /\ runs[j][q].due # Now => q = r
  /\ \A j \in Job : \A d \in 0 .. MaxRun :
       (\A r \in Rows(j) : runs[j][r].due # d) => endings[j][d] <= excuses[j][d]
  /\ \A j \in Job : \A r \in Rows(j) : runs[j][r].due # Now => Paid(j, r)

ClaimsInv == TypeOK /\ WorkerInv /\ AttemptInv /\ ExcuseInv /\ OneActive
RunnerInv == SlotInv /\ ClaimInv
DueInv == RecordInv /\ LostInv /\ AnchorInv

IInv == ClaimsInv /\ RunnerInv /\ DueInv /\ DebtInv

-----------------------------------------------------------------------------
(* Rows and workers.                                                       *)

LEMMA RowFacts ==
  ASSUME TypeOK, NEW j \in Job
  PROVE  /\ Len(runs[j]) \in Nat /\ Len(runs[j]) <= MaxRun
         /\ DOMAIN runs[j] = Rows(j)
         /\ \A r \in Rows(j) : runs[j][r] \in Row
         /\ Rows(j) \subseteq 1 .. MaxRun
         /\ Active(j) \subseteq Rows(j)
<1>1. runs[j] \in Seq(Row) /\ Len(runs[j]) <= MaxRun
  BY DEF TypeOK
<1>2. Len(runs[j]) \in Nat /\ DOMAIN runs[j] = Rows(j)
  BY <1>1 DEF Rows
<1>3. \A r \in Rows(j) : runs[j][r] \in Row
  BY <1>1, <1>2
<1>. QED
  BY <1>1, <1>2, <1>3, BoundAssumption DEF Rows, Active

(* One row changes.                                                        *)
SetRow(j, r, row) == runs' = [runs EXCEPT ![j][r] = row]

LEMMA RowChanges ==
  ASSUME TypeOK, NEW j \in Job, NEW r \in Rows(j), NEW row \in Row,
         SetRow(j, r, row)
  PROVE  /\ runs' \in [Job -> Seq(Row)]
         /\ \A i \in Job : Len(runs'[i]) = Len(runs[i]) /\ Rows(i)' = Rows(i)
         /\ \A i \in Job : \A q \in Rows(i) :
              runs'[i][q] = IF i = j /\ q = r THEN row ELSE runs[i][q]
<1>1. runs[j] \in Seq(Row) /\ DOMAIN runs[j] = Rows(j)
  BY RowFacts DEF TypeOK
<1>. DEFINE s == [runs[j] EXCEPT ![r] = row]
<1>2. /\ s \in Seq(Row) /\ Len(s) = Len(runs[j])
      /\ \A q \in Rows(j) : s[q] = IF q = r THEN row ELSE runs[j][q]
  BY <1>1 DEF Rows
<1>3. runs' = [runs EXCEPT ![j] = s]
  BY DEF SetRow
<1>. HIDE DEF s
<1>4. \A i \in Job : runs'[i] = IF i = j THEN s ELSE runs[i]
  BY <1>3 DEF TypeOK
<1>5. runs' \in [Job -> Seq(Row)]
  BY <1>2, <1>3 DEF TypeOK
<1>6. \A i \in Job : Len(runs'[i]) = Len(runs[i])
  BY <1>2, <1>4
<1>. QED
  BY <1>2, <1>4, <1>5, <1>6 DEF Rows

(* A row is inserted.                                                      *)
AddRow(j, row) == runs' = [runs EXCEPT ![j] = Append(@, row)]

LEMMA RowAdded ==
  ASSUME TypeOK, NEW j \in Job, NEW row \in Row, Len(runs[j]) < MaxRun,
         AddRow(j, row)
  PROVE  /\ runs' \in [Job -> Seq(Row)]
         /\ \A i \in Job : Len(runs'[i]) <= MaxRun
         /\ Len(runs[j]) \in Nat /\ Len(runs'[j]) = Len(runs[j]) + 1
         /\ Rows(j)' = Rows(j) \cup {Len(runs[j]) + 1}
         /\ Len(runs[j]) + 1 \notin Rows(j)
         /\ \A i \in Job \ {j} : Len(runs'[i]) = Len(runs[i]) /\ Rows(i)' = Rows(i)
         /\ \A i \in Job : \A q \in Rows(i) : runs'[i][q] = runs[i][q]
         /\ runs'[j][Len(runs[j]) + 1] = row
<1>1. runs[j] \in Seq(Row) /\ Len(runs[j]) \in Nat
  BY RowFacts DEF TypeOK
<1>. DEFINE s == Append(runs[j], row)
            n == Len(runs[j])
<1>2. s \in Seq(Row) /\ Len(s) = n + 1 /\ s[n + 1] = row
  BY <1>1
<1>3. \A q \in Rows(j) : s[q] = runs[j][q]
  BY <1>1 DEF Rows
<1>4. runs' = [runs EXCEPT ![j] = s]
  BY DEF AddRow
<1>. HIDE DEF s
<1>5. \A i \in Job : runs'[i] = IF i = j THEN s ELSE runs[i]
  BY <1>4 DEF TypeOK
<1>6. runs' \in [Job -> Seq(Row)]
  BY <1>2, <1>4 DEF TypeOK
<1>7. \A i \in Job : Len(runs'[i]) = IF i = j THEN n + 1 ELSE Len(runs[i])
  BY <1>2, <1>5
<1>8. ASSUME NEW i \in Job PROVE Len(runs'[i]) <= MaxRun
  <2>1. Len(runs[i]) <= MaxRun
    BY DEF TypeOK
  <2>2. i = j => n + 1 <= MaxRun
    BY <1>1, BoundAssumption
  <2>. HIDE DEF n
  <2>. QED
    BY <1>7, <2>1, <2>2
<1>9. /\ Rows(j)' = Rows(j) \cup {n + 1} /\ n + 1 \notin Rows(j)
      /\ \A i \in Job \ {j} : Rows(i)' = Rows(i)
  BY <1>1, <1>7 DEF Rows
<1>. QED
  BY <1>1, <1>2, <1>3, <1>5, <1>6, <1>7, <1>8, <1>9

(* A worker goes on to another phase.                                      *)
LEMMA WorkerMoves ==
  ASSUME TypeOK, WorkerInv, NEW w \in workers, NEW phase, Become(w, phase),
         phase \in {"admission", "executing", "finishing", "recording",
                    "deleting", "exiting"}
  PROVE  \E x \in Worker :
           /\ x.host = w.host /\ x.job = w.job /\ x.run = w.run
           /\ x.attempt = w.attempt /\ x.phase = phase
           /\ workers' = (workers \ {w}) \cup {x}
           /\ workers' \subseteq Worker
           /\ IsFiniteSet(workers')
<1>. DEFINE x == [w EXCEPT !.phase = phase]
<1>1. w \in Worker
  BY DEF TypeOK
<1>2. /\ x \in Worker /\ x.host = w.host /\ x.job = w.job /\ x.run = w.run
      /\ x.attempt = w.attempt /\ x.phase = phase
  BY <1>1 DEF Worker
<1>3. workers' = (workers \ {w}) \cup {x}
  BY DEF Become
<1>. HIDE DEF x
<1>4. IsFiniteSet(workers')
  BY <1>3, FS_RemoveElement, FS_AddElement DEF WorkerInv
<1>. QED
  BY <1>2, <1>3, <1>4 DEF TypeOK

LEMMA WorkerType ==
  ASSUME TypeOK, WorkerInv, NEW w \in workers
  PROVE  /\ w \in Worker /\ w.host \in Scheduler /\ w.job \in Job
         /\ w.run \in Rows(w.job) /\ w.attempt \in Attempt
         /\ runs[w.job][w.run] \in Row /\ DueOf(w) \in Due
BY RowFacts DEF TypeOK, WorkerInv, Worker, DueOf, Row

-----------------------------------------------------------------------------
(* Steps of an instance that touch neither the table nor the goroutines.    *)

LEMMA TablesKept ==
  ASSUME ClaimsInv, ClaimInv, LostInv, DebtInv, TypeOK',
         UNCHANGED <<runs, last, workers, endings, excuses, overrun, lost>>,
         mishaps <= mishaps'
  PROVE  ClaimsInv' /\ ClaimInv' /\ LostInv' /\ DebtInv'
<1>1. WorkerInv'
  BY DEF ClaimsInv, WorkerInv, Rows
<1>2. AttemptInv'
  <2>1. \A j \in Job : \A r \in Rows(j) : runs[j][r].attempt \in Nat
    BY RowFacts, BoundAssumption DEF ClaimsInv, Row, Attempt
  <2>2. mishaps \in Nat /\ mishaps' \in Nat
    BY BoundAssumption DEF ClaimsInv, TypeOK
  <2>3. /\ \A j \in Job : Rows(j)' = Rows(j)
        /\ \A j \in Job : \A r \in Rows(j) : Held(j, r)' <=> Held(j, r)
    BY DEF Rows, Held
  <2>. QED
    BY <2>1, <2>2, <2>3 DEF ClaimsInv, AttemptInv
<1>3. ExcuseInv'
  BY BoundAssumption DEF ClaimsInv, ExcuseInv, TypeOK
<1>4. OneActive'
  BY DEF ClaimsInv, OneActive, Active
<1>5. ClaimInv'
  BY DEF ClaimInv, Holds
<1>6. LostInv'
  BY DEF LostInv, Rows
<1>7. DebtInv'
  <2>1. ASSUME NEW j \in Job, NEW r \in Rows(j)
        PROVE  Paid(j, r)' <=> Paid(j, r)
    <3>1. \A w \in workers : Holds(w)' <=> Holds(w)
      BY DEF Holds
    <3>2. Loose(j, r)' = Loose(j, r)
      BY <3>1 DEF Loose
    <3>3. Overdue(j, r)' = Overdue(j, r)
      BY DEF Overdue, Held
    <3>4. Settled(j, r)' = Settled(j, r)
      BY <3>1 DEF Settled
    <3>. QED
      BY <3>2, <3>3, <3>4 DEF Paid
  <2>2. \A j \in Job : Rows(j)' = Rows(j)
    BY DEF Rows
  <2>. QED
    BY <2>1, <2>2 DEF DebtInv
<1>. QED
  BY <1>1, <1>2, <1>3, <1>4, <1>5, <1>6, <1>7 DEF ClaimsInv

(* A due time is computed from last_run_at, or was computed before.         *)
LEMMA DueTimesKept ==
  ASSUME TypeOK, WorkerInv, RecordInv, AnchorInv,
         UNCHANGED <<runs, last, workers>>,
         \A s \in Scheduler :
           \/ tick'[s] = Idle
           \/ tick[s] # Idle /\ tick'[s].job = tick[s].job /\ tick'[s].due = tick[s].due
           \/ tick'[s].due \in {NextDue(tick'[s].job), FirstDue(tick'[s].job)}
  PROVE  RecordInv' /\ AnchorInv'
<1>1. ASSUME NEW j \in Job, NEW r \in 1 .. MaxRun, Unused(j, r)
      PROVE  Unused(j, r)'
  <2>1. NextDue(j) # r /\ FirstDue(j) # r
    BY <1>1, ValueAssumption, BoundAssumption DEF NextDue, FirstDue, Unused
  <2>. QED
    BY <1>1, <2>1 DEF Unused, Rows
<1>2. RecordInv'
  <2>1. ASSUME NEW w \in workers
        PROVE  w.job \in Job /\ w.run \in 1 .. MaxRun
    BY WorkerType, RowFacts
  <2>. QED
    BY <1>1, <2>1 DEF RecordInv, Recorded, Rows
<1>3. ASSUME NEW j \in Anchored
      PROVE  /\ last[j] \in 0 .. Len(runs[j])
             /\ NextDue(j) = last[j] /\ FirstDue(j) = 0 /\ Len(runs[j]) \in Nat
  BY JobAssumption, RowFacts, BoundAssumption DEF AnchorInv, TypeOK, NextDue, FirstDue
<1>4. AnchorInv'
  BY <1>3 DEF AnchorInv, Rows
<1>. QED
  BY <1>2, <1>4

LEMMA InstanceStep ==
  ASSUME IInv, NEW s \in Scheduler,
         Start(s) \/ Stop(s) \/ Stopped(s) \/ Load(s)
  PROVE  IInv'
<1>1. /\ UNCHANGED <<runs, last, installed, tick, inflight, workers, endings, excuses,
                     overrun, lost, endedBy>>
      /\ mishaps' = mishaps \/ Mishap
  BY DEF Start, Stop, Stopped, Load, store, history
<1>2. mishaps \in Nat /\ mishaps' \in 0 .. MaxMishap /\ mishaps <= mishaps'
  BY <1>1, BoundAssumption DEF Mishap, IInv, ClaimsInv, TypeOK
<1>3. /\ mode' \in [Scheduler -> {"down", "up", "stopping"}]
      /\ listed' \in [Scheduler -> SUBSET Once]
  BY DEF Start, Stop, Stopped, Load, IInv, ClaimsInv, TypeOK
<1>4. TypeOK'
  BY <1>1, <1>2, <1>3 DEF IInv, ClaimsInv, TypeOK
<1>5. ClaimsInv' /\ ClaimInv' /\ LostInv' /\ DebtInv'
  BY <1>1, <1>2, <1>4, TablesKept DEF IInv, RunnerInv, DueInv
<1>6. SlotInv'
  BY <1>1 DEF IInv, RunnerInv, SlotInv
<1>7. RecordInv' /\ AnchorInv'
  BY <1>1, DueTimesKept DEF IInv, DueInv, ClaimsInv
<1>. QED
  BY <1>5, <1>6, <1>7 DEF IInv, RunnerInv, DueInv

LEMMA PollStep ==
  ASSUME IInv, NEW s \in Scheduler, NEW j \in Job, Poll(s, j) \/ Misread(s, j)
  PROVE  IInv'
<1>1. /\ UNCHANGED <<runs, last, installed, mode, inflight, workers, endings, excuses,
                     overrun, lost, endedBy>>
      /\ mishaps' = mishaps \/ Mishap
      /\ listed' = [listed EXCEPT ![s] = @ \ {j}]
  BY DEF Poll, Misread, Visit, store, history
<1>2. PICK due \in {NextDue(j), FirstDue(j)} :
        tick' = [tick EXCEPT ![s] = [job |-> j, due |-> due, stage |-> "computed"]]
  BY DEF Poll, Misread, Visit
<1>. DEFINE t == [job |-> j, due |-> due, stage |-> "computed"]
<1>3. t \in Tick /\ t.job = j /\ t.due = due /\ t.stage = "computed"
  BY BoundAssumption DEF IInv, ClaimsInv, TypeOK, Tick, Due, NextDue, FirstDue
<1>4. tick' = [tick EXCEPT ![s] = t]
  BY <1>2
<1>. HIDE DEF t
<1>5. mishaps \in Nat /\ mishaps' \in 0 .. MaxMishap /\ mishaps <= mishaps'
  BY <1>1, BoundAssumption DEF Mishap, IInv, ClaimsInv, TypeOK
<1>6. TypeOK'
  BY <1>1, <1>3, <1>4, <1>5 DEF IInv, ClaimsInv, TypeOK
<1>7. ClaimsInv' /\ ClaimInv' /\ LostInv' /\ DebtInv'
  BY <1>1, <1>5, <1>6, TablesKept DEF IInv, RunnerInv, DueInv
<1>8. \A q \in Scheduler : tick'[q] = IF q = s THEN t ELSE tick[q]
  BY <1>4 DEF IInv, ClaimsInv, TypeOK
<1>9. SlotInv'
  BY <1>1, <1>3, <1>8 DEF IInv, RunnerInv, SlotInv
<1>10. RecordInv' /\ AnchorInv'
  <2>1. \A q \in Scheduler :
          \/ tick'[q] = Idle
          \/ tick[q] # Idle /\ tick'[q].job = tick[q].job /\ tick'[q].due = tick[q].due
          \/ tick'[q].due \in {NextDue(tick'[q].job), FirstDue(tick'[q].job)}
    BY <1>3, <1>8
  <2>. QED
    BY <1>1, <2>1, DueTimesKept DEF IInv, DueInv, ClaimsInv
<1>. QED
  BY <1>7, <1>9, <1>10 DEF IInv, RunnerInv, DueInv

LEMMA ReserveStep ==
  ASSUME IInv, NEW s \in Scheduler, Reserve(s)
  PROVE  IInv'
<1>1. UNCHANGED <<runs, last, installed, mode, listed, workers, mishaps, endings,
                  excuses, overrun, lost, endedBy>>
  BY DEF Reserve, store, history
<1>. DEFINE j == tick[s].job
            t == [tick[s] EXCEPT !.stage = "reserved"]
<1>2. tick[s] \in Tick /\ tick[s] # Idle /\ j \in Job
  BY DEF Reserve, IInv, ClaimsInv, TypeOK, Tick
<1>3. t \in Tick /\ t.job = j /\ t.due = tick[s].due
  BY <1>2 DEF Tick
<1>4. \/ /\ tick' = [tick EXCEPT ![s] = t]
         /\ j \notin inflight[s] /\ Cardinality(inflight[s]) < Slots
         /\ inflight' = [inflight EXCEPT ![s] = inflight[s] \cup {j}]
      \/ tick' = [tick EXCEPT ![s] = Idle] /\ inflight' = inflight
  BY DEF Reserve
<1>. HIDE DEF t
<1>5. TypeOK'
  <2>1. tick' \in [Scheduler -> Tick \cup {Idle}]
    BY <1>3, <1>4 DEF IInv, ClaimsInv, TypeOK
  <2>2. inflight' \in [Scheduler -> SUBSET Job]
    <3>1. inflight \in [Scheduler -> SUBSET Job]
      BY DEF IInv, ClaimsInv, TypeOK
    <3>2. inflight[s] \cup {j} \in SUBSET Job
      BY <1>2, <3>1
    <3>. DEFINE more == inflight[s] \cup {j}
    <3>. HIDE DEF more
    <3>3. inflight' = inflight \/ inflight' = [inflight EXCEPT ![s] = more]
      BY <1>4 DEF more
    <3>4. more \in SUBSET Job
      BY <3>2 DEF more
    <3>. QED
      BY <3>1, <3>3, <3>4
  <2>. QED
    BY <1>1, <2>1, <2>2 DEF IInv, ClaimsInv, TypeOK
<1>6. ClaimsInv' /\ ClaimInv' /\ LostInv' /\ DebtInv'
  <2>1. mishaps <= mishaps'
    BY <1>1, BoundAssumption DEF IInv, ClaimsInv, TypeOK
  <2>. QED
    BY <1>1, <1>5, <2>1, TablesKept DEF IInv, RunnerInv, DueInv
<1>7. tick'[s] \in {t, Idle} /\ \A q \in Scheduler \ {s} : tick'[q] = tick[q]
  BY <1>4 DEF IInv, ClaimsInv, TypeOK
<1>8. SlotInv'
  <2>1. CASE tick' = [tick EXCEPT ![s] = Idle] /\ inflight' = inflight
    BY <1>1, <2>1 DEF IInv, ClaimsInv, TypeOK, RunnerInv, SlotInv
  <2>2. CASE /\ tick' = [tick EXCEPT ![s] = t]
             /\ j \notin inflight[s] /\ Cardinality(inflight[s]) < Slots
             /\ inflight' = [inflight EXCEPT ![s] = inflight[s] \cup {j}]
    <3>1. /\ \A q \in Scheduler : inflight'[q] = IF q = s THEN inflight[s] \cup {j}
                                                        ELSE inflight[q]
          /\ tick'[s] = t
      BY <2>2 DEF IInv, ClaimsInv, TypeOK
    <3>2. IsFiniteSet(inflight[s]) /\ Cardinality(inflight[s]) \in Nat
      BY FS_CardinalityType DEF IInv, RunnerInv, SlotInv
    <3>3. /\ IsFiniteSet(inflight'[s])
          /\ Cardinality(inflight'[s]) = Cardinality(inflight[s]) + 1
      <4>1. j \notin inflight[s] /\ inflight'[s] = inflight[s] \cup {j}
        BY <2>2, <3>1
      <4>. DEFINE set == inflight[s]
      <4>. HIDE DEF set
      <4>2. IsFiniteSet(set) /\ j \notin set /\ inflight'[s] = set \cup {j}
        BY <3>2, <4>1 DEF set
      <4>3. IsFiniteSet(set \cup {j}) /\ Cardinality(set \cup {j}) = Cardinality(set) + 1
        BY <4>2, FS_AddElement
      <4>. QED
        BY <4>2, <4>3 DEF set
    <3>4. Cardinality(inflight'[s]) <= Slots
      BY <2>2, <3>2, <3>3, BoundAssumption
    <3>5. \A w \in workers : ~(w.host = s /\ w.job = j)
      BY <2>2 DEF IInv, RunnerInv, SlotInv
    <3>6. \A q \in Scheduler : IsFiniteSet(inflight'[q]) /\ Cardinality(inflight'[q]) <= Slots
      BY <3>1, <3>3, <3>4 DEF IInv, RunnerInv, SlotInv
    <3>7. \A w \in workers : w.job \in inflight'[w.host]
      BY <3>1, WorkerType DEF IInv, ClaimsInv, RunnerInv, SlotInv
    <3>8. ASSUME NEW q \in Scheduler, tick'[q] # Idle, tick'[q].stage = "reserved"
          PROVE  /\ tick'[q].job \in inflight'[q]
                 /\ \A w \in workers : ~(w.host = q /\ w.job = tick'[q].job)
      <4>1. CASE q = s
        BY <1>3, <3>1, <3>5, <4>1
      <4>2. CASE q # s
        BY <1>7, <3>1, <3>8, <4>2 DEF IInv, RunnerInv, SlotInv
      <4>. QED
        BY <4>1, <4>2
    <3>. HIDE DEF j
    <3>. QED
      BY <1>1, <3>6, <3>7, <3>8 DEF IInv, RunnerInv, SlotInv
  <2>. QED
    BY <1>4, <2>1, <2>2
<1>9. RecordInv' /\ AnchorInv'
  BY <1>1, <1>2, <1>3, <1>7, DueTimesKept DEF IInv, DueInv, ClaimsInv
<1>. QED
  BY <1>6, <1>8, <1>9 DEF IInv, RunnerInv, DueInv

(* The tick gives its reservation back.                                    *)
LEMMA PutBackSlots ==
  ASSUME TypeOK, SlotInv, NEW s \in Scheduler, PutBack(s),
         tick[s] # Idle, tick[s].stage = "reserved"
  PROVE  /\ SlotInv'
         /\ tick' \in [Scheduler -> Tick \cup {Idle}]
         /\ inflight' \in [Scheduler -> SUBSET Job]
         /\ tick'[s] = Idle
         /\ \A q \in Scheduler \ {s} : tick'[q] = tick[q]
<1>1. /\ \A q \in Scheduler : tick'[q] = IF q = s THEN Idle ELSE tick[q]
      /\ \A q \in Scheduler : inflight'[q] = IF q = s THEN inflight[s] \ {tick[s].job}
                                                   ELSE inflight[q]
      /\ tick' \in [Scheduler -> Tick \cup {Idle}]
      /\ inflight' \in [Scheduler -> SUBSET Job]
      /\ workers' = workers
  BY DEF PutBack, TypeOK
<1>2. \A q \in Scheduler : IsFiniteSet(inflight'[q]) /\ Cardinality(inflight'[q]) <= Slots
  <2>1. /\ IsFiniteSet(inflight'[s]) /\ Cardinality(inflight[s]) \in Nat
        /\ Cardinality(inflight'[s]) <= Cardinality(inflight[s])
        /\ Cardinality(inflight'[s]) \in Nat
    BY <1>1, FS_Subset, FS_CardinalityType DEF SlotInv
  <2>2. Cardinality(inflight'[s]) <= Slots
    BY <2>1, BoundAssumption DEF SlotInv
  <2>. QED
    BY <1>1, <2>1, <2>2 DEF SlotInv
<1>3. \A w \in workers : w.host \in Scheduler /\ w.job \in inflight'[w.host]
  BY <1>1 DEF SlotInv, TypeOK, Worker
<1>. QED
  BY <1>1, <1>2, <1>3 DEF SlotInv

LEMMA ClaimFailsStep ==
  ASSUME IInv, NEW s \in Scheduler, ClaimFails(s)
  PROVE  IInv'
<1>1. /\ UNCHANGED <<runs, last, installed, mode, listed, workers, endings, excuses,
                     overrun, lost, endedBy>>
      /\ Mishap /\ PutBack(s) /\ tick[s] # Idle /\ tick[s].stage = "reserved"
  BY DEF ClaimFails, PutBack, store, history
<1>2. mishaps \in Nat /\ mishaps' \in 0 .. MaxMishap /\ mishaps <= mishaps'
  BY <1>1, BoundAssumption DEF Mishap, IInv, ClaimsInv, TypeOK
<1>3. /\ SlotInv'
      /\ tick' \in [Scheduler -> Tick \cup {Idle}]
      /\ inflight' \in [Scheduler -> SUBSET Job]
      /\ tick'[s] = Idle
      /\ \A q \in Scheduler \ {s} : tick'[q] = tick[q]
  BY <1>1, PutBackSlots DEF IInv, ClaimsInv, RunnerInv
<1>4. TypeOK'
  BY <1>1, <1>2, <1>3 DEF IInv, ClaimsInv, TypeOK
<1>5. ClaimsInv' /\ ClaimInv' /\ LostInv' /\ DebtInv'
  BY <1>1, <1>2, <1>4, TablesKept DEF IInv, RunnerInv, DueInv
<1>6. RecordInv' /\ AnchorInv'
  BY <1>1, <1>3, DueTimesKept DEF IInv, DueInv, ClaimsInv
<1>. QED
  BY <1>3, <1>5, <1>6 DEF IInv, RunnerInv, DueInv

-----------------------------------------------------------------------------
(* A claim is made.                                                        *)

(* The new worker of the tick's job.                                       *)
LEMMA SpawnSlots ==
  ASSUME TypeOK, SlotInv, NEW s \in Scheduler, NEW j, NEW r, NEW a, Spawn(s, j, r, a),
         tick[s] # Idle, tick[s].stage = "reserved", j = tick[s].job,
         r \in 1 .. MaxRun, a \in Attempt
  PROVE  \E x \in Worker :
           /\ x.host = s /\ x.job = j /\ x.run = r /\ x.attempt = a
           /\ x.phase \in {"admission", "executing"}
           /\ workers' = workers \cup {x}
           /\ workers' \subseteq Worker
           /\ SlotInv' /\ inflight' = inflight
           /\ tick' \in [Scheduler -> Tick \cup {Idle}]
           /\ tick'[s] = Idle
           /\ \A q \in Scheduler \ {s} : tick'[q] = tick[q]
<1>. DEFINE x == [host |-> s, job |-> j, run |-> r, attempt |-> a,
                  phase |-> IF j \in Package THEN "executing" ELSE "admission"]
<1>0. j \in Job
  BY DEF TypeOK, Tick
<1>1. /\ x \in Worker /\ x.host = s /\ x.job = j /\ x.run = r /\ x.attempt = a
      /\ x.phase \in {"admission", "executing"}
  BY <1>0 DEF Worker
<1>2. /\ workers' = workers \cup {x} /\ inflight' = inflight
      /\ tick' = [tick EXCEPT ![s] = Idle]
  BY DEF Spawn
<1>. HIDE DEF x
<1>3. /\ tick' \in [Scheduler -> Tick \cup {Idle}]
      /\ tick'[s] = Idle
      /\ \A q \in Scheduler \ {s} : tick'[q] = tick[q]
  BY <1>2 DEF TypeOK
<1>4. /\ j \in inflight[s]
      /\ \A w \in workers : ~(w.host = s /\ w.job = j)
  BY DEF SlotInv
<1>5. ASSUME NEW q \in Scheduler, tick'[q] # Idle, tick'[q].stage = "reserved"
      PROVE  \A w \in workers' : ~(w.host = q /\ w.job = tick'[q].job)
  BY <1>1, <1>2, <1>3, <1>5 DEF SlotInv
<1>6. \A v, w \in workers' : v.host = w.host /\ v.job = w.job => v = w
  BY <1>1, <1>2, <1>4 DEF SlotInv
<1>7. SlotInv'
  BY <1>1, <1>2, <1>3, <1>4, <1>5, <1>6 DEF SlotInv
<1>. QED
  BY <1>1, <1>2, <1>3, <1>7 DEF TypeOK

LEMMA RefusedStep ==
  ASSUME IInv, NEW s \in Scheduler, PutBack(s),
         UNCHANGED <<runs, last, installed, mode, listed, mishaps, history>>,
         tick[s] # Idle, tick[s].stage = "reserved"
  PROVE  IInv'
<1>1. UNCHANGED <<runs, last, installed, mode, listed, workers, mishaps, endings,
                  excuses, overrun, lost, endedBy>>
  BY DEF PutBack, history
<1>2. /\ SlotInv'
      /\ tick' \in [Scheduler -> Tick \cup {Idle}]
      /\ inflight' \in [Scheduler -> SUBSET Job]
      /\ tick'[s] = Idle
      /\ \A q \in Scheduler \ {s} : tick'[q] = tick[q]
  BY PutBackSlots DEF IInv, ClaimsInv, RunnerInv
<1>3. TypeOK'
  BY <1>1, <1>2 DEF IInv, ClaimsInv, TypeOK
<1>4. ClaimsInv' /\ ClaimInv' /\ LostInv' /\ DebtInv'
  <2>1. mishaps <= mishaps'
    BY <1>1, BoundAssumption DEF IInv, ClaimsInv, TypeOK
  <2>. QED
    BY <1>1, <1>3, <2>1, TablesKept DEF IInv, RunnerInv, DueInv
<1>5. RecordInv' /\ AnchorInv'
  BY <1>1, <1>2, DueTimesKept DEF IInv, DueInv, ClaimsInv
<1>. QED
  BY <1>2, <1>4, <1>5 DEF IInv, RunnerInv, DueInv

-----------------------------------------------------------------------------
(* What is owed for the executions of a row after a step.                   *)

LEMMA PaidTypes ==
  ASSUME TypeOK, WorkerInv, NEW j \in Job, NEW r \in Rows(j)
  PROVE  /\ IsFiniteSet(Loose(j, r)) /\ Cardinality(Loose(j, r)) \in Nat
         /\ One(Overdue(j, r)) \in 0 .. 1 /\ One(Settled(j, r)) \in 0 .. 1
         /\ runs[j][r].due \in Due
         /\ endings[j][runs[j][r].due] \in Nat
         /\ excuses[j][runs[j][r].due] \in Nat
<1>1. IsFiniteSet(Loose(j, r)) /\ Cardinality(Loose(j, r)) \in Nat
  BY FS_Subset, FS_CardinalityType DEF Loose, WorkerInv
<1>2. runs[j][r].due \in Due
  BY RowFacts DEF Row
<1>3. endings[j][runs[j][r].due] \in Nat /\ excuses[j][runs[j][r].due] \in Nat
  BY <1>2, BoundAssumption DEF TypeOK
<1>. QED
  BY <1>1, <1>2, <1>3 DEF One

LEMMA PaidChanges ==
  ASSUME TypeOK, WorkerInv, TypeOK', WorkerInv',
         NEW j \in Job, NEW r \in Rows(j), r \in Rows(j)',
         LET d == runs[j][r].due IN
         /\ runs'[j][r].due = d
         /\ endings'[j][d] + Cardinality(Loose(j, r)') + One(Overdue(j, r)')
              + excuses[j][d] + One(Settled(j, r))
            <= endings[j][d] + Cardinality(Loose(j, r)) + One(Overdue(j, r))
              + excuses'[j][d] + One(Settled(j, r)'),
         Paid(j, r)
  PROVE  Paid(j, r)'
<1>. DEFINE d == runs[j][r].due
            e == endings[j][d]
            l == Cardinality(Loose(j, r))
            o == One(Overdue(j, r))
            x == excuses[j][d]
            s == One(Settled(j, r))
            e1 == endings'[j][d]
            l1 == Cardinality(Loose(j, r)')
            o1 == One(Overdue(j, r)')
            x1 == excuses'[j][d]
            s1 == One(Settled(j, r)')
<1>1. /\ e \in Nat /\ l \in Nat /\ o \in Nat /\ x \in Nat /\ s \in Nat
      /\ e1 \in Nat /\ l1 \in Nat /\ o1 \in Nat /\ x1 \in Nat /\ s1 \in Nat
  <2>1. e \in Nat /\ l \in Nat /\ o \in Nat /\ x \in Nat /\ s \in Nat /\ d \in Due
    BY PaidTypes
  <2>2. e1 \in Nat /\ x1 \in Nat
    <3>1. endings' \in [Job -> [Due -> Nat]] /\ excuses' \in [Job -> [Due -> 0 .. MaxMishap]]
      BY DEF TypeOK
    <3>2. endings'[j][d] \in Nat /\ excuses'[j][d] \in 0 .. MaxMishap
      BY <2>1, <3>1
    <3>. QED
      BY <3>2
  <2>3. l1 \in Nat
    BY FS_Subset, FS_CardinalityType DEF Loose, WorkerInv
  <2>4. o1 \in Nat /\ s1 \in Nat
    BY DEF One
  <2>. QED
    BY <2>1, <2>2, <2>3, <2>4
<1>2. e1 + l1 + o1 + x + s <= e + l + o + x1 + s1
  OBVIOUS
<1>3. e + l + o <= x + s
  BY DEF Paid
<1>4. Paid(j, r)' <=> e1 + l1 + o1 <= x1 + s1
  BY DEF Paid
<1>. HIDE DEF e, l, o, x, s, e1, l1, o1, x1, s1
<1>. QED
  BY <1>1, <1>2, <1>3, <1>4

(* Nothing more is owed.                                                   *)
LEMMA PaidKept ==
  ASSUME TypeOK, WorkerInv, TypeOK', WorkerInv',
         NEW j \in Job, NEW r \in Rows(j), r \in Rows(j)',
         runs'[j][r].due = runs[j][r].due,
         endings'[j][runs[j][r].due] = endings[j][runs[j][r].due],
         excuses[j][runs[j][r].due] <= excuses'[j][runs[j][r].due],
         Loose(j, r)' \subseteq Loose(j, r),
         Overdue(j, r)' => Overdue(j, r),
         Settled(j, r) => Settled(j, r)',
         Paid(j, r)
  PROVE  Paid(j, r)'
<1>. DEFINE d == runs[j][r].due
            e == endings[j][d]
            l == Cardinality(Loose(j, r))
            x == excuses[j][d]
            l1 == Cardinality(Loose(j, r)')
            x1 == excuses'[j][d]
<1>1. /\ e \in Nat /\ l \in Nat /\ x \in Nat /\ d \in Due
      /\ IsFiniteSet(Loose(j, r))
  BY PaidTypes
<1>2. l1 \in Nat /\ l1 <= l
  BY <1>1, FS_Subset, FS_CardinalityType
<1>3. x1 \in Nat
  BY <1>1, BoundAssumption DEF TypeOK
<1>4. /\ One(Overdue(j, r)') <= One(Overdue(j, r))
      /\ One(Settled(j, r)) <= One(Settled(j, r)')
      /\ One(Overdue(j, r)) \in Nat /\ One(Settled(j, r)) \in Nat
      /\ One(Overdue(j, r)') \in Nat /\ One(Settled(j, r)') \in Nat
  BY DEF One
<1>. DEFINE o == One(Overdue(j, r))
            s == One(Settled(j, r))
            o1 == One(Overdue(j, r)')
            s1 == One(Settled(j, r)')
<1>5. e + l1 + o1 + x + s <= e + l + o + x1 + s1
  <2>1. x <= x1 /\ o1 <= o /\ s <= s1
        /\ o \in Nat /\ s \in Nat /\ o1 \in Nat /\ s1 \in Nat
    BY <1>4
  <2>. HIDE DEF e, l, o, x, s, l1, o1, x1, s1
  <2>. QED
    BY <1>1, <1>2, <1>3, <2>1
<1>. QED
  BY <1>5, PaidChanges


(* A row that is open is claimed again.                                    *)
LEMMA ReclaimStep ==
  ASSUME IInv, NEW s \in Scheduler, NEW j \in Job, NEW r, r \in Active(j), ~Busy(j),
         tick[s] # Idle, tick[s].stage = "reserved", j = tick[s].job,
         NEW a, a = runs[j][r].attempt + 1,
         NEW row \in Row, row.due = runs[j][r].due, row.status = "running",
         row.attempt = a, row.lease = "fresh", SetRow(j, r, row),
         Spawn(s, j, r, a),
         UNCHANGED <<last, installed, mode, listed, mishaps, history>>
  PROVE  IInv'
<1>0. TypeOK /\ WorkerInv
  BY DEF IInv, ClaimsInv
<1>1. /\ r \in Rows(j) /\ runs[j][r] \in Row /\ r \in 1 .. MaxRun
      /\ runs[j][r].status # "done"
  BY <1>0, RowFacts DEF Active
<1>2. ~(runs[j][r].status = "running" /\ runs[j][r].lease = "fresh")
  BY DEF Busy
<1>3. /\ runs[j][r].attempt \in Nat /\ runs[j][r].attempt <= mishaps
      /\ mishaps \in 0 .. MaxMishap /\ a \in Attempt /\ a \in Nat
      /\ runs[j][r].lease \in {"none", "expired"}
      /\ runs[j][r].lease = "expired" <=> runs[j][r].status = "running"
  <2>1. runs[j][r].attempt \in Nat /\ mishaps \in 0 .. MaxMishap /\ MaxMishap \in Nat
    BY <1>0, <1>1, BoundAssumption DEF TypeOK, Row, Attempt
  <2>2. /\ runs[j][r].attempt <= mishaps
        /\ runs[j][r].status = "running" <=> runs[j][r].lease # "none"
    BY <1>1, <1>2 DEF IInv, ClaimsInv, AttemptInv
  <2>3. runs[j][r].lease \in {"none", "fresh", "expired"}
    BY <1>1 DEF Row
  <2>4. a \in Attempt /\ a \in Nat
    BY <2>1, <2>2 DEF Attempt
  <2>. QED
    BY <1>2, <2>1, <2>2, <2>3, <2>4
<1>4. /\ row \in Row /\ row.due = runs[j][r].due /\ row.status = "running"
      /\ row.attempt = a /\ row.lease = "fresh"
  OBVIOUS
<1>6. /\ runs' \in [Job -> Seq(Row)]
      /\ \A i \in Job : Len(runs'[i]) = Len(runs[i]) /\ Rows(i)' = Rows(i)
      /\ \A i \in Job : \A q \in Rows(i) :
           runs'[i][q] = IF i = j /\ q = r THEN row ELSE runs[i][q]
  BY <1>0, <1>1, <1>4, RowChanges
<1>7. PICK x \in Worker :
        /\ x.host = s /\ x.job = j /\ x.run = r /\ x.attempt = a
        /\ x.phase \in {"admission", "executing"}
        /\ workers' = workers \cup {x} /\ workers' \subseteq Worker
        /\ SlotInv' /\ inflight' = inflight
        /\ tick' \in [Scheduler -> Tick \cup {Idle}]
        /\ tick'[s] = Idle
        /\ \A q \in Scheduler \ {s} : tick'[q] = tick[q]
  BY <1>0, <1>1, <1>3, SpawnSlots DEF IInv, RunnerInv
<1>8. UNCHANGED <<last, installed, mode, listed, mishaps, endings, excuses, overrun,
                  lost, endedBy>>
  BY DEF history
<1>9. TypeOK'
  BY <1>0, <1>6, <1>7, <1>8 DEF TypeOK
<1>10. \A w \in workers : /\ w.job \in Job /\ w.run \in Rows(w.job)
                           /\ w.attempt \in Nat /\ w.attempt <= runs[w.job][w.run].attempt
                           /\ runs[w.job][w.run].attempt \in Nat
  BY <1>0, WorkerType, BoundAssumption DEF WorkerInv, Attempt, Row
<1>11. \A w \in workers : w.job = j /\ w.run = r => w.attempt < a
  BY <1>3, <1>10
<1>12. WorkerInv'
  <2>1. IsFiniteSet(workers')
    BY <1>0, <1>7, FS_AddElement DEF WorkerInv
  <2>2. ASSUME NEW w \in workers'
        PROVE  w.run \in Rows(w.job)' /\ w.attempt <= runs'[w.job][w.run].attempt
    <3>1. CASE w = x
      BY <1>1, <1>3, <1>4, <1>6, <1>7, <3>1
    <3>2. CASE w \in workers
      <4>1. runs[w.job][w.run].attempt <= runs'[w.job][w.run].attempt
        <5>1. CASE w.job = j /\ w.run = r
          BY <1>1, <1>3, <1>4, <1>6, <5>1
        <5>2. CASE ~(w.job = j /\ w.run = r)
          BY <1>6, <1>10, <3>2, <5>2
        <5>. QED
          BY <5>1, <5>2
      <4>2. runs'[w.job][w.run].attempt \in Nat
        BY <1>3, <1>4, <1>6, <1>10, <3>2
      <4>. QED
        BY <1>6, <1>10, <3>2, <4>1, <4>2
    <3>. QED
      BY <1>7, <3>1, <3>2
  <2>3. ASSUME NEW v \in workers', NEW w \in workers',
               v.job = w.job, v.run = w.run, v.attempt = w.attempt
        PROVE  v = w
    <3>1. \A u \in workers : ~(u.job = j /\ u.run = r /\ u.attempt = a)
      BY <1>3, <1>10, <1>11
    <3>2. CASE v \in workers /\ w \in workers
      BY <1>0, <2>3, <3>2 DEF WorkerInv
    <3>3. CASE v = x \/ w = x
      BY <1>7, <2>3, <3>1, <3>3
    <3>. QED
      BY <1>7, <3>2, <3>3
  <2>. QED
    BY <2>1, <2>2, <2>3 DEF WorkerInv
<1>13. \A i \in Job : \A q \in Rows(i) :
         (i # j \/ q # r) => (Held(i, q)' <=> Held(i, q))
  BY <1>6, <1>7 DEF Held
<1>14. AttemptInv'
  <2>1. Held(j, r)'
    BY <1>1, <1>4, <1>6, <1>7 DEF Held, Live
  <2>2. row.attempt <= mishaps + 1
    BY <1>3, <1>4
  <2>3. \A i \in Job : \A q \in Rows(i) :
          (i # j \/ q # r) => runs'[i][q] = runs[i][q]
    BY <1>6
  <2>4. runs'[j][r] = row
    BY <1>1, <1>6
  <2>. QED
    BY <1>4, <1>6, <1>8, <1>13, <2>1, <2>2, <2>3, <2>4 DEF IInv, ClaimsInv, AttemptInv
<1>15. ExcuseInv'
  BY <1>8 DEF IInv, ClaimsInv, ExcuseInv
<1>16. \A i \in Job : Active(i)' = Active(i)
  <2>1. \A i \in Job : DOMAIN runs[i] = Rows(i) /\ (DOMAIN runs[i])' = Rows(i)'
    BY <1>0, <1>6, RowFacts DEF Rows
  <2>. QED
    BY <1>1, <1>4, <1>6, <2>1 DEF Active
<1>17. OneActive'
  BY <1>16 DEF IInv, ClaimsInv, OneActive
<1>18. \A w \in workers : w.job # j \/ w.run # r => (Holds(w)' <=> Holds(w))
  BY <1>6, <1>10 DEF Holds
<1>19. \A w \in workers : w.job = j /\ w.run = r => ~Holds(w)'
  <2>. SUFFICES ASSUME NEW w \in workers, w.job = j, w.run = r
                PROVE  ~Holds(w)'
    OBVIOUS
  <2>1. runs'[j][r] = row /\ row.attempt = a
    BY <1>1, <1>4, <1>6
  <2>2. w.attempt < a /\ w.attempt \in Nat /\ a \in Nat
    BY <1>3, <1>10, <1>11
  <2>3. w.attempt # a
    BY <2>2
  <2>. QED
    BY <2>1, <2>3 DEF Holds
<1>20. ClaimInv'
  <2>1. ASSUME NEW w \in workers, w.phase \in Live, w.job \notin overrun
        PROVE  Holds(w)' /\ runs'[w.job][w.run].lease = "fresh"
    <3>1. Holds(w) /\ runs[w.job][w.run].lease = "fresh"
      BY <2>1 DEF IInv, RunnerInv, ClaimInv
    <3>2. w.job # j \/ w.run # r
      BY <1>2, <3>1 DEF Holds
    <3>. QED
      BY <1>6, <1>10, <1>18, <3>1, <3>2
  <2>2. Holds(x)' /\ runs'[x.job][x.run].lease = "fresh"
    BY <1>1, <1>4, <1>6, <1>7 DEF Holds
  <2>. QED
    BY <1>7, <1>8, <2>1, <2>2 DEF ClaimInv
<1>21. /\ \A i \in Job : \A q \in Rows(i) : runs'[i][q].due = runs[i][q].due
       /\ \A i \in Job : \A q \in Rows(i) :
            runs[i][q].status = "done" => runs'[i][q] = runs[i][q]
       /\ \A i \in Job : \A q \in Rows(i) :
            runs'[i][q].status = "done" => runs'[i][q] = runs[i][q]
  BY <1>1, <1>4, <1>6
<1>26. \A q \in Scheduler : tick'[q] # Idle => tick'[q] = tick[q]
  BY <1>7
<1>22. RecordInv'
  <2>1. ASSUME NEW i \in Job, NEW q \in 1 .. MaxRun, Unused(i, q)
        PROVE  Unused(i, q)'
    <3>1. last'[i] # q
      BY <1>8, <2>1 DEF Unused
    <3>2. \A p \in Rows(i)' : runs'[i][p].due # q
      <4>1. \A p \in Rows(i) : runs[i][p].due # q /\ runs'[i][p].due = runs[i][p].due
        BY <1>21, <2>1 DEF Unused
      <4>. QED
        BY <1>6, <4>1
    <3>3. \A p \in Scheduler : tick'[p] # Idle /\ tick'[p].job = i => tick'[p].due # q
      BY <1>26, <2>1 DEF Unused
    <3>. QED
      BY <3>1, <3>2, <3>3 DEF Unused
  <2>2. \A i \in Job : \A q \in 1 .. MaxRun : Recorded(i, q) => Recorded(i, q)'
    BY <1>6, <1>21 DEF Recorded
  <2>3. ASSUME NEW w \in workers', w.phase = "recording"
        PROVE  /\ Unused(w.job, w.run)'
               /\ runs'[w.job][w.run].status = "done"
               /\ w.attempt = runs'[w.job][w.run].attempt
    <3>1. w \in workers
      BY <1>7, <2>3
    <3>2. w.run \in 1 .. MaxRun
      BY <1>0, <1>10, <3>1, RowFacts
    <3>. QED
      BY <1>10, <1>21, <2>1, <2>3, <3>1, <3>2 DEF IInv, DueInv, RecordInv
  <2>. QED
    BY <2>1, <2>2, <2>3 DEF IInv, DueInv, RecordInv
<1>23. LostInv'
  BY <1>6, <1>7, <1>8, <1>21 DEF IInv, DueInv, LostInv
<1>24. AnchorInv'
  <2>. SUFFICES ASSUME NEW i \in Anchored
                PROVE  /\ last'[i] <= Len(runs'[i])
                       /\ \A q \in Rows(i)' : runs'[i][q].due = q - 1
                       /\ \A q \in Scheduler : tick'[q] # Idle /\ tick'[q].job = i
                            => tick'[q].due \in 0 .. Len(runs'[i])
    BY DEF AnchorInv
  <2>1. i \in Job
    BY JobAssumption
  <2>2. /\ last[i] <= Len(runs[i])
        /\ \A q \in Rows(i) : runs[i][q].due = q - 1
        /\ \A q \in Scheduler : tick[q] # Idle /\ tick[q].job = i
             => tick[q].due \in 0 .. Len(runs[i])
    BY DEF IInv, DueInv, AnchorInv
  <2>3. last'[i] = last[i] /\ Len(runs'[i]) = Len(runs[i]) /\ Rows(i)' = Rows(i)
    BY <1>6, <1>8, <2>1
  <2>4. \A q \in Rows(i)' : runs'[i][q].due = q - 1
    BY <1>21, <2>1, <2>2, <2>3
  <2>5. \A q \in Scheduler : tick'[q] # Idle /\ tick'[q].job = i
          => tick'[q].due \in 0 .. Len(runs'[i])
    BY <1>26, <2>2, <2>3
  <2>. QED
    BY <2>2, <2>3, <2>4, <2>5
<1>27. /\ Cardinality(Loose(j, r)) \in Nat
       /\ One(Overdue(j, r)) \in Nat /\ One(Settled(j, r)) \in Nat
       /\ endings[j][runs[j][r].due] \in Nat
       /\ excuses[j][runs[j][r].due] \in Nat
  <2>1. r \in Rows(j)
    BY <1>1
  <2>2. One(Overdue(j, r)) \in Nat /\ One(Settled(j, r)) \in Nat
    BY DEF One
  <2>. QED
    BY <1>0, <2>1, <2>2, PaidTypes
<1>25. DebtInv'
  <2>1. ASSUME NEW i \in Job, NEW q \in Rows(i), runs[i][q].due # Now
        PROVE  Paid(i, q)'
    <3>1. Paid(i, q) /\ q \in Rows(i)' /\ runs'[i][q].due = runs[i][q].due
      BY <1>6, <1>21, <2>1 DEF IInv, DebtInv
    <3>2. CASE i # j \/ q # r
      <4>1. runs'[i][q] = runs[i][q]
        BY <1>6, <3>2
      <4>2. Loose(i, q)' \subseteq Loose(i, q)
        BY <1>7, <1>18, <3>2 DEF Loose
      <4>3. Overdue(i, q)' => Overdue(i, q)
        BY <1>13, <3>2, <4>1 DEF Overdue
      <4>4. Settled(i, q) => Settled(i, q)'
        BY <1>7, <1>18, <3>2, <4>1 DEF Settled
      <4>5. excuses[i][runs[i][q].due] <= excuses'[i][runs[i][q].due]
        BY <1>0, <1>8, PaidTypes
      <4>. QED
        BY <1>0, <1>8, <1>9, <1>12, <3>1, <4>2, <4>3, <4>4, <4>5, PaidKept
    <3>3. CASE i = j /\ q = r
      <4>. DEFINE l == Cardinality(Loose(j, r))
                  l1 == Cardinality(Loose(j, r)')
      <4>1. ~Overdue(j, r)'
        BY <1>1, <1>4, <1>6 DEF Overdue
      <4>2. Holds(x)'
        BY <1>1, <1>4, <1>6, <1>7 DEF Holds
      <4>3. /\ Loose(j, r)' \subseteq workers
            /\ \A w \in Loose(j, r)' :
                 \/ w \in Loose(j, r)
                 \/ w.job = j /\ w.run = r /\ w.phase \in Live /\ Holds(w)
        BY <1>7, <4>2 DEF Loose, Live
      <4>4. l1 + One(Settled(j, r)) <= l + One(Overdue(j, r))
        <5>1. CASE \E h \in workers :
                     h.job = j /\ h.run = r /\ h.phase \in Live /\ Holds(h)
          <6>1. PICK h \in workers :
                  h.job = j /\ h.run = r /\ h.phase \in Live /\ Holds(h)
            BY <5>1
          <6>2. \A w \in workers : w.job = j /\ w.run = r /\ Holds(w) => w = h
            BY <1>0, <6>1 DEF Holds, WorkerInv
          <6>3. Overdue(j, r)
            <7>1. runs[j][r].status = "running" /\ h.attempt = runs[j][r].attempt
              BY <6>1 DEF Holds
            <7>2. runs[j][r].lease = "expired"
              BY <1>3, <7>1
            <7>. QED
              BY <6>1, <7>1, <7>2 DEF Overdue, Held
          <6>4. CASE h.phase = "finishing"
            <7>1. Loose(j, r)' \subseteq Loose(j, r)
              BY <4>3, <6>2, <6>4 DEF Loose
            <7>2. l1 <= l /\ l1 \in Nat /\ l \in Nat
              BY <1>0, <1>1, <7>1, PaidTypes, FS_Subset, FS_CardinalityType
            <7>. QED
              BY <6>3, <7>2 DEF One
          <6>5. CASE h.phase # "finishing"
            <7>1. ~Settled(j, r)
              BY <1>1, <6>2, <6>5 DEF Settled
            <7>2. Loose(j, r)' \subseteq Loose(j, r) \cup {h}
              BY <4>3, <6>2
            <7>3. /\ IsFiniteSet(Loose(j, r)) /\ l \in Nat
                  /\ IsFiniteSet(Loose(j, r) \cup {h})
                  /\ Cardinality(Loose(j, r) \cup {h}) \in Nat
                  /\ Cardinality(Loose(j, r) \cup {h}) <= l + 1
              <8>1. IsFiniteSet(Loose(j, r)) /\ l \in Nat
                BY <1>0, <1>1, PaidTypes
              <8>2. /\ IsFiniteSet(Loose(j, r) \cup {h})
                    /\ \/ Cardinality(Loose(j, r) \cup {h}) = l
                       \/ Cardinality(Loose(j, r) \cup {h}) = l + 1
                BY <8>1, FS_AddElement
              <8>. HIDE DEF l
              <8>. QED
                BY <8>1, <8>2
            <7>4. l1 \in Nat /\ l1 <= Cardinality(Loose(j, r) \cup {h})
              BY <7>2, <7>3, FS_Subset, FS_CardinalityType
            <7>. HIDE DEF l, l1
            <7>. QED
              BY <6>3, <7>1, <7>3, <7>4 DEF One
          <6>. QED
            BY <6>4, <6>5
        <5>2. CASE ~\E h \in workers :
                     h.job = j /\ h.run = r /\ h.phase \in Live /\ Holds(h)
          <6>1. Loose(j, r)' \subseteq Loose(j, r) /\ ~Settled(j, r)
            BY <1>1, <4>3, <5>2 DEF Settled, Live
          <6>2. l1 <= l /\ l1 \in Nat /\ l \in Nat
            BY <1>0, <1>1, <6>1, PaidTypes, FS_Subset, FS_CardinalityType
          <6>. QED
            BY <6>1, <6>2 DEF One
        <5>. QED
          BY <5>1, <5>2
      <4>. DEFINE d == runs[j][r].due
                  e == endings[j][d]
                  z == excuses[j][d]
                  o == One(Overdue(j, r))
                  t == One(Settled(j, r))
                  t1 == One(Settled(j, r)')
                  o1 == One(Overdue(j, r)')
      <4>5. /\ e \in Nat /\ z \in Nat /\ o \in Nat /\ t \in Nat /\ l \in Nat
            /\ t1 \in Nat /\ o1 = 0 /\ l1 \in Nat
        <5>1. e \in Nat /\ z \in Nat /\ o \in Nat /\ t \in Nat /\ l \in Nat
          BY <1>27
        <5>2. t1 \in Nat /\ o1 = 0
          BY <4>1 DEF One
        <5>3. l1 \in Nat
          BY <1>12, FS_Subset, FS_CardinalityType DEF Loose, WorkerInv
        <5>. QED
          BY <5>1, <5>2, <5>3
      <4>6. e + l1 + o1 + z + t <= e + l + o + z + t1
        <5>1. l1 + t <= l + o
          BY <4>4
        <5>. HIDE DEF e, z, o, t, l, t1, o1, l1
        <5>. QED
          BY <4>5, <5>1
      <4>. QED
        BY <1>0, <1>1, <1>8, <1>9, <1>12, <3>1, <3>3, <4>6, PaidChanges
    <3>. QED
      BY <3>2, <3>3
  <2>2. ASSUME NEW i \in Job, NEW p \in Rows(i)', NEW q \in Rows(i)',
               runs'[i][p].due = runs'[i][q].due, runs'[i][p].due # Now
        PROVE  p = q
    <3>1. p \in Rows(i) /\ q \in Rows(i)
      BY <1>6
    <3>2. runs[i][p].due = runs[i][q].due /\ runs[i][p].due # Now
      BY <1>21, <2>2, <3>1
    <3>3. \A y, z \in Rows(i) :
            runs[i][y].due = runs[i][z].due /\ runs[i][y].due # Now => y = z
      BY DEF IInv, DebtInv
    <3>. QED
      BY <3>1, <3>2, <3>3
  <2>3. ASSUME NEW i \in Job, NEW d \in 0 .. MaxRun,
               \A q \in Rows(i)' : runs'[i][q].due # d
        PROVE  endings'[i][d] <= excuses'[i][d]
    <3>1. \A q \in Rows(i) : runs[i][q].due # d
      BY <1>6, <1>21, <2>3
    <3>2. endings[i][d] <= excuses[i][d]
      BY <3>1 DEF IInv, DebtInv
    <3>. QED
      BY <1>8, <3>2
  <2>4. ASSUME NEW i \in Job, NEW q \in Rows(i)', runs'[i][q].due # Now
        PROVE  Paid(i, q)'
    BY <1>6, <1>21, <2>1, <2>4
  <2>. QED
    BY <2>2, <2>3, <2>4 DEF DebtInv
<1>. QED
  BY <1>7, <1>9, <1>12, <1>14, <1>15, <1>17, <1>20, <1>22, <1>23, <1>24, <1>25
  DEF IInv, ClaimsInv, RunnerInv, DueInv

(* A row is inserted for a new due time.                                   *)
LEMMA InsertStep ==
  ASSUME IInv, NEW s \in Scheduler, NEW j \in Job, Active(j) = {},
         tick[s] # Idle, tick[s].stage = "reserved", j = tick[s].job,
         NEW due, due = tick[s].due, ~Taken(j, due),
         NEW n, n = Len(runs[j]) + 1, Len(runs[j]) < MaxRun,
         NEW row \in Row, row.due = due, row.status = "running",
         row.attempt = 1, row.lease = "fresh", AddRow(j, row),
         Spawn(s, j, n, 1),
         UNCHANGED <<last, installed, mode, listed, mishaps, history>>
  PROVE  IInv'
<1>0. TypeOK /\ WorkerInv
  BY DEF IInv, ClaimsInv
<1>1. due \in Due /\ (due # Now => \A r \in Rows(j) : runs[j][r].due # due)
  <2>1. tick[s] \in Tick
    BY <1>0 DEF TypeOK
  <2>2. DOMAIN runs[j] = Rows(j)
    BY <1>0, RowFacts
  <2>. QED
    BY <2>1, <2>2 DEF Taken, Tick
<1>2. /\ runs' \in [Job -> Seq(Row)]
      /\ \A i \in Job : Len(runs'[i]) <= MaxRun
      /\ Len(runs[j]) \in Nat /\ Len(runs'[j]) = n
      /\ Rows(j)' = Rows(j) \cup {n}
      /\ n \notin Rows(j)
      /\ \A i \in Job \ {j} : Len(runs'[i]) = Len(runs[i]) /\ Rows(i)' = Rows(i)
      /\ \A i \in Job : \A q \in Rows(i) : runs'[i][q] = runs[i][q]
      /\ runs'[j][n] = row
  BY <1>0, RowAdded
<1>3. n \in 1 .. MaxRun /\ 1 \in Attempt
  BY <1>2, BoundAssumption DEF Attempt
<1>4. PICK x \in Worker :
        /\ x.host = s /\ x.job = j /\ x.run = n /\ x.attempt = 1
        /\ x.phase \in {"admission", "executing"}
        /\ workers' = workers \cup {x} /\ workers' \subseteq Worker
        /\ SlotInv' /\ inflight' = inflight
        /\ tick' \in [Scheduler -> Tick \cup {Idle}]
        /\ tick'[s] = Idle
        /\ \A q \in Scheduler \ {s} : tick'[q] = tick[q]
  BY <1>0, <1>3, SpawnSlots DEF IInv, RunnerInv
<1>5. UNCHANGED <<last, installed, mode, listed, mishaps, endings, excuses, overrun,
                  lost, endedBy>>
  BY DEF history
<1>6. TypeOK'
  BY <1>0, <1>2, <1>4, <1>5 DEF TypeOK
<1>7. \A i \in Job : Rows(i) \subseteq Rows(i)'
  BY <1>2
<1>8. \A i \in Job : \A r \in Rows(i)' : r \in Rows(i) \/ (i = j /\ r = n)
  BY <1>2
<1>9. \A w \in workers : /\ w.job \in Job /\ w.run \in Rows(w.job)
                          /\ w.run \in 1 .. MaxRun /\ w.attempt \in Nat
                          /\ ~(w.job = j /\ w.run = n)
  BY <1>0, <1>2, WorkerType, RowFacts, BoundAssumption DEF Attempt
<1>10. WorkerInv'
  <2>1. IsFiniteSet(workers')
    BY <1>0, <1>4, FS_AddElement DEF WorkerInv
  <2>2. ASSUME NEW w \in workers'
        PROVE  w.run \in Rows(w.job)' /\ w.attempt <= runs'[w.job][w.run].attempt
    <3>1. CASE w = x
      <4>1. w.job = j /\ w.run = n /\ w.attempt = 1
        BY <1>4, <3>1
      <4>2. n \in Rows(j)' /\ runs'[j][n].attempt = 1
        BY <1>2
      <4>. QED
        BY <4>1, <4>2
    <3>2. CASE w \in workers
      BY <1>0, <1>2, <1>7, <1>9, <3>2 DEF WorkerInv
    <3>. QED
      BY <1>4, <3>1, <3>2
  <2>3. ASSUME NEW v \in workers', NEW w \in workers',
               v.job = w.job, v.run = w.run, v.attempt = w.attempt
        PROVE  v = w
    BY <1>0, <1>4, <1>9, <2>3 DEF WorkerInv
  <2>. QED
    BY <2>1, <2>2, <2>3 DEF WorkerInv
<1>11. \A i \in Job : \A q \in Rows(i) : Held(i, q) <=> Held(i, q)'
  BY <1>2, <1>4 DEF Held
<1>12. AttemptInv'
  <2>1. Held(j, n)'
    BY <1>2, <1>4 DEF Held, Live
  <2>2. 1 <= mishaps + 1
    BY <1>0, BoundAssumption DEF TypeOK
  <2>3. ASSUME NEW i \in Job, NEW q \in Rows(i)
        PROVE  /\ runs'[i][q].status = "running" <=> runs'[i][q].lease # "none"
               /\ runs'[i][q].attempt <= mishaps' + 1
               /\ \/ runs'[i][q].status = "done"
                  \/ runs'[i][q].status = "running" /\ runs'[i][q].lease = "fresh"
                      /\ Held(i, q)'
                  \/ runs'[i][q].attempt <= mishaps'
    BY <1>2, <1>5, <1>11 DEF IInv, ClaimsInv, AttemptInv
  <2>4. /\ runs'[j][n].status = "running" /\ runs'[j][n].lease = "fresh"
        /\ runs'[j][n].attempt <= mishaps' + 1
    BY <1>2, <1>5, <2>2
  <2>. QED
    BY <1>8, <2>1, <2>3, <2>4 DEF AttemptInv
<1>13. ExcuseInv'
  BY <1>5 DEF IInv, ClaimsInv, ExcuseInv
<1>14. OneActive'
  <2>1. \A i \in Job : DOMAIN runs[i] = Rows(i)
    BY <1>0, RowFacts
  <2>2. \A i \in Job : (DOMAIN runs[i])' = Rows(i)'
    BY <1>2 DEF Rows
  <2>3. \A i \in Job \ {j} : Active(i)' = Active(i)
    BY <1>2, <2>1, <2>2 DEF Active
  <2>4. Active(j)' \subseteq {n}
    BY <1>2, <2>1, <2>2 DEF Active
  <2>. QED
    BY <2>3, <2>4 DEF IInv, ClaimsInv, OneActive
<1>15. \A w \in workers : Holds(w)' <=> Holds(w)
  BY <1>2, <1>9 DEF Holds
<1>16. Holds(x)' /\ runs'[x.job][x.run].lease = "fresh"
  BY <1>2, <1>4 DEF Holds
<1>17. ClaimInv'
  <2>1. ASSUME NEW w \in workers, w.phase \in Live, w.job \notin overrun
        PROVE  Holds(w)' /\ runs'[w.job][w.run].lease = "fresh"
    BY <1>2, <1>9, <1>15, <2>1 DEF IInv, RunnerInv, ClaimInv
  <2>. QED
    BY <1>4, <1>5, <1>16, <2>1 DEF ClaimInv
<1>18. \A q \in Scheduler : tick'[q] # Idle => tick'[q] = tick[q]
  BY <1>4
<1>19. RecordInv'
  <2>1. ASSUME NEW i \in Job, NEW q \in 1 .. MaxRun, Unused(i, q)
        PROVE  Unused(i, q)'
    <3>1. last'[i] # q
      BY <1>5, <2>1 DEF Unused
    <3>2. ASSUME NEW p \in Rows(i)' PROVE runs'[i][p].due # q
      <4>1. CASE p \in Rows(i)
        BY <1>2, <2>1, <4>1 DEF Unused
      <4>2. CASE i = j /\ p = n
        BY <1>2, <2>1, <4>2 DEF Unused
      <4>. QED
        BY <1>8, <4>1, <4>2
    <3>3. \A p \in Scheduler : tick'[p] # Idle /\ tick'[p].job = i => tick'[p].due # q
      BY <1>18, <2>1 DEF Unused
    <3>. QED
      BY <3>1, <3>2, <3>3 DEF Unused
  <2>2. \A i \in Job : \A q \in 1 .. MaxRun : Recorded(i, q) => Recorded(i, q)'
    BY <1>2, <1>7 DEF Recorded
  <2>3. ASSUME NEW w \in workers', w.phase = "recording"
        PROVE  /\ Unused(w.job, w.run)'
               /\ runs'[w.job][w.run].status = "done"
               /\ w.attempt = runs'[w.job][w.run].attempt
    <3>1. w \in workers
      BY <1>4, <2>3
    <3>. QED
      BY <1>2, <1>9, <2>1, <2>3, <3>1 DEF IInv, DueInv, RecordInv
  <2>. QED
    BY <2>1, <2>2, <2>3 DEF IInv, DueInv, RecordInv
<1>20. LostInv'
  <2>. SUFFICES ASSUME NEW i \in Job, NEW q \in Rows(i)',
                       runs'[i][q].status = "done", runs'[i][q].due = last'[i]
                PROVE  \/ i \in lost'
                       \/ \E w \in workers' : w.job = i /\ w.run = q /\ w.phase = "recording"
    BY DEF LostInv
  <2>1. q \in Rows(i)
    BY <1>2, <1>8
  <2>. QED
    BY <1>2, <1>4, <1>5, <2>1 DEF IInv, DueInv, LostInv
<1>21. AnchorInv'
  <2>. SUFFICES ASSUME NEW i \in Anchored
                PROVE  /\ last'[i] <= Len(runs'[i])
                       /\ \A q \in Rows(i)' : runs'[i][q].due = q - 1
                       /\ \A q \in Scheduler : tick'[q] # Idle /\ tick'[q].job = i
                            => tick'[q].due \in 0 .. Len(runs'[i])
    BY DEF AnchorInv
  <2>1. i \in Job
    BY JobAssumption
  <2>2. /\ last[i] <= Len(runs[i]) /\ last[i] \in Nat
        /\ Len(runs[i]) \in Nat /\ Len(runs[i]) <= MaxRun
        /\ \A q \in Rows(i) : runs[i][q].due = q - 1
        /\ \A q \in Scheduler : tick[q] # Idle /\ tick[q].job = i
             => tick[q].due \in 0 .. Len(runs[i])
    BY <1>0, <2>1, RowFacts, BoundAssumption DEF IInv, DueInv, AnchorInv, TypeOK
  <2>3. /\ Len(runs'[i]) \in Nat /\ Len(runs[i]) <= Len(runs'[i])
    BY <1>2, <2>1, <2>2
  <2>4. i = j => due = n - 1
    <3>. SUFFICES ASSUME i = j PROVE due = n - 1
      OBVIOUS
    <3>1. due \in 0 .. Len(runs[j])
      BY <2>2
    <3>2. due # Now
      BY <2>2, <3>1, ValueAssumption, BoundAssumption
    <3>3. CASE due < Len(runs[j])
      <4>1. due + 1 \in Rows(j)
        BY <2>2, <3>1, <3>3 DEF Rows
      <4>2. runs[j][due + 1].due = due
        BY <2>2, <3>1, <4>1
      <4>. QED
        BY <1>1, <3>2, <4>1, <4>2
    <3>. QED
      BY <1>2, <3>1, <3>3
  <2>5. ASSUME NEW q \in Rows(i)' PROVE runs'[i][q].due = q - 1
    <3>1. CASE q \in Rows(i)
      BY <1>2, <2>1, <2>2, <3>1
    <3>2. CASE i = j /\ q = n
      BY <1>2, <2>4, <3>2
    <3>. QED
      BY <1>8, <2>1, <3>1, <3>2
  <2>6. \A q \in Scheduler : tick'[q] # Idle /\ tick'[q].job = i
          => tick'[q].due \in 0 .. Len(runs'[i])
    BY <1>18, <2>2, <2>3
  <2>. QED
    BY <1>5, <2>2, <2>3, <2>5, <2>6
<1>22. DebtInv'
  <2>1. ASSUME NEW i \in Job, NEW p \in Rows(i)', NEW q \in Rows(i)',
               runs'[i][p].due = runs'[i][q].due, runs'[i][p].due # Now
        PROVE  p = q
    <3>1. CASE p \in Rows(i) /\ q \in Rows(i)
      <4>1. runs'[i][p] = runs[i][p] /\ runs'[i][q] = runs[i][q]
        BY <1>2, <3>1
      <4>. QED
        BY <2>1, <3>1, <4>1 DEF IInv, DebtInv
    <3>2. CASE p \notin Rows(i)
      <4>1. i = j /\ p = n /\ runs'[i][p].due = due
        BY <1>2, <1>8, <3>2
      <4>2. q \notin Rows(i)
        BY <1>1, <1>2, <2>1, <4>1
      <4>. QED
        BY <1>8, <4>1, <4>2
    <3>3. CASE q \notin Rows(i)
      <4>1. i = j /\ q = n /\ runs'[i][q].due = due
        BY <1>2, <1>8, <3>3
      <4>2. p \notin Rows(i)
        BY <1>1, <1>2, <2>1, <4>1
      <4>. QED
        BY <1>8, <4>1, <4>2
    <3>. QED
      BY <3>1, <3>2, <3>3
  <2>2. ASSUME NEW i \in Job, NEW d \in 0 .. MaxRun,
               \A q \in Rows(i)' : runs'[i][q].due # d
        PROVE  endings'[i][d] <= excuses'[i][d]
    <3>1. \A q \in Rows(i) : runs[i][q].due # d
      BY <1>2, <1>7, <2>2
    <3>2. endings[i][d] <= excuses[i][d]
      BY <3>1 DEF IInv, DebtInv
    <3>. QED
      BY <1>5, <3>2
  <2>3. ASSUME NEW i \in Job, NEW q \in Rows(i), runs[i][q].due # Now
        PROVE  Paid(i, q)'
    <3>1. Paid(i, q) /\ q \in Rows(i)' /\ runs'[i][q] = runs[i][q]
      BY <1>2, <1>7, <2>3 DEF IInv, DebtInv
    <3>2. Loose(i, q)' \subseteq Loose(i, q)
      BY <1>4, <1>15, <1>16 DEF Loose
    <3>3. Overdue(i, q)' => Overdue(i, q)
      BY <1>11, <3>1 DEF Overdue
    <3>4. Settled(i, q) => Settled(i, q)'
      BY <1>4, <1>15, <3>1 DEF Settled
    <3>5. excuses[i][runs[i][q].due] <= excuses'[i][runs[i][q].due]
      BY <1>0, <1>5, PaidTypes
    <3>. QED
      BY <1>0, <1>5, <1>6, <1>10, <3>1, <3>2, <3>3, <3>4, <3>5, PaidKept
  <2>4. due # Now => Paid(j, n)'
    <3>. SUFFICES ASSUME due # Now PROVE Paid(j, n)'
      OBVIOUS
    <3>1. due \in 0 .. MaxRun
      BY <1>1 DEF Due
    <3>2. endings[j][due] <= excuses[j][due]
      BY <1>1, <3>1 DEF IInv, DebtInv
    <3>3. Loose(j, n)' = {}
      BY <1>4, <1>9, <1>16 DEF Loose
    <3>4. ~Overdue(j, n)'
      BY <1>2 DEF Overdue
    <3>5. endings[j][due] \in Nat /\ excuses[j][due] \in Nat
      BY <1>0, <1>1, BoundAssumption DEF TypeOK
    <3>6. Cardinality(Loose(j, n)') = 0 /\ One(Overdue(j, n)') = 0
          /\ One(Settled(j, n)') \in Nat
      BY <3>3, <3>4, FS_EmptySet DEF One
    <3>7. Paid(j, n)' <=> endings[j][due] + 0 + 0 <= excuses[j][due] + One(Settled(j, n)')
      BY <1>2, <1>5, <3>6 DEF Paid
    <3>. QED
      BY <3>2, <3>5, <3>6, <3>7
  <2>5. ASSUME NEW i \in Job, NEW q \in Rows(i)', runs'[i][q].due # Now
        PROVE  Paid(i, q)'
    BY <1>2, <1>8, <2>3, <2>4, <2>5
  <2>. QED
    BY <2>1, <2>2, <2>5 DEF DebtInv
<1>. QED
  BY <1>4, <1>6, <1>10, <1>12, <1>13, <1>14, <1>17, <1>19, <1>20, <1>21, <1>22
  DEF IInv, ClaimsInv, RunnerInv, DueInv

LEMMA ClaimStep ==
  ASSUME IInv, NEW s \in Scheduler, Claim(s)
  PROVE  IInv'
<1>0. TypeOK
  BY DEF IInv, ClaimsInv
<1>1. PICK t \in Tick : t = tick[s] /\ tick[s] # Idle /\ tick[s].stage = "reserved"
  BY <1>0 DEF Claim, TypeOK
<1>2. PICK j \in Job : j = tick[s].job
  BY <1>1 DEF Tick
<1>3. PICK due \in Due : due = tick[s].due
  BY <1>1 DEF Tick
<1>4. UNCHANGED <<last, installed, mode, listed, mishaps, history>>
  BY DEF Claim
<1>5. CASE PutBack(s) /\ UNCHANGED runs
  BY <1>1, <1>4, <1>5, RefusedStep DEF history
<1>6. ASSUME NEW r \in Active(j), ~Busy(j),
             runs' = [runs EXCEPT ![j][r] = [@ EXCEPT !.status = "running",
                                                      !.attempt = runs[j][r].attempt + 1,
                                                      !.lease = "fresh"]],
             Spawn(s, j, r, runs[j][r].attempt + 1)
      PROVE  IInv'
  <2>1. PICK a : a = runs[j][r].attempt + 1
    OBVIOUS
  <2>2. PICK row : row = [runs[j][r] EXCEPT !.status = "running", !.attempt = a,
                                           !.lease = "fresh"]
    OBVIOUS
  <2>3. runs[j][r] \in Row /\ r \in Rows(j)
    BY <1>0, RowFacts DEF Active
  <2>4. a \in Attempt
    <3>1. runs[j][r].attempt \in Nat /\ mishaps \in 0 .. MaxMishap
      BY <1>0, <2>3, BoundAssumption DEF TypeOK, Row, Attempt
    <3>2. runs[j][r].attempt <= mishaps
      BY <1>6, <2>3 DEF IInv, ClaimsInv, AttemptInv, Busy, Active
    <3>. QED
      BY <2>1, <3>1, <3>2, BoundAssumption DEF Attempt
  <2>5. /\ row \in Row /\ row.due = runs[j][r].due /\ row.status = "running"
        /\ row.attempt = a /\ row.lease = "fresh"
    BY <2>2, <2>3, <2>4 DEF Row
  <2>6. SetRow(j, r, row)
    BY <1>6, <2>1, <2>2 DEF SetRow
  <2>7. Spawn(s, j, r, a)
    BY <1>6, <2>1
  <2>. QED
    BY <1>1, <1>2, <1>4, <1>6, <2>1, <2>5, <2>6, <2>7, ReclaimStep
<1>7. ASSUME Active(j) = {}, ~Taken(j, due), Len(runs[j]) < MaxRun,
             runs' = [runs EXCEPT ![j] = Append(@, [due |-> due, status |-> "running",
                                                    attempt |-> 1, lease |-> "fresh"])],
             Spawn(s, j, Len(runs[j]) + 1, 1)
      PROVE  IInv'
  <2>1. PICK row : row = [due |-> due, status |-> "running", attempt |-> 1,
                          lease |-> "fresh"]
    OBVIOUS
  <2>2. /\ row \in Row /\ row.due = due /\ row.status = "running"
        /\ row.attempt = 1 /\ row.lease = "fresh"
    BY <2>1, BoundAssumption DEF Row, Attempt
  <2>3. AddRow(j, row)
    BY <1>7, <2>1 DEF AddRow
  <2>4. PICK n : n = Len(runs[j]) + 1
    OBVIOUS
  <2>. QED
    BY <1>1, <1>2, <1>3, <1>4, <1>7, <2>2, <2>3, <2>4, InsertStep
<1>. QED
  BY <1>2, <1>3, <1>5, <1>6, <1>7 DEF Claim

-----------------------------------------------------------------------------
(* The goroutine of a claim takes a step.                                   *)

(* Worker w goes on as x, or leaves.                                       *)
Moves(w, x) ==
  /\ x.host = w.host /\ x.job = w.job /\ x.run = w.run /\ x.attempt = w.attempt
  /\ workers \ {w} \subseteq workers'
  /\ workers' \subseteq (workers \ {w}) \cup {x}
  /\ x.phase # "exiting" => x \in workers'
  /\ IsFiniteSet(workers')

LEMMA BecomeMoves ==
  ASSUME TypeOK, WorkerInv, SlotInv, NEW w \in workers, NEW phase, Become(w, phase),
         phase \in {"admission", "executing", "finishing", "recording",
                    "deleting", "exiting"}
  PROVE  \E x \in Worker :
           /\ Moves(w, x) /\ x.phase = phase /\ x \in workers'
           /\ workers' \subseteq Worker
           /\ UNCHANGED <<tick, inflight>> => SlotInv'
<1>1. PICK x \in Worker :
        /\ x.host = w.host /\ x.job = w.job /\ x.run = w.run
        /\ x.attempt = w.attempt /\ x.phase = phase
        /\ workers' = (workers \ {w}) \cup {x}
        /\ workers' \subseteq Worker
        /\ IsFiniteSet(workers')
  BY WorkerMoves
<1>2. Moves(w, x)
  BY <1>1 DEF Moves
<1>3. UNCHANGED <<tick, inflight>> => SlotInv'
  BY <1>1 DEF SlotInv
<1>. QED
  BY <1>1, <1>2, <1>3

(* The claims, when the table stays as it is.                              *)
LEMMA StayClaims ==
  ASSUME ClaimsInv, ClaimInv, TypeOK', NEW w \in workers, NEW x, Moves(w, x),
         UNCHANGED <<runs, overrun>>,
         mishaps <= mishaps', ExcuseInv',
         x.phase \in Live => w.phase \in Live,
         w.phase \in Live /\ x.phase \notin Live /\ Holds(w) => mishaps < mishaps'
  PROVE  ClaimsInv' /\ ClaimInv'
<1>0. TypeOK /\ WorkerInv
  BY DEF ClaimsInv
<1>1. \A i \in Job : Rows(i)' = Rows(i)
  BY DEF Rows
<1>2. mishaps \in Nat /\ mishaps' \in Nat
  BY <1>0, BoundAssumption DEF TypeOK
<1>3. WorkerInv'
  <2>1. ASSUME NEW v \in workers'
        PROVE  v.run \in Rows(v.job)' /\ v.attempt <= runs'[v.job][v.run].attempt
    BY <1>0, <1>1, WorkerType DEF WorkerInv, Moves
  <2>2. ASSUME NEW u \in workers', NEW v \in workers',
               u.job = v.job, u.run = v.run, u.attempt = v.attempt
        PROVE  u = v
    BY <1>0, <2>2 DEF WorkerInv, Moves
  <2>. QED
    BY <2>1, <2>2 DEF WorkerInv, Moves
<1>4. AttemptInv'
  <2>. SUFFICES ASSUME NEW i \in Job, NEW q \in Rows(i)
                PROVE  /\ runs[i][q].status = "running" <=> runs[i][q].lease # "none"
                       /\ runs[i][q].attempt <= mishaps' + 1
                       /\ \/ runs[i][q].status = "done"
                          \/ runs[i][q].status = "running" /\ runs[i][q].lease = "fresh"
                              /\ Held(i, q)'
                          \/ runs[i][q].attempt <= mishaps'
    BY <1>1 DEF AttemptInv
  <2>1. /\ runs[i][q].status = "running" <=> runs[i][q].lease # "none"
        /\ runs[i][q].attempt <= mishaps + 1
        /\ \/ runs[i][q].status = "done"
           \/ runs[i][q].status = "running" /\ runs[i][q].lease = "fresh" /\ Held(i, q)
           \/ runs[i][q].attempt <= mishaps
    BY DEF ClaimsInv, AttemptInv
  <2>2. runs[i][q].attempt \in Nat
    BY <1>0, RowFacts, BoundAssumption DEF Row, Attempt
  <2>3. CASE mishaps < mishaps'
    BY <1>2, <2>1, <2>2, <2>3
  <2>4. CASE ~(mishaps < mishaps')
    <3>1. mishaps' = mishaps
      BY <1>2, <2>4
    <3>2. ASSUME Held(i, q), runs[i][q].status = "running" PROVE Held(i, q)'
      <4>1. PICK v \in workers : /\ v.job = i /\ v.run = q /\ v.phase \in Live
                                 /\ v.attempt = runs[i][q].attempt
        BY <3>2 DEF Held
      <4>2. CASE v = w
        <5>1. Holds(w)
          BY <3>2, <4>1, <4>2 DEF Holds
        <5>2. x.phase \in Live
          BY <2>4, <4>1, <4>2, <5>1
        <5>. QED
          BY <4>1, <4>2, <5>2 DEF Held, Moves, Live
      <4>3. CASE v # w
        BY <4>1, <4>3 DEF Held, Moves
      <4>. QED
        BY <4>2, <4>3
    <3>. QED
      BY <2>1, <3>1, <3>2
  <2>. QED
    BY <2>3, <2>4
<1>5. OneActive'
  BY DEF ClaimsInv, OneActive, Active
<1>6. ClaimInv'
  BY DEF ClaimInv, Holds, Moves
<1>. QED
  BY <1>3, <1>4, <1>5, <1>6 DEF ClaimsInv

(* What the workers owe, when the table stays as it is and no claim ends.    *)
LEMMA StayDebt ==
  ASSUME IInv, TypeOK', WorkerInv', NEW w \in workers, NEW x, Moves(w, x),
         UNCHANGED <<runs, endings, excuses>>,
         x.phase \notin {"admission", "executing"},
         x.phase \in Live => w.phase \in Live,
         ~(w.phase = "finishing" /\ Holds(w))
  PROVE  DebtInv'
<1>0. TypeOK /\ WorkerInv
  BY DEF IInv, ClaimsInv
<1>1. \A i \in Job : Rows(i)' = Rows(i)
  BY DEF Rows
<1>2. \A v \in workers : Holds(v)' <=> Holds(v)
  BY DEF Holds
<1>3. ASSUME NEW i \in Job, NEW q \in Rows(i), runs[i][q].due # Now
      PROVE  Paid(i, q)'
  <2>1. Paid(i, q)
    BY <1>3 DEF IInv, DebtInv
  <2>2. Loose(i, q)' \subseteq Loose(i, q)
    BY <1>2 DEF Loose, Moves
  <2>3. Overdue(i, q)' => Overdue(i, q)
    BY DEF Overdue, Held, Moves
  <2>4. Settled(i, q) => Settled(i, q)'
    <3>1. ASSUME NEW v \in workers, v.job = i /\ v.run = q /\ v.phase = "finishing" /\ Holds(v)
          PROVE  v \in workers'
      BY <3>1 DEF Moves
    <3>. QED
      BY <1>2, <3>1 DEF Settled
  <2>5. excuses[i][runs[i][q].due] <= excuses'[i][runs[i][q].due]
    BY <1>0, PaidTypes
  <2>. QED
    BY <1>0, <1>1, <2>1, <2>2, <2>3, <2>4, <2>5, PaidKept
<1>4. \A i \in Job : \A p, q \in Rows(i)' :
        runs'[i][p].due = runs'[i][q].due /\ runs'[i][p].due # Now => p = q
  BY <1>1 DEF IInv, DebtInv
<1>5. \A i \in Job : \A d \in 0 .. MaxRun :
        (\A q \in Rows(i)' : runs'[i][q].due # d) => endings'[i][d] <= excuses'[i][d]
  BY <1>1 DEF IInv, DebtInv
<1>. QED
  BY <1>1, <1>3, <1>4, <1>5 DEF DebtInv

(* Due times, when table, last_run_at and ticks stay as they are.            *)
LEMMA StayDue ==
  ASSUME IInv, NEW w \in workers, NEW x, Moves(w, x),
         UNCHANGED <<runs, last, tick>>,
         x.phase # "recording",
         lost \subseteq lost',
         w.phase = "recording" => w.job \in lost'
  PROVE  DueInv'
<1>0. TypeOK /\ WorkerInv
  BY DEF IInv, ClaimsInv
<1>1. \A i \in Job : Rows(i)' = Rows(i)
  BY DEF Rows
<1>2. \A i \in Job : \A q : Unused(i, q)' <=> Unused(i, q)
  BY DEF Unused, Rows
<1>3. \A i \in Job : \A q : Recorded(i, q)' <=> Recorded(i, q)
  BY DEF Recorded, Rows
<1>4. RecordInv'
  <2>1. \A v \in workers : v.job \in Job
    BY <1>0, WorkerType
  <2>. QED
    BY <1>2, <1>3, <2>1 DEF IInv, DueInv, RecordInv, Moves
<1>5. LostInv'
  BY <1>1 DEF IInv, DueInv, LostInv, Moves
<1>6. AnchorInv'
  BY DEF IInv, DueInv, AnchorInv, Rows
<1>. QED
  BY <1>4, <1>5, <1>6 DEF DueInv

LEMMA MishapGrows ==
  ASSUME ClaimsInv, mishaps' = mishaps \/ Mishap, UNCHANGED excuses
  PROVE  /\ mishaps' \in 0 .. MaxMishap /\ mishaps <= mishaps'
         /\ Mishap => mishaps < mishaps'
         /\ ExcuseInv'
<1>1. /\ mishaps \in Nat /\ mishaps' \in 0 .. MaxMishap /\ mishaps <= mishaps'
      /\ Mishap => mishaps < mishaps'
  BY BoundAssumption DEF Mishap, ClaimsInv, TypeOK
<1>2. \A i \in Job : \A d \in Due : excuses[i][d] \in Nat
  BY BoundAssumption DEF ClaimsInv, TypeOK
<1>. QED
  BY <1>1, <1>2 DEF ClaimsInv, ExcuseInv

(* The steps after the execution, and a panic.                             *)
LEMMA PanicsStep ==
  ASSUME IInv, NEW w \in workers, Panics(w)
  PROVE  IInv'
<1>0. TypeOK /\ WorkerInv /\ SlotInv
  BY DEF IInv, ClaimsInv, RunnerInv
<1>1. /\ w.phase = "executing" /\ Mishap
      /\ UNCHANGED <<runs, last, installed, mode, listed, tick, inflight, endings, excuses,
                     overrun, lost, endedBy>>
  BY DEF Panics, store, instances, history
<1>2. PICK x \in Worker : /\ Moves(w, x) /\ x.phase = "exiting" /\ workers' \subseteq Worker
                          /\ SlotInv'
  BY <1>0, <1>1, BecomeMoves DEF Panics
<1>3. mishaps < mishaps' /\ mishaps <= mishaps' /\ mishaps' \in 0 .. MaxMishap /\ ExcuseInv'
  BY <1>1, MishapGrows DEF IInv
<1>4. TypeOK'
  BY <1>0, <1>1, <1>2, <1>3 DEF TypeOK
<1>6. ClaimsInv' /\ ClaimInv'
  BY <1>1, <1>2, <1>3, <1>4, StayClaims DEF IInv, RunnerInv, Live
<1>7. DebtInv'
  BY <1>1, <1>2, <1>4, <1>6, StayDebt DEF Live, ClaimsInv
<1>8. DueInv'
  BY <1>1, <1>2, StayDue
<1>. QED
  BY <1>2, <1>6, <1>7, <1>8 DEF IInv, RunnerInv

(* Finish and AdmissionBusy by a worker that has lost its claim, RecordFails  *)
(* and DeleteSkill.                                                        *)
LEMMA GoOnStep ==
  ASSUME IInv, NEW w \in workers,
         \/ (Finish(w) \/ AdmissionBusy(w)) /\ ~Holds(w)
         \/ RecordFails(w)
         \/ DeleteSkill(w)
  PROVE  IInv'
<1>0. TypeOK /\ WorkerInv /\ SlotInv /\ ClaimsInv
  BY DEF IInv, ClaimsInv, RunnerInv
<1>1. /\ w.phase \in {"admission", "finishing", "recording", "deleting"}
      /\ w.phase \in {"admission", "finishing"} => ~Holds(w)
      /\ w.phase = "recording" => w.job \in lost'
      /\ lost \subseteq lost' /\ lost' \subseteq lost \cup {w.job}
      /\ installed' \subseteq installed
      /\ mishaps' = mishaps \/ Mishap
      /\ UNCHANGED <<runs, last, mode, listed, tick, inflight, endings, excuses, overrun,
                     endedBy>>
  BY DEF Finish, AdmissionBusy, RecordFails, DeleteSkill, store, instances, history
<1>2. PICK phase \in {"deleting", "exiting"} : Become(w, phase)
  BY DEF Finish, AdmissionBusy, RecordFails, DeleteSkill, AfterRecord
<1>3. PICK x \in Worker : /\ Moves(w, x) /\ x.phase \in {"deleting", "exiting"}
                          /\ workers' \subseteq Worker /\ SlotInv'
  BY <1>0, <1>1, <1>2, BecomeMoves
<1>4. mishaps <= mishaps' /\ mishaps' \in 0 .. MaxMishap /\ ExcuseInv'
  BY <1>0, <1>1, MishapGrows
<1>5. TypeOK'
  <2>1. w.job \in Job
    BY <1>0, WorkerType
  <2>. QED
    BY <1>0, <1>1, <1>3, <1>4, <2>1 DEF TypeOK
<1>6. ClaimsInv' /\ ClaimInv'
  BY <1>0, <1>1, <1>3, <1>4, <1>5, StayClaims DEF IInv, RunnerInv, Live
<1>7. DebtInv'
  BY <1>1, <1>3, <1>5, <1>6, StayDebt DEF Live, ClaimsInv
<1>8. DueInv'
  BY <1>1, <1>3, StayDue
<1>. QED
  BY <1>3, <1>6, <1>7, <1>8 DEF IInv, RunnerInv

LEMMA ExitStep ==
  ASSUME IInv, NEW w \in workers, Exit(w)
  PROVE  IInv'
<1>0. TypeOK /\ WorkerInv /\ SlotInv /\ ClaimsInv
  BY DEF IInv, ClaimsInv, RunnerInv
<1>1. /\ w.phase = "exiting" /\ workers' = workers \ {w}
      /\ inflight' = [inflight EXCEPT ![w.host] = @ \ {w.job}]
      /\ UNCHANGED <<runs, last, installed, mode, listed, tick, mishaps, endings, excuses,
                     overrun, lost, endedBy>>
  BY DEF Exit, store, history
<1>2. w \in Worker /\ w.host \in Scheduler /\ w.job \in Job
  BY <1>0, WorkerType
<1>3. Moves(w, w)
  BY <1>0, <1>1, FS_RemoveElement DEF Moves, WorkerInv
<1>4. \A s \in Scheduler :
        inflight'[s] = IF s = w.host THEN inflight[s] \ {w.job} ELSE inflight[s]
  BY <1>0, <1>1 DEF TypeOK
<1>5. mishaps <= mishaps' /\ mishaps' \in 0 .. MaxMishap /\ ExcuseInv'
  BY <1>0, <1>1, MishapGrows
<1>6. TypeOK'
  <2>1. inflight' \in [Scheduler -> SUBSET Job]
    BY <1>0, <1>1 DEF TypeOK
  <2>. QED
    BY <1>0, <1>1, <1>5, <2>1 DEF TypeOK
<1>7. SlotInv'
  <2>1. ASSUME NEW s \in Scheduler
        PROVE  IsFiniteSet(inflight'[s]) /\ Cardinality(inflight'[s]) <= Slots
    <3>1. /\ IsFiniteSet(inflight[s]) /\ Cardinality(inflight[s]) <= Slots
          /\ inflight'[s] \subseteq inflight[s]
      BY <1>0, <1>4 DEF SlotInv
    <3>2. /\ IsFiniteSet(inflight'[s]) /\ Cardinality(inflight[s]) \in Nat
          /\ Cardinality(inflight'[s]) \in Nat
          /\ Cardinality(inflight'[s]) <= Cardinality(inflight[s])
      BY <3>1, FS_Subset, FS_CardinalityType
    <3>. QED
      BY <3>1, <3>2, BoundAssumption
  <2>2. ASSUME NEW v \in workers' PROVE v.job \in inflight'[v.host]
    <3>1. v \in workers /\ v.host \in Scheduler /\ v.job \in inflight[v.host]
      BY <1>0, <1>1, WorkerType DEF SlotInv
    <3>2. ~(v.host = w.host /\ v.job = w.job)
      BY <1>0, <1>1 DEF SlotInv
    <3>. QED
      BY <1>4, <3>1, <3>2
  <2>3. ASSUME NEW s \in Scheduler, tick'[s] # Idle, tick'[s].stage = "reserved"
        PROVE  /\ tick'[s].job \in inflight'[s]
               /\ \A v \in workers' : ~(v.host = s /\ v.job = tick'[s].job)
    <3>1. /\ tick[s].job \in inflight[s]
          /\ \A v \in workers : ~(v.host = s /\ v.job = tick[s].job)
      BY <1>0, <1>1, <2>3 DEF SlotInv
    <3>. QED
      BY <1>1, <1>4, <3>1
  <2>. QED
    BY <1>0, <1>1, <2>1, <2>2, <2>3 DEF SlotInv
<1>8. ClaimsInv' /\ ClaimInv'
  BY <1>0, <1>1, <1>3, <1>5, <1>6, StayClaims DEF IInv, RunnerInv, Live
<1>9. DebtInv'
  BY <1>1, <1>3, <1>6, <1>8, StayDebt DEF Live, ClaimsInv
<1>10. DueInv'
  BY <1>1, <1>3, StayDue
<1>. QED
  BY <1>7, <1>8, <1>9, <1>10 DEF IInv, RunnerInv

(* setLastRunFromScheduledRun.                                             *)
LEMMA RecordStep ==
  ASSUME IInv, NEW w \in workers, Record(w)
  PROVE  IInv'
<1>0. TypeOK /\ WorkerInv /\ SlotInv /\ ClaimsInv
  BY DEF IInv, ClaimsInv, RunnerInv
<1>1. /\ w.phase = "recording" /\ last' = [last EXCEPT ![w.job] = w.run]
      /\ UNCHANGED <<runs, installed, mode, listed, tick, inflight, mishaps, endings, excuses,
                     overrun, lost, endedBy>>
  BY DEF Record, instances, history
<1>2. PICK x \in Worker : /\ Moves(w, x) /\ x.phase \in {"deleting", "exiting"}
                          /\ workers' \subseteq Worker /\ SlotInv'
  BY <1>0, <1>1, BecomeMoves DEF Record, AfterRecord
<1>3. mishaps <= mishaps' /\ mishaps' \in 0 .. MaxMishap /\ ExcuseInv'
  BY <1>0, <1>1, MishapGrows
<1>4. /\ w.job \in Job /\ w.run \in Rows(w.job) /\ w.run \in 1 .. MaxRun
      /\ \A i \in Job : last'[i] = IF i = w.job THEN w.run ELSE last[i]
      /\ last' \in [Job -> 0 .. MaxRun]
  BY <1>0, <1>1, WorkerType, RowFacts, BoundAssumption DEF TypeOK
<1>5. TypeOK'
  BY <1>0, <1>1, <1>2, <1>3, <1>4 DEF TypeOK
<1>6. ClaimsInv' /\ ClaimInv'
  BY <1>0, <1>1, <1>2, <1>3, <1>5, StayClaims DEF IInv, RunnerInv, Live
<1>7. DebtInv'
  BY <1>1, <1>2, <1>5, <1>6, StayDebt DEF Live, ClaimsInv
<1>8. /\ Unused(w.job, w.run) /\ Recorded(w.job, w.run)
      /\ \A v \in workers : v.phase = "recording" /\ v.job = w.job /\ v.run = w.run => v = w
  BY <1>0, <1>1, <1>4 DEF IInv, DueInv, RecordInv, Recorded, WorkerInv
<1>9. RecordInv'
  <2>1. ASSUME NEW i \in Job, NEW q \in 1 .. MaxRun, Unused(i, q), i # w.job \/ q # w.run
        PROVE  Unused(i, q)'
    BY <1>1, <1>4, <2>1 DEF Unused, Rows
  <2>2. \A i \in Job : \A q : Recorded(i, q)' <=> Recorded(i, q)
    BY <1>1 DEF Recorded, Rows
  <2>3. ASSUME NEW v \in workers', v.phase = "recording"
        PROVE  /\ Unused(v.job, v.run)'
               /\ runs'[v.job][v.run].status = "done"
               /\ v.attempt = runs'[v.job][v.run].attempt
    <3>1. v \in workers /\ v # w
      BY <1>2, <2>3 DEF Moves
    <3>2. v.job \in Job /\ v.run \in 1 .. MaxRun /\ (v.job # w.job \/ v.run # w.run)
      BY <1>0, <1>8, <2>3, <3>1, WorkerType, RowFacts
    <3>. QED
      BY <1>1, <2>1, <2>3, <3>1, <3>2 DEF IInv, DueInv, RecordInv
  <2>. QED
    BY <1>8, <2>1, <2>2, <2>3 DEF IInv, DueInv, RecordInv
<1>10. LostInv'
  <2>. SUFFICES ASSUME NEW i \in Job, NEW q \in Rows(i),
                       runs[i][q].status = "done", runs[i][q].due = last'[i]
                PROVE  \/ i \in lost
                       \/ \E v \in workers' : v.job = i /\ v.run = q /\ v.phase = "recording"
    BY <1>1 DEF LostInv, Rows
  <2>1. i # w.job
    BY <1>4, <1>8 DEF Unused
  <2>. QED
    BY <1>1, <1>2, <1>4, <2>1 DEF IInv, DueInv, LostInv, Moves
<1>11. AnchorInv'
  <2>. SUFFICES ASSUME NEW i \in Anchored
                PROVE  last'[i] <= Len(runs[i])
    BY <1>1 DEF IInv, DueInv, AnchorInv, Rows
  <2>1. i \in Job /\ last[i] <= Len(runs[i])
    BY JobAssumption DEF IInv, DueInv, AnchorInv
  <2>2. i = w.job => w.run <= Len(runs[i])
    BY <1>0, <1>4, RowFacts DEF Rows
  <2>. QED
    BY <1>4, <2>1, <2>2
<1>. QED
  BY <1>2, <1>6, <1>7, <1>9, <1>10, <1>11 DEF IInv, RunnerInv, DueInv

(* The parts of DebtInv that do not depend on the workers.                  *)
LEMMA DebtFromPaid ==
  ASSUME DebtInv, NEW j \in Job, NEW r \in Rows(j),
         \A i \in Job : Rows(i)' = Rows(i),
         \A i \in Job : \A q \in Rows(i) : runs'[i][q].due = runs[i][q].due,
         \A i \in Job : \A d \in 0 .. MaxRun :
           excuses[i][d] \in Nat /\ excuses'[i][d] \in Nat /\ endings[i][d] \in Nat
             /\ excuses[i][d] <= excuses'[i][d],
         \A i \in Job : \A d \in 0 .. MaxRun :
           i # j \/ d # runs[j][r].due => endings'[i][d] = endings[i][d],
         \A i \in Job : \A q \in Rows(i) : runs[i][q].due # Now => Paid(i, q)'
  PROVE  DebtInv'
<1>1. \A i \in Job : \A p, q \in Rows(i)' :
        runs'[i][p].due = runs'[i][q].due /\ runs'[i][p].due # Now => p = q
  BY DEF DebtInv
<1>2. ASSUME NEW i \in Job, NEW d \in 0 .. MaxRun,
             \A q \in Rows(i)' : runs'[i][q].due # d
      PROVE  endings'[i][d] <= excuses'[i][d]
  <2>1. endings[i][d] <= excuses[i][d] /\ (i # j \/ d # runs[j][r].due)
    BY <1>2 DEF DebtInv
  <2>2. endings'[i][d] = endings[i][d]
    BY <2>1
  <2>3. excuses[i][d] \in Nat /\ excuses'[i][d] \in Nat /\ endings[i][d] \in Nat
        /\ excuses[i][d] <= excuses'[i][d]
    OBVIOUS
  <2>. QED
    BY <2>1, <2>2, <2>3
<1>. QED
  BY <1>1, <1>2 DEF DebtInv

LEMMA DebtTypes ==
  ASSUME TypeOK
  PROVE  \A i \in Job : \A d \in 0 .. MaxRun :
           excuses[i][d] \in Nat /\ endings[i][d] \in Nat
<1>. SUFFICES ASSUME NEW i \in Job, NEW d \in 0 .. MaxRun
              PROVE  excuses[i][d] \in Nat /\ endings[i][d] \in Nat
  OBVIOUS
<1>1. d \in Due
  BY DEF Due
<1>2. endings[i][d] \in Nat /\ excuses[i][d] \in 0 .. MaxMishap
  BY <1>1 DEF TypeOK
<1>. QED
  BY <1>2

LEMMA AdmitStep ==
  ASSUME IInv, NEW w \in workers, Admit(w)
  PROVE  IInv'
<1>0. TypeOK /\ WorkerInv /\ SlotInv /\ ClaimsInv /\ DebtInv
  BY DEF IInv, ClaimsInv, RunnerInv
<1>1. /\ w.phase = "admission"
      /\ UNCHANGED <<runs, last, installed, mode, listed, tick, inflight, mishaps, endings,
                     excuses, overrun, lost, endedBy>>
  BY DEF Admit, store, instances, history
<1>2. PICK x \in Worker : /\ Moves(w, x) /\ x.phase = "executing" /\ x \in workers'
                          /\ workers' \subseteq Worker /\ SlotInv'
  BY <1>0, <1>1, BecomeMoves DEF Admit
<1>3. mishaps <= mishaps' /\ mishaps' \in 0 .. MaxMishap /\ ExcuseInv'
  BY <1>0, <1>1, MishapGrows
<1>4. TypeOK'
  BY <1>0, <1>1, <1>2, <1>3 DEF TypeOK
<1>5. ClaimsInv' /\ ClaimInv'
  BY <1>0, <1>1, <1>2, <1>3, <1>4, StayClaims DEF IInv, RunnerInv, Live
<1>6. DueInv'
  BY <1>1, <1>2, StayDue
<1>7. w.job \in Job /\ w.run \in Rows(w.job) /\ (\A i \in Job : Rows(i)' = Rows(i))
  BY <1>0, <1>1, WorkerType DEF Rows
<1>8. (\A v \in workers : Holds(v)' <=> Holds(v)) /\ (Holds(x)' <=> Holds(w))
  BY <1>1, <1>2 DEF Holds, Moves
<1>9. ASSUME NEW i \in Job, NEW q \in Rows(i), runs[i][q].due # Now
      PROVE  Paid(i, q)'
  <2>1. Paid(i, q)
    BY <1>0, <1>9 DEF DebtInv
  <2>2. Cardinality(Loose(i, q)') = Cardinality(Loose(i, q))
    <3>1. CASE w \in Loose(i, q)
      <4>1. /\ Loose(i, q)' = (Loose(i, q) \ {w}) \cup {x}
            /\ x \notin Loose(i, q) \ {w}
        BY <1>0, <1>1, <1>2, <1>8, <3>1 DEF Loose, Moves, WorkerInv
      <4>. DEFINE rest == Loose(i, q) \ {w}
      <4>2. /\ IsFiniteSet(Loose(i, q)) /\ Cardinality(Loose(i, q)) \in Nat
        BY <1>0, PaidTypes
      <4>3. IsFiniteSet(rest) /\ Cardinality(rest) = Cardinality(Loose(i, q)) - 1
        BY <3>1, <4>2, FS_RemoveElement
      <4>4. Cardinality(rest \cup {x}) = Cardinality(rest) + 1
        BY <4>1, <4>3, FS_AddElement
      <4>. HIDE DEF rest
      <4>5. Cardinality(Loose(i, q)') = Cardinality(rest \cup {x})
        BY <4>1 DEF rest
      <4>. QED
        BY <4>2, <4>3, <4>4, <4>5
    <3>2. CASE w \notin Loose(i, q)
      <4>1. Loose(i, q)' = Loose(i, q)
        BY <1>1, <1>2, <1>8, <3>2 DEF Loose, Moves
      <4>. QED
        BY <4>1
    <3>. QED
      BY <3>1, <3>2
  <2>3. Overdue(i, q)' <=> Overdue(i, q)
    BY <1>1, <1>2 DEF Overdue, Held, Moves, Live
  <2>4. Settled(i, q) <=> Settled(i, q)'
    BY <1>1, <1>2, <1>8 DEF Settled, Moves
  <2>. QED
    BY <1>1, <2>1, <2>2, <2>3, <2>4 DEF Paid, One
<1>10. DebtInv'
  BY <1>0, <1>1, <1>7, <1>9, DebtTypes, DebtFromPaid
<1>. QED
  BY <1>2, <1>5, <1>6, <1>10 DEF IInv, RunnerInv

(* An execution comes to an end.                                           *)
LEMMA RunEndsStep ==
  ASSUME IInv, NEW w \in workers, RunEnds(w)
  PROVE  IInv'
<1>0. TypeOK /\ WorkerInv /\ SlotInv /\ ClaimsInv /\ DebtInv
  BY DEF IInv, ClaimsInv, RunnerInv
<1>1. /\ w.phase = "executing"
      /\ UNCHANGED <<runs, last, installed, mode, listed, tick, inflight, mishaps,
                     excuses, overrun, lost, endedBy>>
  BY DEF RunEnds, store, instances
<1>2. PICK x \in Worker : /\ Moves(w, x) /\ x.phase = "finishing" /\ x \in workers'
                          /\ workers' \subseteq Worker /\ SlotInv'
  BY <1>0, <1>1, BecomeMoves DEF RunEnds
<1>3. mishaps <= mishaps' /\ mishaps' \in 0 .. MaxMishap /\ ExcuseInv'
  BY <1>0, <1>1, MishapGrows
<1>4. PICK j \in Job, r \in 1 .. MaxRun, d \in Due :
        j = w.job /\ r = w.run /\ r \in Rows(j) /\ d = runs[j][r].due /\ d = DueOf(w)
  BY <1>0, WorkerType, RowFacts DEF DueOf
<1>5. /\ endings' \in [Job -> [Due -> Nat]]
      /\ \A i \in Job : \A c \in Due :
           endings'[i][c] = IF i = j /\ c = d THEN endings[i][c] + 1 ELSE endings[i][c]
  <2>1. endings' = [endings EXCEPT ![j][d] = @ + 1]
    BY <1>4 DEF RunEnds
  <2>. QED
    BY <1>0, <2>1 DEF TypeOK
<1>6. TypeOK'
  BY <1>0, <1>1, <1>2, <1>3, <1>5 DEF TypeOK
<1>7. ClaimsInv' /\ ClaimInv'
  BY <1>0, <1>1, <1>2, <1>3, <1>6, StayClaims DEF IInv, RunnerInv, Live
<1>8. DueInv'
  BY <1>1, <1>2, StayDue
<1>9. \A i \in Job : Rows(i)' = Rows(i)
  BY <1>1 DEF Rows
<1>10. (\A v \in workers : Holds(v)' <=> Holds(v)) /\ (Holds(x)' <=> Holds(w))
  BY <1>1, <1>2 DEF Holds, Moves
<1>11. ASSUME NEW i \in Job, NEW q \in Rows(i), runs[i][q].due # Now
       PROVE  Paid(i, q)'
  <2>1. Paid(i, q) /\ runs[i][q].due \in Due
    BY <1>0, <1>11, PaidTypes DEF DebtInv
  <2>2. Overdue(i, q)' => Overdue(i, q)
    BY <1>1, <1>2 DEF Overdue, Held, Moves, Live
  <2>3. Settled(i, q) => Settled(i, q)'
    BY <1>1, <1>2, <1>10 DEF Settled, Moves
  <2>4. Loose(i, q)' \subseteq Loose(i, q)
    BY <1>1, <1>2, <1>10 DEF Loose, Moves
  <2>5. CASE i # j \/ q # r
    <3>1. i # j \/ runs[i][q].due # d
      BY <1>0, <1>4, <1>11, <2>5 DEF DebtInv
    <3>2. endings'[i][runs[i][q].due] = endings[i][runs[i][q].due]
      BY <1>5, <2>1, <3>1
    <3>3. excuses[i][runs[i][q].due] <= excuses'[i][runs[i][q].due]
      BY <1>0, <1>1, PaidTypes
    <3>. QED
      BY <1>0, <1>1, <1>6, <1>7, <1>9, <2>1, <2>2, <2>3, <2>4, <3>2, <3>3, PaidKept
      DEF ClaimsInv
  <2>6. CASE i = j /\ q = r
    <3>. DEFINE e == endings[j][d]
                l == Cardinality(Loose(j, r))
                o == One(Overdue(j, r))
                z == excuses[j][d]
                t == One(Settled(j, r))
                l1 == Cardinality(Loose(j, r)')
                o1 == One(Overdue(j, r)')
                t1 == One(Settled(j, r)')
    <3>1. /\ e \in Nat /\ l \in Nat /\ o \in Nat /\ z \in Nat /\ t \in Nat
          /\ IsFiniteSet(Loose(j, r))
      <4>1. r \in Rows(j)
        BY <1>4
      <4>2. /\ IsFiniteSet(Loose(j, r)) /\ Cardinality(Loose(j, r)) \in Nat
            /\ One(Overdue(j, r)) \in 0 .. 1 /\ One(Settled(j, r)) \in 0 .. 1
            /\ endings[j][runs[j][r].due] \in Nat
            /\ excuses[j][runs[j][r].due] \in Nat
        BY <1>0, <4>1, PaidTypes
      <4>. QED
        BY <1>4, <4>2
    <3>2. l1 \in Nat /\ l1 <= l
      BY <2>4, <2>6, <3>1, FS_Subset, FS_CardinalityType
    <3>3. o1 \in Nat /\ o1 <= o /\ t1 \in Nat /\ t <= t1
      BY <2>2, <2>3, <2>6 DEF One
    <3>4. l1 + t + 1 <= l + t1
      <4>1. CASE Holds(w)
        <5>1. ~Settled(j, r)
          BY <1>0, <1>1, <1>4, <4>1 DEF Settled, Holds, WorkerInv
        <5>2. Settled(j, r)'
          BY <1>2, <1>4, <1>10, <4>1 DEF Settled, Moves
        <5>3. t = 0 /\ t1 = 1
          BY <5>1, <5>2 DEF One
        <5>. HIDE DEF t, t1, l, l1
        <5>. QED
          BY <3>1, <3>2, <5>3
      <4>2. CASE ~Holds(w)
        <5>1. w \in Loose(j, r) /\ w \notin Loose(j, r)'
          BY <1>1, <1>2, <1>4, <4>2 DEF Loose, Moves
        <5>. DEFINE rest == Loose(j, r) \ {w}
        <5>2. IsFiniteSet(rest) /\ Cardinality(rest) = l - 1
          BY <3>1, <5>1, FS_RemoveElement
        <5>3. Loose(j, r)' \subseteq rest
          BY <2>4, <2>6, <5>1
        <5>4. l1 <= Cardinality(rest) /\ Cardinality(rest) \in Nat
          BY <5>2, <5>3, FS_Subset, FS_CardinalityType
        <5>. HIDE DEF rest, t, t1, l, l1
        <5>. QED
          BY <3>1, <3>2, <3>3, <5>2, <5>4
      <4>. QED
        BY <4>1, <4>2
    <3>5. endings'[j][d] = e + 1 /\ excuses'[j][d] = z
      BY <1>1, <1>5
    <3>6. e + 1 + l1 + o1 + z + t <= e + l + o + z + t1
      <4>. HIDE DEF e, l, o, z, t, l1, o1, t1
      <4>. QED
        BY <3>1, <3>2, <3>3, <3>4
    <3>7. runs'[j][r].due = d /\ r \in Rows(j)' /\ Paid(j, r)
      BY <1>1, <1>4, <1>9, <2>1, <2>6
    <3>8. endings'[j][d] + Cardinality(Loose(j, r)') + One(Overdue(j, r)')
            + excuses[j][d] + One(Settled(j, r))
          <= endings[j][d] + Cardinality(Loose(j, r)) + One(Overdue(j, r))
            + excuses'[j][d] + One(Settled(j, r)')
      BY <3>5, <3>6
    <3>. QED
      BY <1>0, <1>4, <1>6, <1>7, <2>6, <3>7, <3>8, PaidChanges DEF ClaimsInv
  <2>. QED
    BY <2>5, <2>6
<1>12. DebtInv'
  <2>1. \A i \in Job : \A c \in 0 .. MaxRun :
          i # j \/ c # runs[j][r].due => endings'[i][c] = endings[i][c]
    BY <1>4, <1>5 DEF Due
  <2>2. r \in Rows(j)
    BY <1>4
  <2>3. \A i \in Job : \A c \in 0 .. MaxRun :
          /\ excuses[i][c] \in Nat /\ excuses'[i][c] \in Nat /\ endings[i][c] \in Nat
          /\ excuses[i][c] <= excuses'[i][c]
    BY <1>0, <1>1, DebtTypes
  <2>4. \A i \in Job : \A q \in Rows(i) : runs'[i][q].due = runs[i][q].due
    BY <1>1
  <2>. QED
    BY <1>0, <1>9, <1>11, <2>1, <2>2, <2>3, <2>4, DebtFromPaid
<1>. QED
  BY <1>2, <1>7, <1>8, <1>12 DEF IInv, RunnerInv

-----------------------------------------------------------------------------
(* Mishaps that hit claims.                                                *)

LEMMA BlameFacts ==
  ASSUME ClaimsInv, NEW hit, Blame(hit), Mishap
  PROVE  /\ excuses' \in [Job -> [Due -> 0 .. MaxMishap]] /\ ExcuseInv'
         /\ mishaps' \in 0 .. MaxMishap /\ mishaps < mishaps'
         /\ \A i \in Job : \A d \in Due :
              /\ excuses[i][d] \in Nat /\ excuses'[i][d] \in Nat
              /\ excuses[i][d] <= excuses'[i][d]
              /\ (\E v \in hit : v.job = i /\ DueOf(v) = d)
                   => excuses[i][d] + 1 <= excuses'[i][d]
<1>. DEFINE more(i, d) == IF \E v \in hit : v.job = i /\ DueOf(v) = d THEN 1 ELSE 0
<1>1. excuses' = [i \in Job |-> [d \in Due |-> excuses[i][d] + more(i, d)]]
  BY DEF Blame
<1>2. \A i \in Job : \A d \in Due :
        /\ more(i, d) \in {0, 1}
        /\ (\E v \in hit : v.job = i /\ DueOf(v) = d) => more(i, d) = 1
  OBVIOUS
<1>. HIDE DEF more
<1>3. /\ mishaps \in Nat /\ mishaps < MaxMishap /\ mishaps' = mishaps + 1
      /\ mishaps' \in 0 .. MaxMishap
  BY BoundAssumption DEF Mishap, ClaimsInv, TypeOK
<1>4. \A i \in Job : \A d \in Due : excuses[i][d] \in Nat /\ excuses[i][d] <= mishaps
  BY BoundAssumption DEF ClaimsInv, ExcuseInv, TypeOK
<1>5. \A i \in Job : \A d \in Due : excuses'[i][d] = excuses[i][d] + more(i, d)
  BY <1>1
<1>6. \A i \in Job : \A d \in Due :
        /\ excuses[i][d] \in Nat /\ excuses'[i][d] \in Nat
        /\ excuses[i][d] <= excuses'[i][d] /\ excuses'[i][d] <= mishaps'
        /\ more(i, d) = 1 => excuses[i][d] + 1 <= excuses'[i][d]
  BY <1>2, <1>3, <1>4, <1>5
<1>7. \A i \in Job : \A d \in Due : excuses[i][d] + more(i, d) \in 0 .. MaxMishap
  BY <1>3, <1>5, <1>6, BoundAssumption
<1>8. excuses' \in [Job -> [Due -> 0 .. MaxMishap]]
  BY <1>1, <1>7
<1>. QED
  BY <1>2, <1>3, <1>6, <1>8 DEF ExcuseInv

(* One excuse pays for an overrun lease or for an end that is not recorded.  *)
LEMMA PaidByExcuse ==
  ASSUME TypeOK, WorkerInv, TypeOK', WorkerInv',
         NEW j \in Job, NEW r \in Rows(j), r \in Rows(j)',
         runs'[j][r].due = runs[j][r].due,
         endings'[j][runs[j][r].due] = endings[j][runs[j][r].due],
         excuses[j][runs[j][r].due] + 1 <= excuses'[j][runs[j][r].due],
         Loose(j, r)' \subseteq Loose(j, r),
         (Overdue(j, r)' => Overdue(j, r)) \/ (Settled(j, r) => Settled(j, r)'),
         Paid(j, r)
  PROVE  Paid(j, r)'
<1>. DEFINE d == runs[j][r].due
            e == endings[j][d]
            l == Cardinality(Loose(j, r))
            x == excuses[j][d]
            l1 == Cardinality(Loose(j, r)')
            x1 == excuses'[j][d]
            o == One(Overdue(j, r))
            s == One(Settled(j, r))
            o1 == One(Overdue(j, r)')
            s1 == One(Settled(j, r)')
<1>1. /\ e \in Nat /\ l \in Nat /\ x \in Nat /\ d \in Due
      /\ IsFiniteSet(Loose(j, r))
  BY PaidTypes
<1>2. l1 \in Nat /\ l1 <= l
  BY <1>1, FS_Subset, FS_CardinalityType
<1>3. x1 \in Nat
  BY <1>1, BoundAssumption DEF TypeOK
<1>4. /\ o \in {0, 1} /\ s \in {0, 1} /\ o1 \in {0, 1} /\ s1 \in {0, 1}
      /\ o1 <= o \/ s <= s1
  BY DEF One
<1>5. e + l1 + o1 + x + s <= e + l + o + x1 + s1
  <2>1. x + 1 <= x1
    OBVIOUS
  <2>2. l1 \in Nat /\ l \in Nat /\ l1 <= l
    BY <1>1, <1>2
  <2>3. e \in Nat /\ x \in Nat /\ x1 \in Nat
    BY <1>1, <1>3
  <2>. HIDE DEF e, l, o, x, s, l1, o1, x1, s1
  <2>4. o1 + s <= o + s1 + 1
    BY <1>4
  <2>5. /\ o \in Nat /\ s \in Nat /\ o1 \in Nat /\ s1 \in Nat
    BY <1>4
  <2>. QED
    BY <2>1, <2>2, <2>3, <2>4, <2>5
<1>. QED
  BY <1>5, PaidChanges

LEMMA FinishFailsStep ==
  ASSUME IInv, NEW w \in workers, FinishFails(w)
  PROVE  IInv'
<1>0. TypeOK /\ WorkerInv /\ SlotInv /\ ClaimsInv /\ DebtInv
  BY DEF IInv, ClaimsInv, RunnerInv
<1>1. /\ w.phase = "finishing" /\ Mishap /\ Blame({w})
      /\ UNCHANGED <<runs, last, installed, mode, listed, tick, inflight, endings,
                     overrun, lost, endedBy>>
  BY DEF FinishFails, store, instances
<1>2. PICK x \in Worker : /\ Moves(w, x) /\ x.phase \in {"deleting", "exiting"}
                          /\ workers' \subseteq Worker /\ SlotInv'
  BY <1>0, <1>1, BecomeMoves DEF FinishFails, AfterRecord
<1>3. /\ excuses' \in [Job -> [Due -> 0 .. MaxMishap]] /\ ExcuseInv'
      /\ mishaps' \in 0 .. MaxMishap /\ mishaps < mishaps'
      /\ \A i \in Job : \A d \in Due :
           /\ excuses[i][d] \in Nat /\ excuses'[i][d] \in Nat
           /\ excuses[i][d] <= excuses'[i][d]
      /\ excuses[w.job][DueOf(w)] + 1 <= excuses'[w.job][DueOf(w)]
  <2>1. w.job \in Job /\ DueOf(w) \in Due
    BY <1>0, WorkerType
  <2>. QED
    BY <1>0, <1>1, <2>1, BlameFacts
<1>4. TypeOK'
  BY <1>0, <1>1, <1>2, <1>3 DEF TypeOK
<1>5. mishaps <= mishaps'
  BY <1>0, <1>3, BoundAssumption DEF TypeOK
<1>6. ClaimsInv' /\ ClaimInv'
  BY <1>0, <1>1, <1>2, <1>3, <1>4, <1>5, StayClaims DEF IInv, RunnerInv, Live
<1>7. DueInv'
  BY <1>1, <1>2, StayDue
<1>8. w.job \in Job /\ w.run \in Rows(w.job) /\ (\A i \in Job : Rows(i)' = Rows(i))
  BY <1>0, <1>1, WorkerType DEF Rows
<1>9. \A v \in workers : Holds(v)' <=> Holds(v)
  BY <1>1 DEF Holds
<1>10. ASSUME NEW i \in Job, NEW q \in Rows(i), runs[i][q].due # Now
       PROVE  Paid(i, q)'
  <2>1. Paid(i, q) /\ runs[i][q].due \in Due
    BY <1>0, <1>10, PaidTypes DEF DebtInv
  <2>2. Overdue(i, q)' => Overdue(i, q)
    BY <1>1, <1>2 DEF Overdue, Held, Moves, Live
  <2>3. Loose(i, q)' \subseteq Loose(i, q)
    BY <1>1, <1>2, <1>9 DEF Loose, Moves
  <2>4. CASE i = w.job /\ q = w.run
    BY <1>0, <1>1, <1>3, <1>4, <1>6, <1>8, <2>1, <2>2, <2>3, <2>4, PaidByExcuse
    DEF ClaimsInv, DueOf
  <2>5. CASE i # w.job \/ q # w.run
    <3>1. Settled(i, q) => Settled(i, q)'
      BY <1>1, <1>2, <1>9, <2>5 DEF Settled, Moves
    <3>. QED
      BY <1>0, <1>1, <1>3, <1>4, <1>6, <1>8, <2>1, <2>2, <2>3, <3>1, PaidKept
      DEF ClaimsInv
  <2>. QED
    BY <2>4, <2>5
<1>11. DebtInv'
  <2>1. \A i \in Job : \A c \in 0 .. MaxRun :
          /\ excuses[i][c] \in Nat /\ excuses'[i][c] \in Nat /\ endings[i][c] \in Nat
          /\ excuses[i][c] <= excuses'[i][c]
    BY <1>0, <1>3, DebtTypes DEF Due
  <2>. QED
    BY <1>0, <1>1, <1>8, <1>10, <2>1, DebtFromPaid
<1>. QED
  BY <1>2, <1>6, <1>7, <1>11 DEF IInv, RunnerInv

(* The daemon dies.                                                        *)
LEMMA CrashStep ==
  ASSUME IInv, Crash
  PROVE  IInv'
<1>0. TypeOK /\ WorkerInv /\ SlotInv /\ ClaimsInv /\ DebtInv
  BY DEF IInv, ClaimsInv, RunnerInv
<1>. DEFINE hit == {w \in workers : Holds(w)}
<1>1. /\ Mishap /\ Blame(hit) /\ workers' = {}
      /\ mode' = [s \in Scheduler |-> "down"]
      /\ listed' = [s \in Scheduler |-> {}]
      /\ tick' = [s \in Scheduler |-> Idle]
      /\ inflight' = [s \in Scheduler |-> {}]
      /\ lost' = lost \cup {w.job : w \in {v \in workers : v.phase = "recording"}}
      /\ UNCHANGED <<runs, last, installed, endings, overrun, endedBy>>
  BY DEF Crash, store
<1>2. /\ excuses' \in [Job -> [Due -> 0 .. MaxMishap]] /\ ExcuseInv'
      /\ mishaps' \in 0 .. MaxMishap /\ mishaps < mishaps'
      /\ \A i \in Job : \A d \in Due :
           /\ excuses[i][d] \in Nat /\ excuses'[i][d] \in Nat
           /\ excuses[i][d] <= excuses'[i][d]
           /\ (\E v \in hit : v.job = i /\ DueOf(v) = d)
                => excuses[i][d] + 1 <= excuses'[i][d]
  <2>. HIDE DEF hit
  <2>. QED
    BY <1>0, <1>1, BlameFacts
<1>3. \A i \in Job : Rows(i)' = Rows(i)
  BY <1>1 DEF Rows
<1>4. TypeOK'
  <2>1. lost' \subseteq Job
    BY <1>0, <1>1, WorkerType DEF TypeOK
  <2>2. /\ mode' \in [Scheduler -> {"down", "up", "stopping"}]
        /\ listed' \in [Scheduler -> SUBSET Once]
        /\ tick' \in [Scheduler -> Tick \cup {Idle}]
        /\ inflight' \in [Scheduler -> SUBSET Job]
    BY <1>1
  <2>. QED
    BY <1>0, <1>1, <1>2, <2>1, <2>2 DEF TypeOK
<1>5. WorkerInv' /\ ClaimInv'
  BY <1>1, FS_EmptySet DEF WorkerInv, ClaimInv
<1>6. AttemptInv'
  <2>. SUFFICES ASSUME NEW i \in Job, NEW q \in Rows(i)
                PROVE  /\ runs[i][q].status = "running" <=> runs[i][q].lease # "none"
                       /\ runs[i][q].attempt <= mishaps' + 1
                       /\ runs[i][q].attempt <= mishaps'
    BY <1>1, <1>3 DEF AttemptInv
  <2>1. /\ runs[i][q].status = "running" <=> runs[i][q].lease # "none"
        /\ runs[i][q].attempt <= mishaps + 1
    BY <1>0 DEF ClaimsInv, AttemptInv
  <2>2. runs[i][q].attempt \in Nat
    BY <1>0, RowFacts, BoundAssumption DEF Row, Attempt
  <2>3. mishaps \in Nat /\ mishaps' \in Nat
    BY <1>0, <1>2, BoundAssumption DEF TypeOK
  <2>. QED
    BY <1>2, <2>1, <2>2, <2>3
<1>7. OneActive'
  BY <1>0, <1>1 DEF ClaimsInv, OneActive, Active
<1>8. SlotInv'
  <2>1. \A s \in Scheduler : IsFiniteSet(inflight'[s]) /\ Cardinality(inflight'[s]) <= Slots
    BY <1>1, FS_EmptySet, BoundAssumption
  <2>2. \A s \in Scheduler : tick'[s] = Idle
    BY <1>1
  <2>. QED
    BY <1>1, <2>1, <2>2 DEF SlotInv
<1>9. DueInv'
  <2>1. \A s \in Scheduler : tick'[s] = Idle
    BY <1>1
  <2>2. RecordInv'
    <3>1. ASSUME NEW i \in Job, NEW q \in 1 .. MaxRun PROVE Unused(i, q) => Unused(i, q)'
      BY <1>1, <2>1 DEF Unused, Rows
    <3>2. ASSUME NEW i \in Job, NEW q \in 1 .. MaxRun PROVE Recorded(i, q) => Recorded(i, q)'
      BY <1>1 DEF Recorded, Rows
    <3>. QED
      BY <1>1, <3>1, <3>2 DEF IInv, DueInv, RecordInv
  <2>3. LostInv'
    BY <1>1, <1>3 DEF IInv, DueInv, LostInv
  <2>4. AnchorInv'
    BY <1>1, <2>1 DEF IInv, DueInv, AnchorInv, Rows
  <2>. QED
    BY <2>2, <2>3, <2>4 DEF DueInv
<1>10. ASSUME NEW i \in Job, NEW q \in Rows(i), runs[i][q].due # Now
       PROVE  Paid(i, q)'
  <2>1. Paid(i, q) /\ runs[i][q].due \in Due
    BY <1>0, <1>10, PaidTypes DEF DebtInv
  <2>2. ~Overdue(i, q)' /\ Loose(i, q)' \subseteq Loose(i, q)
    BY <1>1 DEF Overdue, Held, Loose
  <2>3. CASE \E v \in workers : v.job = i /\ v.run = q /\ Holds(v)
    <3>1. \E v \in hit : v.job = i /\ DueOf(v) = runs[i][q].due
      BY <2>3 DEF DueOf
    <3>2. excuses[i][runs[i][q].due] + 1 <= excuses'[i][runs[i][q].due]
      BY <1>2, <2>1, <3>1
    <3>. HIDE DEF hit
    <3>. QED
      BY <1>0, <1>1, <1>3, <1>4, <1>5, <2>1, <2>2, <3>2, PaidByExcuse
  <2>4. CASE ~\E v \in workers : v.job = i /\ v.run = q /\ Holds(v)
    <3>1. Settled(i, q) => Settled(i, q)'
      BY <1>1, <2>4 DEF Settled
    <3>. HIDE DEF hit
    <3>. QED
      BY <1>0, <1>1, <1>2, <1>3, <1>4, <1>5, <2>1, <2>2, <3>1, PaidKept
  <2>. QED
    BY <2>3, <2>4
<1>11. DebtInv'
  <2>1. \A i \in Job : \A p, q \in Rows(i)' :
          runs'[i][p].due = runs'[i][q].due /\ runs'[i][p].due # Now => p = q
    BY <1>0, <1>1, <1>3 DEF DebtInv
  <2>2. ASSUME NEW i \in Job, NEW d \in 0 .. MaxRun,
               \A q \in Rows(i)' : runs'[i][q].due # d
        PROVE  endings'[i][d] <= excuses'[i][d]
    <3>1. endings[i][d] <= excuses[i][d]
      BY <1>0, <1>1, <1>3, <2>2 DEF DebtInv
    <3>2. /\ excuses[i][d] \in Nat /\ excuses'[i][d] \in Nat /\ endings[i][d] \in Nat
          /\ excuses[i][d] <= excuses'[i][d]
      BY <1>0, <1>2, DebtTypes DEF Due
    <3>. QED
      BY <1>1, <3>1, <3>2
  <2>. QED
    BY <1>1, <1>3, <1>10, <2>1, <2>2 DEF DebtInv
<1>. QED
  BY <1>2, <1>4, <1>5, <1>6, <1>7, <1>8, <1>9, <1>11 DEF IInv, ClaimsInv, RunnerInv

-----------------------------------------------------------------------------
(* A row changes without a new claim.                                       *)

(* Row r of job j keeps its due time and its attempt.                       *)
LEMMA SameClaims ==
  ASSUME TypeOK, NEW j \in Job, NEW r \in Rows(j), NEW row \in Row, SetRow(j, r, row),
         row.due = runs[j][r].due, row.attempt = runs[j][r].attempt
  PROVE  /\ runs' \in [Job -> Seq(Row)]
         /\ \A i \in Job : Len(runs'[i]) = Len(runs[i]) /\ Rows(i)' = Rows(i)
         /\ \A i \in Job : DOMAIN runs[i] = Rows(i) /\ (DOMAIN runs[i])' = Rows(i)
         /\ \A i \in Job : \A q \in Rows(i) :
              /\ runs'[i][q].due = runs[i][q].due
              /\ runs'[i][q].attempt = runs[i][q].attempt
              /\ i # j \/ q # r => runs'[i][q] = runs[i][q]
         /\ runs'[j][r] = row
<1>1. /\ runs' \in [Job -> Seq(Row)]
      /\ \A i \in Job : Len(runs'[i]) = Len(runs[i]) /\ Rows(i)' = Rows(i)
      /\ \A i \in Job : \A q \in Rows(i) :
           runs'[i][q] = IF i = j /\ q = r THEN row ELSE runs[i][q]
  BY RowChanges
<1>2. \A i \in Job : DOMAIN runs[i] = Rows(i) /\ (DOMAIN runs[i])' = Rows(i)'
  BY <1>1, RowFacts DEF Rows
<1>. QED
  BY <1>1, <1>2

(* A lease runs out.                                                       *)
LEMMA ExpireStep ==
  ASSUME IInv, NEW j \in Job, NEW r \in Rows(j), NEW row \in Row, SetRow(j, r, row),
         runs[j][r].status = "running", runs[j][r].lease = "fresh",
         row.due = runs[j][r].due, row.attempt = runs[j][r].attempt,
         row.status = "running", row.lease = "expired",
         NEW hit, hit = {w \in workers : w.job = j /\ w.run = r /\ Holds(w)},
         \/ hit = {} /\ UNCHANGED <<mishaps, excuses, overrun>>
         \/ hit # {} /\ Mishap /\ Blame(hit) /\ overrun' = overrun \cup {j},
         UNCHANGED <<last, installed, mode, listed, tick, inflight, workers, endings, lost,
                     endedBy>>
  PROVE  IInv'
<1>0. TypeOK /\ WorkerInv /\ SlotInv /\ ClaimsInv /\ DebtInv
  BY DEF IInv, ClaimsInv, RunnerInv
<1>1. /\ runs' \in [Job -> Seq(Row)]
      /\ \A i \in Job : Len(runs'[i]) = Len(runs[i]) /\ Rows(i)' = Rows(i)
      /\ \A i \in Job : DOMAIN runs[i] = Rows(i) /\ (DOMAIN runs[i])' = Rows(i)
      /\ \A i \in Job : \A q \in Rows(i) :
           /\ runs'[i][q].due = runs[i][q].due
           /\ runs'[i][q].attempt = runs[i][q].attempt
           /\ i # j \/ q # r => runs'[i][q] = runs[i][q]
      /\ runs'[j][r] = row
  BY <1>0, SameClaims
<1>2. \A i \in Job : \A q \in Rows(i) : runs'[i][q].status = runs[i][q].status
  BY <1>1
<1>3. /\ excuses' \in [Job -> [Due -> 0 .. MaxMishap]] /\ ExcuseInv'
      /\ mishaps' \in 0 .. MaxMishap /\ mishaps <= mishaps'
      /\ hit # {} => mishaps < mishaps'
      /\ \A i \in Job : \A d \in Due :
           /\ excuses[i][d] \in Nat /\ excuses'[i][d] \in Nat
           /\ excuses[i][d] <= excuses'[i][d]
           /\ (\E v \in hit : v.job = i /\ DueOf(v) = d)
                => excuses[i][d] + 1 <= excuses'[i][d]
  <2>1. CASE hit = {}
    <3>1. /\ excuses' \in [Job -> [Due -> 0 .. MaxMishap]] /\ ExcuseInv'
          /\ mishaps' \in 0 .. MaxMishap /\ mishaps <= mishaps'
      BY <1>0, <2>1, MishapGrows DEF TypeOK
    <3>2. \A i \in Job : \A d \in Due :
            /\ excuses[i][d] \in Nat /\ excuses'[i][d] \in Nat
            /\ excuses[i][d] <= excuses'[i][d]
      BY <1>0, <2>1, BoundAssumption DEF TypeOK
    <3>. QED
      BY <2>1, <3>1, <3>2
  <2>2. CASE hit # {}
    <3>1. mishaps \in Nat
      BY <1>0, BoundAssumption DEF TypeOK
    <3>. QED
      BY <1>0, <2>2, <3>1, BlameFacts
  <2>. QED
    BY <2>1, <2>2
<1>4. overrun' \subseteq Job /\ overrun \subseteq overrun' /\ (hit # {} => j \in overrun')
  BY <1>0 DEF TypeOK
<1>5. TypeOK'
  BY <1>0, <1>1, <1>3, <1>4 DEF TypeOK
<1>6. \A w \in workers : w.job \in Job /\ w.run \in Rows(w.job)
  BY <1>0, WorkerType
<1>7. WorkerInv'
  BY <1>0, <1>1, <1>6 DEF WorkerInv
<1>8. \A i \in Job : \A q \in Rows(i) : Held(i, q)' <=> Held(i, q)
  BY <1>1 DEF Held
<1>9. \A w \in workers : Holds(w)' <=> Holds(w)
  BY <1>1, <1>2, <1>6 DEF Holds
<1>10. Held(j, r) => hit # {}
  BY DEF Held, Holds
<1>11. AttemptInv'
  <2>1. ASSUME NEW i \in Job, NEW q \in Rows(i)
        PROVE  /\ runs'[i][q].status = "running" <=> runs'[i][q].lease # "none"
               /\ runs'[i][q].attempt <= mishaps' + 1
               /\ \/ runs'[i][q].status = "done"
                  \/ runs'[i][q].status = "running" /\ runs'[i][q].lease = "fresh"
                      /\ Held(i, q)'
                  \/ runs'[i][q].attempt <= mishaps'
    <3>1. /\ runs[i][q].status = "running" <=> runs[i][q].lease # "none"
          /\ runs[i][q].attempt <= mishaps + 1
          /\ \/ runs[i][q].status = "done"
             \/ runs[i][q].status = "running" /\ runs[i][q].lease = "fresh" /\ Held(i, q)
             \/ runs[i][q].attempt <= mishaps
      BY <1>0 DEF ClaimsInv, AttemptInv
    <3>2. runs[i][q].attempt \in Nat
      BY <1>0, RowFacts, BoundAssumption DEF Row, Attempt
    <3>3. mishaps \in Nat /\ mishaps' \in Nat
      BY <1>0, <1>3, BoundAssumption DEF TypeOK
    <3>4. CASE i # j \/ q # r
      <4>1. runs'[i][q] = runs[i][q]
        BY <1>1, <3>4
      <4>. QED
        BY <1>3, <1>8, <3>1, <3>2, <3>3, <4>1
    <3>5. CASE i = j /\ q = r
      <4>1. runs[j][r].attempt <= mishaps'
        <5>1. CASE hit # {}
          BY <1>3, <3>1, <3>2, <3>3, <3>5, <5>1
        <5>2. CASE hit = {}
          BY <1>3, <1>10, <3>1, <3>2, <3>3, <3>5, <5>2
        <5>. QED
          BY <5>1, <5>2
      <4>. QED
        BY <1>1, <3>2, <3>3, <3>5, <4>1
    <3>. QED
      BY <3>4, <3>5
  <2>. QED
    BY <1>1, <2>1 DEF AttemptInv
<1>12. OneActive'
  BY <1>0, <1>1, <1>2 DEF ClaimsInv, OneActive, Active
<1>13. SlotInv'
  BY <1>0 DEF SlotInv
<1>14. ClaimInv'
  <2>. SUFFICES ASSUME NEW w \in workers, w.phase \in Live, w.job \notin overrun'
                PROVE  Holds(w)' /\ runs'[w.job][w.run].lease = "fresh"
    BY DEF ClaimInv
  <2>1. Holds(w) /\ runs[w.job][w.run].lease = "fresh"
    BY <1>4 DEF IInv, RunnerInv, ClaimInv
  <2>2. w.job # j \/ w.run # r
    BY <1>4, <2>1
  <2>. QED
    BY <1>1, <1>6, <1>9, <2>1, <2>2
<1>15. DueInv'
  <2>1. RecordInv'
    <3>1. ASSUME NEW i \in Job, NEW q \in 1 .. MaxRun PROVE Unused(i, q) => Unused(i, q)'
      BY <1>1 DEF Unused
    <3>2. ASSUME NEW i \in Job, NEW q \in 1 .. MaxRun PROVE Recorded(i, q) => Recorded(i, q)'
      BY <1>1, <1>2 DEF Recorded
    <3>3. \A w \in workers : w.run \in 1 .. MaxRun
      BY <1>0, <1>6, RowFacts
    <3>4. ASSUME NEW w \in workers, w.phase = "recording"
          PROVE  /\ Unused(w.job, w.run)'
                 /\ runs'[w.job][w.run].status = "done"
                 /\ w.attempt = runs'[w.job][w.run].attempt
      <4>1. /\ Unused(w.job, w.run) /\ runs[w.job][w.run].status = "done"
            /\ w.attempt = runs[w.job][w.run].attempt
        BY <3>4 DEF IInv, DueInv, RecordInv
      <4>. QED
        BY <1>1, <1>2, <1>6, <3>1, <3>3, <4>1
    <3>. QED
      BY <3>1, <3>2, <3>4 DEF IInv, DueInv, RecordInv
  <2>2. LostInv'
    BY <1>1, <1>2 DEF IInv, DueInv, LostInv
  <2>3. AnchorInv'
    BY <1>1, JobAssumption DEF IInv, DueInv, AnchorInv
  <2>. QED
    BY <2>1, <2>2, <2>3 DEF DueInv
<1>16. ASSUME NEW i \in Job, NEW q \in Rows(i), runs[i][q].due # Now
       PROVE  Paid(i, q)'
  <2>1. Paid(i, q) /\ runs[i][q].due \in Due
    BY <1>0, <1>16, PaidTypes DEF DebtInv
  <2>2. Loose(i, q)' \subseteq Loose(i, q)
    BY <1>9 DEF Loose
  <2>3. Settled(i, q) => Settled(i, q)'
    BY <1>2, <1>9 DEF Settled
  <2>4. CASE (i # j \/ q # r) \/ hit = {}
    <3>1. Overdue(i, q)' => Overdue(i, q)
      BY <1>1, <1>8, <1>10, <2>4 DEF Overdue
    <3>. QED
      BY <1>0, <1>1, <1>3, <1>5, <1>7, <2>1, <2>2, <2>3, <3>1, PaidKept
  <2>5. CASE i = j /\ q = r /\ hit # {}
    <3>1. \E v \in hit : v.job = i /\ DueOf(v) = runs[i][q].due
      BY <2>5 DEF DueOf
    <3>2. excuses[i][runs[i][q].due] + 1 <= excuses'[i][runs[i][q].due]
      BY <1>3, <2>1, <3>1
    <3>. QED
      BY <1>0, <1>1, <1>5, <1>7, <2>1, <2>2, <2>3, <3>2, PaidByExcuse
  <2>. QED
    BY <2>4, <2>5
<1>17. DebtInv'
  <2>1. \A i \in Job : \A c \in 0 .. MaxRun :
          /\ excuses[i][c] \in Nat /\ excuses'[i][c] \in Nat /\ endings[i][c] \in Nat
          /\ excuses[i][c] <= excuses'[i][c]
    BY <1>0, <1>3, DebtTypes DEF Due
  <2>. QED
    BY <1>0, <1>1, <1>16, <2>1, DebtFromPaid
<1>. QED
  BY <1>3, <1>5, <1>7, <1>11, <1>12, <1>13, <1>14, <1>15, <1>17
  DEF IInv, ClaimsInv, RunnerInv

(* The holder of a claim ends it: it finishes the row, or gives it back.    *)
LEMMA EndClaimStep ==
  ASSUME IInv, NEW w \in workers, Holds(w), NEW j \in Job, NEW r \in Rows(j),
         j = w.job, r = w.run,
         NEW row \in Row, SetRow(j, r, row),
         row.due = runs[j][r].due, row.attempt = runs[j][r].attempt, row.lease = "none",
         NEW phase, Become(w, phase),
         \/ /\ w.phase = "finishing" /\ phase = "recording" /\ row.status = "done"
            /\ UNCHANGED mishaps
         \/ /\ w.phase = "admission" /\ phase = "exiting" /\ row.status = "queued"
            /\ Mishap,
         UNCHANGED <<last, installed, mode, listed, tick, inflight, endings, excuses,
                     overrun, lost>>,
         endedBy' \in [Job -> [1 .. MaxRun -> Attempt \cup {0}]]
  PROVE  IInv'
<1>0. TypeOK /\ WorkerInv /\ SlotInv /\ ClaimsInv /\ DebtInv
  BY DEF IInv, ClaimsInv, RunnerInv
<1>1. /\ runs' \in [Job -> Seq(Row)]
      /\ \A i \in Job : Len(runs'[i]) = Len(runs[i]) /\ Rows(i)' = Rows(i)
      /\ \A i \in Job : DOMAIN runs[i] = Rows(i) /\ (DOMAIN runs[i])' = Rows(i)
      /\ \A i \in Job : \A q \in Rows(i) :
           /\ runs'[i][q].due = runs[i][q].due
           /\ runs'[i][q].attempt = runs[i][q].attempt
           /\ i # j \/ q # r => runs'[i][q] = runs[i][q]
      /\ runs'[j][r] = row
  BY <1>0, SameClaims
<1>2. runs[j][r].status = "running" /\ runs[j][r].attempt = w.attempt
  BY DEF Holds
<1>3. PICK x \in Worker : /\ Moves(w, x) /\ x.phase = phase
                          /\ workers' \subseteq Worker /\ SlotInv' /\ x \in workers'
  BY <1>0, BecomeMoves
<1>4. /\ mishaps' \in 0 .. MaxMishap /\ mishaps <= mishaps' /\ ExcuseInv'
      /\ row.status # "done" => mishaps < mishaps'
  BY <1>0, MishapGrows
<1>5. TypeOK'
  BY <1>0, <1>1, <1>3, <1>4 DEF TypeOK
<1>6. \A v \in workers : v.job \in Job /\ v.run \in Rows(v.job)
  BY <1>0, WorkerType
<1>7. \A v \in workers : v.job = j /\ v.run = r /\ v.attempt = runs[j][r].attempt => v = w
  BY <1>0, <1>2 DEF WorkerInv
<1>8. WorkerInv'
  <2>1. ASSUME NEW v \in workers'
        PROVE  v.run \in Rows(v.job)' /\ v.attempt <= runs'[v.job][v.run].attempt
    <3>1. ASSUME NEW u \in workers
          PROVE  u.run \in Rows(u.job)' /\ u.attempt <= runs'[u.job][u.run].attempt
      <4>1. u.attempt <= runs[u.job][u.run].attempt
        BY <1>0 DEF WorkerInv
      <4>. QED
        BY <1>1, <1>6, <4>1
    <3>2. v \in workers \/ v = x
      BY <1>3 DEF Moves
    <3>3. x.job = w.job /\ x.run = w.run /\ x.attempt = w.attempt
      BY <1>3 DEF Moves
    <3>. QED
      BY <3>1, <3>2, <3>3
  <2>2. ASSUME NEW u \in workers', NEW v \in workers',
               u.job = v.job, u.run = v.run, u.attempt = v.attempt
        PROVE  u = v
    BY <1>0, <1>3, <2>2 DEF WorkerInv, Moves
  <2>. QED
    BY <1>3, <2>1, <2>2 DEF WorkerInv, Moves
<1>9. \A v \in workers : v # w => (Holds(v)' <=> Holds(v))
  <2>. SUFFICES ASSUME NEW v \in workers, v # w PROVE Holds(v)' <=> Holds(v)
    OBVIOUS
  <2>1. CASE v.job = j /\ v.run = r
    BY <1>1, <1>7, <2>1 DEF Holds
  <2>2. CASE v.job # j \/ v.run # r
    BY <1>1, <1>6, <2>2 DEF Holds
  <2>. QED
    BY <2>1, <2>2
<1>10. x.phase \notin Live
  BY <1>3 DEF Live
<1>11. AttemptInv'
  <2>1. ASSUME NEW i \in Job, NEW q \in Rows(i)
        PROVE  /\ runs'[i][q].status = "running" <=> runs'[i][q].lease # "none"
               /\ runs'[i][q].attempt <= mishaps' + 1
               /\ \/ runs'[i][q].status = "done"
                  \/ runs'[i][q].status = "running" /\ runs'[i][q].lease = "fresh"
                      /\ Held(i, q)'
                  \/ runs'[i][q].attempt <= mishaps'
    <3>1. /\ runs[i][q].status = "running" <=> runs[i][q].lease # "none"
          /\ runs[i][q].attempt <= mishaps + 1
          /\ \/ runs[i][q].status = "done"
             \/ runs[i][q].status = "running" /\ runs[i][q].lease = "fresh" /\ Held(i, q)
             \/ runs[i][q].attempt <= mishaps
      BY <1>0 DEF ClaimsInv, AttemptInv
    <3>2. runs[i][q].attempt \in Nat
      BY <1>0, RowFacts, BoundAssumption DEF Row, Attempt
    <3>3. mishaps \in Nat /\ mishaps' \in Nat
      BY <1>0, <1>4, BoundAssumption DEF TypeOK
    <3>4. CASE i # j \/ q # r
      <4>1. runs'[i][q] = runs[i][q]
        BY <1>1, <3>4
      <4>2. Held(i, q) => Held(i, q)'
        BY <1>3, <3>4, <4>1 DEF Held, Moves
      <4>. QED
        BY <1>4, <3>1, <3>2, <3>3, <4>1, <4>2
    <3>5. CASE i = j /\ q = r
      <4>1. row.status \in {"done", "queued"}
        OBVIOUS
      <4>. QED
        BY <1>1, <1>4, <3>1, <3>2, <3>3, <3>5, <4>1
    <3>. QED
      BY <3>4, <3>5
  <2>. QED
    BY <1>1, <2>1 DEF AttemptInv
<1>12. OneActive'
  <2>1. \A i \in Job : Active(i)' \subseteq Active(i)
    BY <1>1, <1>2 DEF Active
  <2>. QED
    BY <1>0, <2>1 DEF ClaimsInv, OneActive
<1>13. ClaimInv'
  <2>. SUFFICES ASSUME NEW v \in workers', v.phase \in Live, v.job \notin overrun'
                PROVE  Holds(v)' /\ runs'[v.job][v.run].lease = "fresh"
    BY DEF ClaimInv
  <2>1. v \in workers /\ v # w
    BY <1>3, <1>10 DEF Moves
  <2>2. Holds(v) /\ runs[v.job][v.run].lease = "fresh"
    BY <2>1 DEF IInv, RunnerInv, ClaimInv
  <2>3. v.job # j \/ v.run # r
    BY <1>7, <2>1, <2>2 DEF Holds
  <2>. QED
    BY <1>1, <1>6, <1>9, <2>1, <2>2, <2>3
<1>14. RecordInv'
  <2>1. ASSUME NEW i \in Job, NEW q \in 1 .. MaxRun PROVE Unused(i, q) => Unused(i, q)'
    BY <1>1 DEF Unused
  <2>2. ASSUME NEW i \in Job, NEW q \in 1 .. MaxRun PROVE Recorded(i, q) => Recorded(i, q)'
    BY <1>1, <1>2 DEF Recorded
  <2>3. ASSUME NEW v \in workers', v.phase = "recording"
        PROVE  /\ Unused(v.job, v.run)'
               /\ runs'[v.job][v.run].status = "done"
               /\ v.attempt = runs'[v.job][v.run].attempt
    <3>1. CASE v = x
      <4>1. r \in 1 .. MaxRun /\ ~Recorded(j, r)
        BY <1>0, <1>2, RowFacts DEF Recorded
      <4>2. Unused(j, r)
        BY <4>1 DEF IInv, DueInv, RecordInv
      <4>. QED
        BY <1>1, <1>2, <1>3, <2>1, <2>3, <3>1, <4>1, <4>2 DEF Moves
    <3>2. CASE v # x
      <4>1. v \in workers
        BY <1>3, <3>2 DEF Moves
      <4>2. /\ Unused(v.job, v.run) /\ runs[v.job][v.run].status = "done"
            /\ v.attempt = runs[v.job][v.run].attempt
        BY <2>3, <4>1 DEF IInv, DueInv, RecordInv
      <4>3. (v.job # j \/ v.run # r) /\ v.run \in 1 .. MaxRun
        BY <1>0, <1>2, <1>6, <4>1, <4>2, RowFacts
      <4>. QED
        BY <1>1, <1>6, <2>1, <4>1, <4>2, <4>3
    <3>. QED
      BY <3>1, <3>2
  <2>. QED
    BY <2>1, <2>2, <2>3 DEF IInv, DueInv, RecordInv
<1>15. LostInv'
  <2>. SUFFICES ASSUME NEW i \in Job, NEW q \in Rows(i),
                       runs'[i][q].status = "done", runs'[i][q].due = last[i]
                PROVE  \/ i \in lost
                       \/ \E v \in workers' : v.job = i /\ v.run = q /\ v.phase = "recording"
    BY <1>1 DEF LostInv
  <2>1. CASE i = j /\ q = r
    BY <1>1, <1>3, <2>1 DEF Moves
  <2>2. CASE i # j \/ q # r
    <3>1. runs[i][q].status = "done" /\ runs[i][q].due = last[i]
      BY <1>1, <2>2
    <3>2. \/ i \in lost
          \/ \E v \in workers : v.job = i /\ v.run = q /\ v.phase = "recording"
      BY <3>1 DEF IInv, DueInv, LostInv
    <3>. QED
      BY <1>3, <3>2 DEF Moves
  <2>. QED
    BY <2>1, <2>2
<1>16. AnchorInv'
  BY <1>1, JobAssumption DEF IInv, DueInv, AnchorInv
<1>17. ASSUME NEW i \in Job, NEW q \in Rows(i), runs[i][q].due # Now
       PROVE  Paid(i, q)'
  <2>1. Paid(i, q) /\ runs[i][q].due \in Due
    BY <1>0, <1>17, PaidTypes DEF DebtInv
  <2>2. Loose(i, q)' \subseteq Loose(i, q)
    BY <1>3, <1>9, <1>10 DEF Loose, Moves, Live
  <2>3. Overdue(i, q)' => Overdue(i, q)
    <3>1. CASE i = j /\ q = r
      BY <1>1, <3>1 DEF Overdue
    <3>2. CASE i # j \/ q # r
      BY <1>1, <1>3, <1>10, <3>2 DEF Overdue, Held, Moves
    <3>. QED
      BY <3>1, <3>2
  <2>4. Settled(i, q) => Settled(i, q)'
    <3>1. CASE i = j /\ q = r
      <4>1. CASE row.status = "done"
        BY <1>1, <3>1, <4>1 DEF Settled
      <4>2. CASE w.phase = "admission"
        <5>1. \A v \in workers : v.job = j /\ v.run = r /\ Holds(v) => v = w
          BY <1>7 DEF Holds
        <5>2. ~Settled(j, r)
          BY <1>2, <4>2, <5>1 DEF Settled
        <5>. QED
          BY <3>1, <5>2
      <4>. QED
        BY <4>1, <4>2
    <3>2. CASE i # j \/ q # r
      BY <1>1, <1>3, <1>9, <3>2 DEF Settled, Moves
    <3>. QED
      BY <3>1, <3>2
  <2>5. excuses[i][runs[i][q].due] <= excuses'[i][runs[i][q].due]
    BY <1>0, PaidTypes
  <2>. QED
    BY <1>0, <1>1, <1>5, <1>8, <2>1, <2>2, <2>3, <2>4, <2>5, PaidKept
<1>18. DebtInv'
  <2>1. \A i \in Job : \A c \in 0 .. MaxRun :
          /\ excuses[i][c] \in Nat /\ excuses'[i][c] \in Nat /\ endings[i][c] \in Nat
          /\ excuses[i][c] <= excuses'[i][c]
    BY <1>0, DebtTypes
  <2>. QED
    BY <1>0, <1>1, <1>17, <2>1, DebtFromPaid
<1>. QED
  BY <1>3, <1>4, <1>5, <1>8, <1>11, <1>12, <1>13, <1>14, <1>15, <1>16, <1>18
  DEF IInv, ClaimsInv, RunnerInv, DueInv

LEMMA FinishStep ==
  ASSUME IInv, NEW w \in workers, Finish(w), Holds(w)
  PROVE  IInv'
<1>0. TypeOK /\ WorkerInv
  BY DEF IInv, ClaimsInv
<1>1. PICK j \in Job, r \in 1 .. MaxRun :
        j = w.job /\ r = w.run /\ r \in Rows(j) /\ runs[j][r] \in Row
  BY <1>0, WorkerType, RowFacts
<1>2. PICK row : row = [runs[j][r] EXCEPT !.status = "done", !.lease = "none"]
  OBVIOUS
<1>3. /\ row \in Row /\ row.due = runs[j][r].due /\ row.attempt = runs[j][r].attempt
      /\ row.lease = "none" /\ row.status = "done"
  BY <1>1, <1>2 DEF Row
<1>4. runs' = [runs EXCEPT ![j][r] = [@ EXCEPT !.status = "done", !.lease = "none"]]
  BY <1>1 DEF Finish
<1>5. SetRow(j, r, row)
  BY <1>2, <1>4 DEF SetRow
<1>6. /\ w.phase = "finishing" /\ Become(w, "recording")
      /\ UNCHANGED <<last, installed, mode, listed, tick, inflight, mishaps, endings,
                     excuses, overrun, lost>>
      /\ endedBy' = [endedBy EXCEPT ![j][r] = w.attempt]
  BY <1>1 DEF Finish, instances
<1>7. endedBy' \in [Job -> [1 .. MaxRun -> Attempt \cup {0}]]
  BY <1>0, <1>6, WorkerType DEF TypeOK
<1>. QED
  BY <1>1, <1>3, <1>5, <1>6, <1>7, EndClaimStep

LEMMA BusyStep ==
  ASSUME IInv, NEW w \in workers, AdmissionBusy(w), Holds(w)
  PROVE  IInv'
<1>0. TypeOK /\ WorkerInv
  BY DEF IInv, ClaimsInv
<1>1. PICK j \in Job, r \in 1 .. MaxRun :
        j = w.job /\ r = w.run /\ r \in Rows(j) /\ runs[j][r] \in Row
  BY <1>0, WorkerType, RowFacts
<1>2. PICK row : row = [runs[j][r] EXCEPT !.status = "queued", !.lease = "none"]
  OBVIOUS
<1>3. /\ row \in Row /\ row.due = runs[j][r].due /\ row.attempt = runs[j][r].attempt
      /\ row.lease = "none" /\ row.status = "queued"
  BY <1>1, <1>2 DEF Row
<1>4. runs' = [runs EXCEPT ![j][r] = [@ EXCEPT !.status = "queued", !.lease = "none"]]
  BY <1>1 DEF AdmissionBusy
<1>5. SetRow(j, r, row)
  BY <1>2, <1>4 DEF SetRow
<1>6. /\ w.phase = "admission" /\ Become(w, "exiting") /\ Mishap
      /\ UNCHANGED <<last, installed, mode, listed, tick, inflight, endings,
                     excuses, overrun, lost, endedBy>>
  BY DEF AdmissionBusy, instances, history
<1>7. endedBy' \in [Job -> [1 .. MaxRun -> Attempt \cup {0}]]
  BY <1>0, <1>6 DEF TypeOK
<1>. QED
  BY <1>1, <1>3, <1>5, <1>6, <1>7, EndClaimStep

LEMMA LeaseExpiresStep ==
  ASSUME IInv, NEW j \in Job, NEW r \in 1 .. MaxRun, LeaseExpires(j, r)
  PROVE  IInv'
<1>0. TypeOK
  BY DEF IInv, ClaimsInv
<1>1. /\ r \in Rows(j) /\ runs[j][r] \in Row
      /\ runs[j][r].status = "running" /\ runs[j][r].lease = "fresh"
  BY <1>0, RowFacts DEF LeaseExpires
<1>2. PICK row : row = [runs[j][r] EXCEPT !.lease = "expired"]
  OBVIOUS
<1>3. /\ row \in Row /\ row.due = runs[j][r].due /\ row.attempt = runs[j][r].attempt
      /\ row.lease = "expired" /\ row.status = "running"
  BY <1>1, <1>2 DEF Row
<1>4. SetRow(j, r, row)
  <2>1. runs' = [runs EXCEPT ![j][r].lease = "expired"]
    BY DEF LeaseExpires
  <2>. QED
    BY <1>2, <2>1 DEF SetRow
<1>5. PICK hit : hit = {w \in workers : w.job = j /\ w.run = r /\ Holds(w)}
  OBVIOUS
<1>6. \/ hit = {} /\ UNCHANGED <<mishaps, excuses, overrun>>
      \/ hit # {} /\ Mishap /\ Blame(hit) /\ overrun' = overrun \cup {j}
  BY <1>5 DEF LeaseExpires
<1>7. UNCHANGED <<last, installed, mode, listed, tick, inflight, workers, endings, lost,
                  endedBy>>
  BY DEF LeaseExpires, instances
<1>. QED
  BY <1>1, <1>3, <1>4, <1>5, <1>6, <1>7, ExpireStep

-----------------------------------------------------------------------------
(* IInv is an invariant.                                                   *)

LEMMA InitIInv == Init => IInv
<1>. SUFFICES ASSUME Init PROVE IInv
  OBVIOUS
<1>1. \A j \in Job : Len(runs[j]) = 0 /\ Rows(j) = {} /\ DOMAIN runs[j] = {}
  BY DEF Init, Rows
<1>2. TypeOK
  BY <1>1, BoundAssumption, JobAssumption DEF Init, TypeOK, Due
<1>3. WorkerInv /\ AttemptInv
  BY <1>1, FS_EmptySet DEF Init, WorkerInv, AttemptInv
<1>4. ExcuseInv
  BY <1>2, BoundAssumption DEF Init, ExcuseInv
<1>5. OneActive
  BY <1>1 DEF OneActive, Active
<1>6. SlotInv
  BY FS_EmptySet, BoundAssumption DEF Init, SlotInv
<1>7. ClaimInv
  BY DEF Init, ClaimInv
<1>8. DueInv
  <2>1. \A j \in Job : last[j] = 0
    BY DEF Init
  <2>2. \A s \in Scheduler : tick[s] = Idle
    BY DEF Init
  <2>3. RecordInv
    BY <1>1, <2>1, <2>2 DEF Init, RecordInv, Unused
  <2>4. LostInv /\ AnchorInv
    BY <1>1, <2>1, <2>2, JobAssumption DEF LostInv, AnchorInv
  <2>. QED
    BY <2>3, <2>4 DEF DueInv
<1>9. DebtInv
  <2>1. \A j \in Job : \A d \in 0 .. MaxRun : endings[j][d] = 0 /\ excuses[j][d] = 0
    BY DEF Init, Due
  <2>. QED
    BY <1>1, <2>1 DEF DebtInv
<1>. QED
  BY <1>2, <1>3, <1>4, <1>5, <1>6, <1>7, <1>8, <1>9 DEF IInv, ClaimsInv, RunnerInv

LEMMA WorkerStepKeeps ==
  ASSUME IInv, NEW w \in workers, WorkerStep(w)
  PROVE  IInv'
<1>1. CASE Admit(w)
  BY <1>1, AdmitStep
<1>2. CASE AdmissionBusy(w)
  BY <1>2, BusyStep, GoOnStep
<1>3. CASE RunEnds(w)
  BY <1>3, RunEndsStep
<1>4. CASE Panics(w)
  BY <1>4, PanicsStep
<1>5. CASE Finish(w)
  BY <1>5, FinishStep, GoOnStep
<1>6. CASE FinishFails(w)
  BY <1>6, FinishFailsStep
<1>7. CASE Record(w)
  BY <1>7, RecordStep
<1>8. CASE RecordFails(w) \/ DeleteSkill(w)
  BY <1>8, GoOnStep
<1>9. CASE Exit(w)
  BY <1>9, ExitStep
<1>. QED
  BY <1>1, <1>2, <1>3, <1>4, <1>5, <1>6, <1>7, <1>8, <1>9 DEF WorkerStep

LEMMA NextKeeps ==
  ASSUME IInv, [Next]_vars
  PROVE  IInv'
<1>1. ASSUME NEW s \in Scheduler, SchedulerStep(s)
      PROVE  IInv'
  BY <1>1, InstanceStep, ReserveStep, ClaimStep, ClaimFailsStep DEF SchedulerStep
<1>2. ASSUME NEW s \in Scheduler, NEW j \in Job, Poll(s, j) \/ Misread(s, j)
      PROVE  IInv'
  BY <1>2, PollStep
<1>3. ASSUME NEW j \in Job, NEW r \in 1 .. MaxRun, LeaseExpires(j, r)
      PROVE  IInv'
  BY <1>3, LeaseExpiresStep
<1>4. ASSUME NEW w \in workers, WorkerStep(w)
      PROVE  IInv'
  BY <1>4, WorkerStepKeeps
<1>5. CASE Crash
  BY <1>5, CrashStep
<1>6. CASE UNCHANGED vars
  <2>1. UNCHANGED <<runs, last, installed, mode, listed, tick, inflight, workers, mishaps,
                    endings, excuses, overrun, lost, endedBy>>
    BY <1>6 DEF vars, store, instances, history
  <2>2. TypeOK'
    BY <2>1 DEF TypeOK, IInv, ClaimsInv
  <2>3. mishaps <= mishaps'
    BY <2>1, BoundAssumption DEF IInv, ClaimsInv, TypeOK
  <2>4. ClaimsInv' /\ ClaimInv' /\ LostInv' /\ DebtInv'
    BY <2>1, <2>2, <2>3, TablesKept DEF IInv, RunnerInv, DueInv
  <2>5. SlotInv'
    BY <2>1 DEF IInv, RunnerInv, SlotInv
  <2>6. RecordInv' /\ AnchorInv'
    BY <2>1, DueTimesKept DEF IInv, DueInv, ClaimsInv
  <2>. QED
    BY <2>4, <2>5, <2>6 DEF IInv, RunnerInv, DueInv
<1>. QED
  BY <1>1, <1>2, <1>3, <1>4, <1>5, <1>6 DEF Next

(* In every reachable state the invariant of this module holds.             *)
THEOREM Invariant == Spec => []IInv
<1>. QED
  BY InitIInv, NextKeeps, PTL DEF Spec

-----------------------------------------------------------------------------
(* The theorems.                                                           *)

(* The tables, the reservations and the goroutines are well-formed.         *)
THEOREM TypeCorrect == Spec => []TypeOK
<1>1. IInv => TypeOK
  BY DEF IInv, ClaimsInv
<1>. QED
  BY <1>1, Invariant, PTL

(* An instance runs a job once at a time and keeps its number of slots, and *)
(* two instances execute a job together only after a lease ran out under a  *)
(* worker (checkAndRun, ClaimScheduledRun).                                 *)
THEOREM OneRunnerThm == Spec => []OneRunnerUnlessOverrun
<1>1. ASSUME IInv PROVE OneRunnerUnlessOverrun
  <2>0. TypeOK /\ WorkerInv /\ SlotInv /\ ClaimInv /\ OneActive
    BY <1>1 DEF IInv, ClaimsInv, RunnerInv
  <2>1. ASSUME NEW s \in Scheduler
        PROVE  Cardinality({w \in workers : w.host = s}) <= Slots
    <3>. DEFINE mine == {w \in workers : w.host = s}
                f == [w \in mine |-> w.job]
    <3>1. f \in [mine -> inflight[s]] /\ \A v, w \in mine : f[v] = f[w] => v = w
      BY <2>0 DEF SlotInv
    <3>2. f \in Injection(mine, inflight[s])
      BY <3>1 DEF Injection, IsInjective
    <3>3. IsFiniteSet(inflight[s]) /\ Cardinality(inflight[s]) <= Slots
      BY <2>0 DEF SlotInv
    <3>. HIDE DEF mine, f
    <3>4. IsFiniteSet(mine) /\ Cardinality(mine) <= Cardinality(inflight[s])
      BY <3>2, <3>3, FS_Injection
    <3>5. Cardinality(mine) \in Nat /\ Cardinality(inflight[s]) \in Nat
      BY <3>3, <3>4, FS_CardinalityType
    <3>6. Cardinality(mine) <= Slots
      BY <3>3, <3>4, <3>5, BoundAssumption
    <3>. QED
      BY <3>6 DEF mine
  <2>2. ASSUME NEW v \in workers, NEW w \in workers, v.job = w.job, v # w
        PROVE  /\ v.host # w.host
               /\ v.phase = "executing" /\ w.phase = "executing" => v.job \in overrun
    <3>1. v.host # w.host
      BY <2>0, <2>2 DEF SlotInv
    <3>2. ASSUME v.phase = "executing", w.phase = "executing", v.job \notin overrun
          PROVE  FALSE
      <4>1. Holds(v) /\ Holds(w)
        BY <2>0, <2>2, <3>2 DEF ClaimInv, Live
      <4>2. v.job \in Job /\ v.run \in Rows(v.job) /\ w.run \in Rows(v.job)
        BY <2>0, <2>2, WorkerType
      <4>3. DOMAIN runs[v.job] = Rows(v.job)
        BY <2>0, <4>2, RowFacts
      <4>4. v.run \in Active(v.job) /\ w.run \in Active(v.job)
        BY <2>2, <4>1, <4>2, <4>3 DEF Active, Holds
      <4>5. v.run = w.run
        BY <2>0, <4>2, <4>4 DEF OneActive
      <4>6. v.attempt = w.attempt
        BY <2>2, <4>1, <4>5 DEF Holds
      <4>. QED
        BY <2>0, <2>2, <4>5, <4>6 DEF WorkerInv
    <3>. QED
      BY <3>1, <3>2
  <2>. QED
    BY <2>1, <2>2 DEF OneRunnerUnlessOverrun
<1>. QED
  BY <1>1, Invariant, PTL

(* Every execution of a due time beyond the first is explained by a mishap  *)
(* that hit a claim for it, however polls, claims, reloads, crashes and     *)
(* leases interleave (ClaimScheduledRun, finishScheduledRun).               *)
THEOREM RepeatsThm == Spec => []RepeatsAreExplained
<1>1. ASSUME IInv PROVE RepeatsAreExplained
  <2>. SUFFICES ASSUME NEW j \in Job, NEW d \in 0 .. MaxRun
                PROVE  endings[j][d] <= 1 + excuses[j][d]
    BY DEF RepeatsAreExplained
  <2>0. TypeOK /\ WorkerInv /\ DebtInv
    BY <1>1 DEF IInv, ClaimsInv
  <2>1. endings[j][d] \in Nat /\ excuses[j][d] \in Nat
    BY <2>0, DebtTypes
  <2>2. CASE \A r \in Rows(j) : runs[j][r].due # d
    <3>1. endings[j][d] <= excuses[j][d]
      BY <2>0, <2>2 DEF DebtInv
    <3>. QED
      BY <2>1, <3>1
  <2>3. CASE \E r \in Rows(j) : runs[j][r].due = d
    <3>1. PICK r \in Rows(j) : runs[j][r].due = d
      BY <2>3
    <3>2. d # Now
      BY ValueAssumption
    <3>3. Paid(j, r)
      BY <2>0, <3>1, <3>2 DEF DebtInv
    <3>. DEFINE l == Cardinality(Loose(j, r))
                o == One(Overdue(j, r))
                s == One(Settled(j, r))
    <3>4. l \in Nat /\ o \in 0 .. 1 /\ s \in 0 .. 1
      BY <2>0, PaidTypes
    <3>5. endings[j][d] + l + o <= excuses[j][d] + s
      BY <3>1, <3>3 DEF Paid
    <3>. HIDE DEF l, o, s
    <3>. QED
      BY <2>1, <3>4, <3>5
  <2>. QED
    BY <2>2, <2>3
<1>. QED
  BY <1>1, Invariant, PTL

(* A due time that is refused because its row is done belongs to a job      *)
(* whose last_run_at is about to move on, or whose write was lost           *)
(* (finishScheduledRun, setLastRunFromScheduledRun).                        *)
THEOREM RefusedThm == Spec => []RefusedOnlyAfterLostWrite
<1>1. ASSUME IInv PROVE RefusedOnlyAfterLostWrite
  <2>. SUFFICES ASSUME NEW j \in installed, Active(j) = {}, Taken(j, NextDue(j))
                PROVE  \/ j \in lost
                       \/ \E w \in workers : w.job = j /\ w.phase = "recording"
    BY DEF RefusedOnlyAfterLostWrite
  <2>1. TypeOK /\ LostInv /\ j \in Job
    BY <1>1 DEF IInv, ClaimsInv, DueInv, TypeOK
  <2>2. DOMAIN runs[j] = Rows(j)
    BY <2>1, RowFacts
  <2>3. PICK r \in Rows(j) : runs[j][r].due = NextDue(j) /\ NextDue(j) # Now
    BY <2>2 DEF Taken
  <2>4. runs[j][r].due = last[j] /\ runs[j][r].status = "done"
    BY <2>2, <2>3 DEF NextDue, FirstDue, Active
  <2>. QED
    BY <2>1, <2>4 DEF LostInv
<1>. QED
  BY <1>1, Invariant, PTL

(* Runs of an anchored job are recorded in order (setLastRunFromScheduledRun). *)
THEOREM LastMovesThm == Spec => LastRunMovesForward
<1>1. ASSUME IInv, [Next]_vars
      PROVE  \A j \in Anchored : last'[j] >= last[j]
  <2>0. TypeOK /\ WorkerInv /\ RecordInv /\ AnchorInv
    BY <1>1 DEF IInv, ClaimsInv, DueInv
  <2>1. \A j \in Anchored : j \in Job /\ last[j] \in Nat
    BY <2>0, JobAssumption, BoundAssumption DEF TypeOK
  <2>2. UNCHANGED last \/ \E w \in workers : Record(w)
    BY <1>1 DEF Next, SchedulerStep, WorkerStep, Start, Stop, Stopped, Load, Poll, Misread,
                Visit, Reserve, Claim, ClaimFails, LeaseExpires, Crash, Admit, AdmissionBusy, RunEnds, Panics,
                Finish, FinishFails, RecordFails, DeleteSkill, Exit, vars, store
  <2>3. ASSUME NEW w \in workers, Record(w), NEW j \in Anchored
        PROVE  last'[j] >= last[j]
    <3>1. last' = [last EXCEPT ![w.job] = w.run] /\ w.phase = "recording"
      BY <2>3 DEF Record
    <3>2. last'[j] = IF j = w.job THEN w.run ELSE last[j]
      BY <2>0, <2>1, <3>1 DEF TypeOK
    <3>3. CASE j = w.job
      <4>1. /\ Len(runs[j]) \in Nat /\ w.run \in 1 .. Len(runs[j])
        BY <2>0, <2>1, <3>3, RowFacts DEF WorkerInv, Rows
      <4>2. \A r \in Rows(j) : runs[j][r].due # w.run
        BY <2>0, <3>1, <3>3 DEF RecordInv, Unused
      <4>3. \A r \in Rows(j) : runs[j][r].due = r - 1
        BY <2>0 DEF AnchorInv
      <4>4. w.run + 1 \notin Rows(j)
        BY <4>1, <4>2, <4>3
      <4>5. w.run = Len(runs[j])
        BY <4>1, <4>4 DEF Rows
      <4>6. last[j] <= Len(runs[j])
        BY <2>0 DEF AnchorInv
      <4>. QED
        BY <2>1, <3>2, <3>3, <4>1, <4>5, <4>6
    <3>4. CASE j # w.job
      BY <2>1, <3>2, <3>4
    <3>. QED
      BY <3>3, <3>4
  <2>. QED
    BY <2>1, <2>2, <2>3
<1>. QED
  BY <1>1, Invariant, PTL DEF Spec, LastRunMovesForward

-----------------------------------------------------------------------------
(* The rows as leased work.                                                *)

LEMMA ItemFacts ==
  ASSUME NEW i \in RowItem
  PROVE  i[1] \in Job /\ i[2] \in 1 .. MaxRun /\ i = <<i[1], i[2]>>
BY DEF RowItem

(* What an item is, read from its row.                                     *)
LEMMA ItemOfRow ==
  ASSUME TypeOK, NEW j \in Job, NEW r \in Rows(j)
  PROVE  /\ RowAttempt(j, r) = runs[j][r].attempt
         /\ RowStage(j, r) = "open" <=> runs[j][r].status = "queued"
         /\ RowStage(j, r) = "held" <=> runs[j][r].status = "running"
         /\ RowStage(j, r) = "closed" <=> runs[j][r].status = "done"
<1>1. r \in DOMAIN runs[j] /\ runs[j][r].status \in {"queued", "running", "done"}
  BY RowFacts DEF Row
<1>. QED
  BY <1>1 DEF RowStage, RowAttempt

(* A step that keeps the status and the attempt of every row keeps the      *)
(* items.                                                                  *)
LEMMA ItemsKept ==
  ASSUME TypeOK, TypeOK', UNCHANGED endedBy,
         \A j \in Job : Rows(j)' = Rows(j),
         \A j \in Job : \A r \in Rows(j) :
           /\ runs'[j][r].status = runs[j][r].status
           /\ runs'[j][r].attempt = runs[j][r].attempt
  PROVE  UNCHANGED Queue!vars
<1>1. ASSUME NEW j \in Job, NEW r \in 1 .. MaxRun
      PROVE  RowStage(j, r)' = RowStage(j, r) /\ RowAttempt(j, r)' = RowAttempt(j, r)
  <2>1. runs[j] \in Seq(Row) /\ runs'[j] \in Seq(Row) /\ Len(runs'[j]) = Len(runs[j])
    <3>1. runs[j] \in Seq(Row) /\ runs'[j] \in Seq(Row)
      BY DEF TypeOK
    <3>2. Len(runs[j]) \in Nat /\ Len(runs'[j]) \in Nat /\ 1 .. Len(runs'[j]) = 1 .. Len(runs[j])
      BY <3>1 DEF Rows
    <3>. QED
      BY <3>1, <3>2
  <2>2. DOMAIN runs[j] = Rows(j) /\ DOMAIN runs'[j] = Rows(j)
    BY <2>1 DEF Rows
  <2>. QED
    BY <2>2 DEF RowStage, RowAttempt
<1>2. \A i \in RowItem : RowStage(i[1], i[2])' = RowStage(i[1], i[2])
  BY <1>1, ItemFacts
<1>3. \A i \in RowItem : RowAttempt(i[1], i[2])' = RowAttempt(i[1], i[2])
  BY <1>1, ItemFacts
<1>. QED
  BY <1>2, <1>3 DEF Queue!vars

(* A step that changes the status or the attempt of one row changes one     *)
(* item.                                                                   *)
LEMMA ItemChanged ==
  ASSUME TypeOK, NEW j \in Job, NEW r \in 1 .. MaxRun, r \in Rows(j)',
         \A i \in Job : DOMAIN runs[i] = Rows(i) /\ DOMAIN runs'[i] = Rows(i)',
         \A i \in Job, q \in 1 .. MaxRun :
           \/ i = j /\ q = r
           \/ /\ q \in Rows(i)' <=> q \in Rows(i)
              /\ q \in Rows(i) => runs'[i][q].status = runs[i][q].status
              /\ q \in Rows(i) => runs'[i][q].attempt = runs[i][q].attempt
  PROVE  \A i \in RowItem :
           /\ i # <<j, r>> => /\ RowStage(i[1], i[2])' = RowStage(i[1], i[2])
                              /\ RowAttempt(i[1], i[2])' = RowAttempt(i[1], i[2])
           /\ i = <<j, r>> =>
                /\ runs'[j][r].status = "queued" => RowStage(i[1], i[2])' = "open"
                /\ runs'[j][r].status = "running" => RowStage(i[1], i[2])' = "held"
                /\ runs'[j][r].status = "done" => RowStage(i[1], i[2])' = "closed"
                /\ RowAttempt(i[1], i[2])' = runs'[j][r].attempt
<1>. SUFFICES ASSUME NEW i \in RowItem
              PROVE  /\ i # <<j, r>> => /\ RowStage(i[1], i[2])' = RowStage(i[1], i[2])
                                        /\ RowAttempt(i[1], i[2])' = RowAttempt(i[1], i[2])
                     /\ i = <<j, r>> =>
                          /\ runs'[j][r].status = "queued" => RowStage(i[1], i[2])' = "open"
                          /\ runs'[j][r].status = "running" => RowStage(i[1], i[2])' = "held"
                          /\ runs'[j][r].status = "done" => RowStage(i[1], i[2])' = "closed"
                          /\ RowAttempt(i[1], i[2])' = runs'[j][r].attempt
  OBVIOUS
<1>1. PICK k \in Job, q \in 1 .. MaxRun : i[1] = k /\ i[2] = q /\ i = <<k, q>>
  BY ItemFacts
<1>2. CASE i # <<j, r>>
  <2>1. ~ (k = j /\ q = r)
    BY <1>1, <1>2
  <2>2. RowStage(k, q)' = RowStage(k, q) /\ RowAttempt(k, q)' = RowAttempt(k, q)
    BY <2>1 DEF RowStage, RowAttempt
  <2>. QED
    BY <1>1, <1>2, <2>2
<1>3. CASE i = <<j, r>>
  <2>1. k = j /\ q = r
    BY <1>1, <1>3
  <2>2. r \in DOMAIN runs'[j]
    OBVIOUS
  <2>3. /\ runs'[j][r].status = "queued" => RowStage(j, r)' = "open"
        /\ runs'[j][r].status = "running" => RowStage(j, r)' = "held"
        /\ runs'[j][r].status = "done" => RowStage(j, r)' = "closed"
        /\ RowAttempt(j, r)' = runs'[j][r].attempt
    BY <2>2 DEF RowStage, RowAttempt
  <2>. QED
    BY <1>1, <1>3, <2>1, <2>3
<1>. QED
  BY <1>2, <1>3

(* A row that is set by SetRow.                                            *)
LEMMA ItemSet ==
  ASSUME TypeOK, NEW j \in Job, NEW r \in Rows(j), NEW row \in Row, SetRow(j, r, row)
  PROVE  \A i \in RowItem :
           /\ i # <<j, r>> => /\ RowStage(i[1], i[2])' = RowStage(i[1], i[2])
                              /\ RowAttempt(i[1], i[2])' = RowAttempt(i[1], i[2])
           /\ i = <<j, r>> =>
                /\ row.status = "queued" => RowStage(i[1], i[2])' = "open"
                /\ row.status = "running" => RowStage(i[1], i[2])' = "held"
                /\ row.status = "done" => RowStage(i[1], i[2])' = "closed"
                /\ RowAttempt(i[1], i[2])' = row.attempt
<1>1. /\ runs' \in [Job -> Seq(Row)]
      /\ \A i \in Job : Len(runs'[i]) = Len(runs[i]) /\ Rows(i)' = Rows(i)
      /\ \A i \in Job : \A q \in Rows(i) :
           runs'[i][q] = IF i = j /\ q = r THEN row ELSE runs[i][q]
  BY RowChanges
<1>2. \A i \in Job : DOMAIN runs[i] = Rows(i) /\ DOMAIN runs'[i] = Rows(i)'
  BY <1>1, RowFacts DEF Rows
<1>3. runs'[j][r] = row /\ r \in Rows(j)' /\ r \in 1 .. MaxRun
  BY <1>1, RowFacts
<1>4. \A i \in Job, q \in 1 .. MaxRun :
        \/ i = j /\ q = r
        \/ /\ q \in Rows(i)' <=> q \in Rows(i)
           /\ q \in Rows(i) => runs'[i][q].status = runs[i][q].status
           /\ q \in Rows(i) => runs'[i][q].attempt = runs[i][q].attempt
  BY <1>1
<1>. QED
  BY <1>2, <1>3, <1>4, ItemChanged

(* A claim is refused or takes one row: the open one, or a new one.         *)
LEMMA ClaimTakes ==
  ASSUME IInv, TypeOK', NEW s \in Scheduler, Claim(s)
  PROVE  UNCHANGED Queue!vars \/ \E S \in SUBSET RowItem : Queue!Take(S)
<1>0. TypeOK /\ UNCHANGED endedBy
  BY DEF IInv, ClaimsInv, Claim, history
<1>1. PICK j \in Job, due \in Due : j = tick[s].job /\ due = tick[s].due
  BY <1>0 DEF Claim, TypeOK, Tick
<1>2. CASE UNCHANGED runs
  BY <1>0, <1>2, ItemsKept DEF Rows
<1>3. ASSUME NEW r \in Active(j),
             runs' = [runs EXCEPT ![j][r] = [@ EXCEPT !.status = "running",
                                                      !.attempt = runs[j][r].attempt + 1,
                                                      !.lease = "fresh"]]
      PROVE  \E S \in SUBSET RowItem : Queue!Take(S)
  <2>1. /\ r \in Rows(j) /\ runs[j][r] \in Row /\ runs[j][r].status # "done"
        /\ <<j, r>> \in RowItem
    BY <1>0, RowFacts DEF Active, RowItem
  <2>. DEFINE row == [runs[j][r] EXCEPT !.status = "running",
                                        !.attempt = runs[j][r].attempt + 1,
                                        !.lease = "fresh"]
  <2>2. SetRow(j, r, row)
    BY <1>3 DEF SetRow
  <2>3. /\ runs[j][r].attempt + 1 \in Attempt
    <3>1. /\ runs \in [Job -> Seq(Row)] /\ runs' \in [Job -> Seq(Row)]
          /\ runs[j] \in Seq(Row) /\ r \in DOMAIN runs[j]
      BY <1>0, <2>1, RowFacts DEF TypeOK
    <3>2. runs'[j] = [runs[j] EXCEPT ![r] = row]
      BY <1>3, <3>1
    <3>3. r \in DOMAIN runs'[j] /\ runs'[j][r] = row
      BY <3>1, <3>2
    <3>4. runs'[j][r] \in Row
      BY <3>1, <3>3
    <3>. QED
      BY <2>1, <3>3, <3>4 DEF Row
  <2>4. row \in Row /\ row.status = "running" /\ row.attempt = runs[j][r].attempt + 1
    BY <2>1, <2>3 DEF Row
  <2>. HIDE DEF row
  <2>5. \A i \in RowItem :
          /\ i # <<j, r>> => /\ RowStage(i[1], i[2])' = RowStage(i[1], i[2])
                             /\ RowAttempt(i[1], i[2])' = RowAttempt(i[1], i[2])
          /\ i = <<j, r>> => /\ RowStage(i[1], i[2])' = "held"
                             /\ RowAttempt(i[1], i[2])' = runs[j][r].attempt + 1
    BY <1>0, <2>1, <2>2, <2>4, ItemSet
  <2>6. RowAttempt(j, r) = runs[j][r].attempt /\ RowStage(j, r) # "closed"
    BY <1>0, <2>1, ItemOfRow
  <2>7. Queue!Take({<<j, r>>})
    BY <1>0, <2>1, <2>5, <2>6 DEF Queue!Take
  <2>. QED
    BY <2>1, <2>7
<1>4. ASSUME Len(runs[j]) < MaxRun,
             runs' = [runs EXCEPT ![j] = Append(@, [due |-> due, status |-> "running",
                                                    attempt |-> 1, lease |-> "fresh"])]
      PROVE  \E S \in SUBSET RowItem : Queue!Take(S)
  <2>. DEFINE row == [due |-> due, status |-> "running", attempt |-> 1, lease |-> "fresh"]
              r == Len(runs[j]) + 1
  <2>1. row \in Row /\ row.status = "running" /\ row.attempt = 1 /\ AddRow(j, row)
    BY <1>4, BoundAssumption DEF Row, Attempt, AddRow
  <2>. HIDE DEF row
  <2>2. /\ Len(runs[j]) \in Nat /\ Rows(j)' = Rows(j) \cup {r} /\ r \notin Rows(j)
        /\ \A i \in Job \ {j} : Rows(i)' = Rows(i)
        /\ \A i \in Job : \A q \in Rows(i) : runs'[i][q] = runs[i][q]
        /\ runs'[j][r] = row /\ runs' \in [Job -> Seq(Row)]
    BY <1>0, <1>4, <2>1, RowAdded
  <2>3. r \in 1 .. MaxRun /\ <<j, r>> \in RowItem
    BY <1>4, <2>2, BoundAssumption DEF RowItem
  <2>. HIDE DEF r
  <2>4. \A i \in Job : DOMAIN runs[i] = Rows(i) /\ DOMAIN runs'[i] = Rows(i)'
    BY <1>0, <2>2, RowFacts DEF Rows
  <2>5. \A i \in Job, q \in 1 .. MaxRun :
          \/ i = j /\ q = r
          \/ /\ q \in Rows(i)' <=> q \in Rows(i)
             /\ q \in Rows(i) => runs'[i][q].status = runs[i][q].status
             /\ q \in Rows(i) => runs'[i][q].attempt = runs[i][q].attempt
    BY <2>2
  <2>6. \A i \in RowItem :
          /\ i # <<j, r>> => /\ RowStage(i[1], i[2])' = RowStage(i[1], i[2])
                             /\ RowAttempt(i[1], i[2])' = RowAttempt(i[1], i[2])
          /\ i = <<j, r>> => /\ RowStage(i[1], i[2])' = "held"
                             /\ RowAttempt(i[1], i[2])' = 1
    BY <1>0, <2>1, <2>2, <2>3, <2>4, <2>5, ItemChanged
  <2>7. RowAttempt(j, r) = 0 /\ RowStage(j, r) = "open"
    BY <2>2, <2>4 DEF RowAttempt, RowStage
  <2>8. Queue!Take({<<j, r>>})
    BY <1>0, <2>3, <2>6, <2>7 DEF Queue!Take
  <2>. QED
    BY <2>3, <2>8
<1>. QED
  BY <1>1, <1>2, <1>3, <1>4 DEF Claim

(* One item leaves its holder, as a step of the queue.                      *)
LEMMA ItemClosed ==
  ASSUME NEW j \in Job, NEW r \in 1 .. MaxRun, RowStage(j, r) = "held",
         \A i \in RowItem :
           /\ i # <<j, r>> => RowStage(i[1], i[2])' = RowStage(i[1], i[2])
           /\ i = <<j, r>> => RowStage(i[1], i[2])' = "closed"
           /\ RowAttempt(i[1], i[2])' = RowAttempt(i[1], i[2])
           /\ endedBy'[i[1]][i[2]] =
                IF i = <<j, r>> THEN RowAttempt(j, r) ELSE endedBy[i[1]][i[2]]
  PROVE  Queue!Close(<<j, r>>)
<1>1. <<j, r>> \in RowItem /\ <<j, r>>[1] = j /\ <<j, r>>[2] = r
  BY DEF RowItem
<1>. DEFINE st == [i \in RowItem |-> RowStage(i[1], i[2])]
            gen == [i \in RowItem |-> RowAttempt(i[1], i[2])]
            by == [i \in RowItem |-> endedBy[i[1]][i[2]]]
<1>2. st[<<j, r>>] = "held" /\ gen[<<j, r>>] = RowAttempt(j, r)
  BY <1>1
<1>3. st' = [st EXCEPT ![<<j, r>>] = "closed"]
  OBVIOUS
<1>4. gen' = gen
  OBVIOUS
<1>5. by' = [by EXCEPT ![<<j, r>>] = RowAttempt(j, r)]
  OBVIOUS
<1>. QED
  BY <1>2, <1>3, <1>4, <1>5 DEF Queue!Close

LEMMA ItemGivenBack ==
  ASSUME NEW j \in Job, NEW r \in 1 .. MaxRun, RowStage(j, r) = "held",
         UNCHANGED endedBy,
         \A i \in RowItem :
           /\ i # <<j, r>> => RowStage(i[1], i[2])' = RowStage(i[1], i[2])
           /\ i = <<j, r>> => RowStage(i[1], i[2])' = "open"
           /\ RowAttempt(i[1], i[2])' = RowAttempt(i[1], i[2])
  PROVE  Queue!GiveBack(<<j, r>>)
<1>1. <<j, r>> \in RowItem /\ <<j, r>>[1] = j /\ <<j, r>>[2] = r
  BY DEF RowItem
<1>. DEFINE st == [i \in RowItem |-> RowStage(i[1], i[2])]
            gen == [i \in RowItem |-> RowAttempt(i[1], i[2])]
<1>2. st[<<j, r>>] = "held"
  BY <1>1
<1>3. st' = [st EXCEPT ![<<j, r>>] = "open"]
  OBVIOUS
<1>4. gen' = gen
  OBVIOUS
<1>. QED
  BY <1>2, <1>3, <1>4 DEF Queue!GiveBack

(* The holder of a claim closes the row in its own name.                    *)
LEMMA FinishCloses ==
  ASSUME IInv, TypeOK', NEW w \in workers, Finish(w)
  PROVE  UNCHANGED Queue!vars \/ \E i \in RowItem : Queue!Close(i)
<1>0. TypeOK /\ WorkerInv
  BY DEF IInv, ClaimsInv
<1>1. CASE ~ Holds(w)
  BY <1>0, <1>1, ItemsKept DEF Finish, Rows
<1>2. CASE Holds(w)
  <2>1. PICK j \in Job, r \in 1 .. MaxRun :
          j = w.job /\ r = w.run /\ r \in Rows(j) /\ runs[j][r] \in Row
    BY <1>0, WorkerType, RowFacts
  <2>. DEFINE row == [runs[j][r] EXCEPT !.status = "done", !.lease = "none"]
  <2>2. /\ row \in Row /\ row.status = "done" /\ row.attempt = runs[j][r].attempt
        /\ SetRow(j, r, row)
    BY <1>2, <2>1 DEF Finish, SetRow, Row
  <2>. HIDE DEF row
  <2>3. \A i \in RowItem :
          /\ i # <<j, r>> => RowStage(i[1], i[2])' = RowStage(i[1], i[2])
          /\ i = <<j, r>> => RowStage(i[1], i[2])' = "closed"
          /\ RowAttempt(i[1], i[2])' = RowAttempt(i[1], i[2])
    BY <1>0, <2>1, <2>2, ItemSet, ItemOfRow, ItemFacts
  <2>4. /\ RowStage(j, r) = "held" /\ RowAttempt(j, r) = runs[j][r].attempt
        /\ w.attempt = runs[j][r].attempt
    BY <1>0, <1>2, <2>1, ItemOfRow DEF Holds
  <2>5. \A k \in Job, q \in 1 .. MaxRun :
          endedBy'[k][q] = IF k = j /\ q = r THEN w.attempt ELSE endedBy[k][q]
    <3>1. endedBy' = [endedBy EXCEPT ![j][r] = w.attempt]
      BY <1>2, <2>1 DEF Finish
    <3>2. endedBy \in [Job -> [1 .. MaxRun -> Attempt \cup {0}]]
      BY <1>0 DEF TypeOK
    <3>. QED
      BY <3>1, <3>2
  <2>6. \A i \in RowItem : endedBy'[i[1]][i[2]] =
          IF i = <<j, r>> THEN RowAttempt(j, r) ELSE endedBy[i[1]][i[2]]
    BY <2>4, <2>5, ItemFacts
  <2>7. <<j, r>> \in RowItem
    BY DEF RowItem
  <2>8. Queue!Close(<<j, r>>)
    BY <2>3, <2>4, <2>6, <2>7, ItemClosed
  <2>. QED
    BY <2>7, <2>8
<1>. QED
  BY <1>1, <1>2

(* A claim that meets a busy account gives its row back.                    *)
LEMMA BusyGivesBack ==
  ASSUME IInv, TypeOK', NEW w \in workers, AdmissionBusy(w)
  PROVE  UNCHANGED Queue!vars \/ \E i \in RowItem : Queue!GiveBack(i)
<1>0. TypeOK /\ WorkerInv /\ UNCHANGED endedBy
  BY DEF IInv, ClaimsInv, AdmissionBusy, history
<1>1. CASE ~ Holds(w)
  BY <1>0, <1>1, ItemsKept DEF AdmissionBusy, Rows
<1>2. CASE Holds(w)
  <2>1. PICK j \in Job, r \in 1 .. MaxRun :
          j = w.job /\ r = w.run /\ r \in Rows(j) /\ runs[j][r] \in Row
    BY <1>0, WorkerType, RowFacts
  <2>. DEFINE row == [runs[j][r] EXCEPT !.status = "queued", !.lease = "none"]
  <2>2. /\ row \in Row /\ row.status = "queued" /\ row.attempt = runs[j][r].attempt
        /\ SetRow(j, r, row)
    BY <1>2, <2>1 DEF AdmissionBusy, SetRow, Row
  <2>. HIDE DEF row
  <2>3. \A i \in RowItem :
          /\ i # <<j, r>> => RowStage(i[1], i[2])' = RowStage(i[1], i[2])
          /\ i = <<j, r>> => RowStage(i[1], i[2])' = "open"
          /\ RowAttempt(i[1], i[2])' = RowAttempt(i[1], i[2])
    BY <1>0, <2>1, <2>2, ItemSet, ItemOfRow, ItemFacts
  <2>4. RowStage(j, r) = "held" /\ RowAttempt(j, r) = runs[j][r].attempt
    BY <1>0, <1>2, <2>1, ItemOfRow DEF Holds
  <2>5. <<j, r>> \in RowItem
    BY DEF RowItem
  <2>6. Queue!GiveBack(<<j, r>>)
    BY <1>0, <2>3, <2>4, <2>5, ItemGivenBack
  <2>. QED
    BY <2>5, <2>6
<1>. QED
  BY <1>1, <1>2

(* scheduled_runs implements the leased queue: each row is taken by one     *)
(* claim at a time, only the attempt that holds it closes it or gives it    *)
(* back, and a row that is done is never claimed again (ClaimScheduledRun,  *)
(* finishScheduledRun).                                                    *)
THEOREM Refinement == Spec => ImplementsLeasedWork
<1>1. Init => Queue!Init
  <2>. SUFFICES ASSUME Init
                PROVE  Queue!Init
    OBVIOUS
  <2>1. \A j \in Job, r \in 1 .. MaxRun :
          RowStage(j, r) = "open" /\ RowAttempt(j, r) = 0 /\ endedBy[j][r] = 0
    BY DEF Init, RowStage, RowAttempt
  <2>2. \A i \in RowItem : /\ RowStage(i[1], i[2]) = "open"
                            /\ RowAttempt(i[1], i[2]) = 0 /\ endedBy[i[1]][i[2]] = 0
    BY <2>1, ItemFacts
  <2>. QED
    BY <2>2 DEF Queue!Init
<1>2. IInv /\ IInv' /\ [Next]_vars => [Queue!Next]_(Queue!vars)
  <2>. SUFFICES ASSUME IInv, IInv', [Next]_vars
                PROVE  [Queue!Next]_(Queue!vars)
    OBVIOUS
  <2>0. TypeOK /\ TypeOK'
    BY DEF IInv, ClaimsInv
  <2>1. CASE UNCHANGED <<runs, endedBy>>
    BY <2>0, <2>1, ItemsKept DEF Rows
  <2>2. ASSUME NEW j \in Job, NEW r \in 1 .. MaxRun, LeaseExpires(j, r)
        PROVE  UNCHANGED Queue!vars
    <3>. DEFINE row == [runs[j][r] EXCEPT !.lease = "expired"]
    <3>1. /\ r \in Rows(j) /\ runs[j][r] \in Row /\ UNCHANGED endedBy
          /\ runs' = [runs EXCEPT ![j][r].lease = "expired"]
      BY <2>0, <2>2, RowFacts DEF LeaseExpires
    <3>2. /\ SetRow(j, r, row) /\ row \in Row
          /\ row.status = runs[j][r].status /\ row.attempt = runs[j][r].attempt
      BY <3>1 DEF SetRow, Row
    <3>. HIDE DEF row
    <3>3. /\ \A i \in Job : Rows(i)' = Rows(i)
          /\ \A i \in Job : \A q \in Rows(i) :
               runs'[i][q] = IF i = j /\ q = r THEN row ELSE runs[i][q]
      BY <2>0, <3>1, <3>2, RowChanges
    <3>. QED
      BY <2>0, <3>1, <3>2, <3>3, ItemsKept
  <2>3. ASSUME NEW s \in Scheduler, SchedulerStep(s)
        PROVE  \/ UNCHANGED <<runs, endedBy>> \/ UNCHANGED Queue!vars
               \/ \E S \in SUBSET RowItem : Queue!Take(S)
    BY <2>0, <2>3, ClaimTakes DEF SchedulerStep, Start, Stop, Stopped, Load, Reserve,
       ClaimFails, store, history
  <2>4. ASSUME NEW w \in workers, WorkerStep(w)
        PROVE  \/ UNCHANGED <<runs, endedBy>> \/ UNCHANGED Queue!vars
               \/ \E i \in RowItem : Queue!Close(i) \/ Queue!GiveBack(i)
    BY <2>0, <2>4, FinishCloses, BusyGivesBack DEF WorkerStep, Admit, RunEnds, Panics,
       FinishFails, Record, RecordFails, DeleteSkill, Exit, store, history
  <2>5. ASSUME \/ \E s \in Scheduler, j \in Job : Poll(s, j) \/ Misread(s, j)
               \/ Crash \/ UNCHANGED vars
        PROVE  UNCHANGED <<runs, endedBy>>
    BY <2>5 DEF Poll, Misread, Visit, Crash, vars, store, history
  <2>. QED
    BY <2>1, <2>2, <2>3, <2>4, <2>5 DEF Next, Queue!Next
<1>. QED
  BY <1>1, <1>2, Invariant, PTL DEF Spec, ImplementsLeasedWork, Queue!Spec

=============================================================================
