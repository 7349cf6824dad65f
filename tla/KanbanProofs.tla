------------------------------ MODULE KanbanProofs ------------------------------
(***************************************************************************)
(* Proofs about Kanban for any tasks, any dispatchers and any bounds.       *)
(*                                                                         *)
(* The argument: run ids are handed out in order (Numbered), so a new run   *)
(* takes a row nobody has seen, and two dispatchers that took theirs from   *)
(* a claim or a reclaim hold different ones (DispatchInv).  Every call that *)
(* starts or ends a run sets the status of its task in the same             *)
(* transaction, and a claim refuses a task that is running: the runs and    *)
(* the statuses agree (RunInv) for tasks no other command has touched.      *)
(***************************************************************************)
EXTENDS Kanban, FiniteSetTheorems, TLAPS

BoardTypeOK ==
  /\ status \in [Task -> Status \cup {"absent"}]
  /\ blocks \in SUBSET (Task \X Task)
  /\ taskOf \in [Run -> Task \cup {NoTask}]
  /\ outcome \in [Run -> Outcome \cup {"none"}]
  /\ \A r \in Run : outcome[r] = "none" <=> taskOf[r] = NoTask
  /\ stale \in SUBSET {r \in Run : outcome[r] = "running"}
  /\ unmanaged \in SUBSET Task

(* The first n runs have been created, at most one in a second more than    *)
(* the runs before it.                                                     *)
NumberedTo(n) ==
  /\ n \in 0 .. MaxRun
  /\ \A r \in Run : outcome[r] # "none" <=> r <= n
  /\ second \in [Run -> 0 .. MaxRun]
  /\ \A r \in Run : second[r] < r

Numbered == \E n \in 0 .. MaxRun : NumberedTo(n)

RunInv ==
  \A t \in Task \ unmanaged :
    /\ \A r, q \in RunningRuns(t) : r = q
    /\ status[t] = "running" <=> RunningRuns(t) # {}

(* Only tasks that exist are linked.                                       *)
LinkInv ==
  /\ \A l \in blocks : Exists(l[1]) /\ Exists(l[2])
  /\ Acyclic

DispatchInv ==
  /\ at \in [Dispatcher -> {"idle", "listed", "cleared", "exhausted",
                            "executing"}]
  /\ item \in [Dispatcher -> Task \cup {NoTask}]
  /\ seen \in [Dispatcher -> Run \cup {NoRun}]
  /\ \A d \in Dispatcher :
       /\ at[d] # "idle" => item[d] \in Task
       /\ at[d] = "executing" => seen[d] # NoRun /\ outcome[seen[d]] # "none"
  /\ \A d, e \in Dispatcher :
       at[d] = "executing" /\ at[e] = "executing" /\ seen[d] = seen[e] => d = e

BoardInv == BoardTypeOK /\ Numbered /\ RunInv /\ LinkInv

IInv == BoardInv /\ DispatchInv

-----------------------------------------------------------------------------

LEMMA RunsAreNat == Run \subseteq Nat \ {NoRun}
BY RunAssumption DEF Run, NoRun

(* The id of the next run.                                                 *)
LEMMA NextRunIs ==
  ASSUME NEW n, NumberedTo(n)
  PROVE  NextRun = n + 1
<1>1. {r \in Run : outcome[r] # "none"} = 1 .. n
  BY RunAssumption DEF NumberedTo, Run
<1>2. n \in Nat
  BY RunAssumption DEF NumberedTo
<1>3. Cardinality(1 .. n) = n
  BY <1>2, FS_Interval
<1>. QED
  BY <1>1, <1>3 DEF NextRun

LEMMA NextRunIsNew ==
  ASSUME Numbered
  PROVE  NextRun \in Nat /\ (NextRun \in Run => outcome[NextRun] = "none")
<1>1. PICK n \in 0 .. MaxRun : NumberedTo(n)
  BY DEF Numbered
<1>2. NextRun = n + 1
  BY <1>1, NextRunIs
<1>. QED
  BY <1>1, <1>2, RunAssumption DEF NumberedTo, Run

(* A run is inserted where none was.                                       *)
LEMMA StartRunNumbers ==
  ASSUME BoardTypeOK, Numbered, NEW t \in Task, NEW old, StartRun(t, old),
         old \in [Run -> Outcome \cup {"none"}],
         \A r \in Run : old[r] = "none" <=> outcome[r] = "none"
  PROVE  /\ Numbered'
         /\ NextRun \in Run /\ outcome[NextRun] = "none"
         /\ outcome' = [old EXCEPT ![NextRun] = "running"]
         /\ taskOf' = [taskOf EXCEPT ![NextRun] = t]
         /\ taskOf' \in [Run -> Task \cup {NoTask}]
         /\ outcome' \in [Run -> Outcome \cup {"none"}]
         /\ \A r \in Run : outcome'[r] = "none" <=> taskOf'[r] = NoTask
<1>1. PICK n \in 0 .. MaxRun : NumberedTo(n)
  BY DEF Numbered
<1>2. NextRun = n + 1 /\ NextRun \in Run /\ n + 1 \in Run
  BY <1>1, NextRunIs DEF StartRun
<1>3. outcome[n + 1] = "none"
  BY <1>1, <1>2, RunAssumption DEF NumberedTo
<1>4. /\ outcome' = [old EXCEPT ![n + 1] = "running"]
      /\ taskOf' = [taskOf EXCEPT ![n + 1] = t]
      /\ IF n + 1 = 1 THEN UNCHANGED second
         ELSE \E s \in {second[n], second[n] + 1} :
                second' = [second EXCEPT ![n + 1] = s]
  <2>1. n + 1 - 1 = n
    BY RunAssumption
  <2>. QED
    BY <1>2, <2>1 DEF StartRun
<1>5. second' \in [Run -> 0 .. MaxRun] /\ \A r \in Run : second'[r] < r
  <2>1. CASE n + 1 = 1
    BY <1>1, <1>4, <2>1 DEF NumberedTo
  <2>2. CASE n + 1 # 1
    <3>1. n \in Run /\ n \in Nat
      BY <2>2, RunAssumption DEF Run
    <3>2. PICK s \in {second[n], second[n] + 1} : second' = [second EXCEPT ![n + 1] = s]
      BY <1>4, <2>2
    <3>3. second[n] < n /\ second[n] \in 0 .. MaxRun
      BY <1>1, <3>1 DEF NumberedTo
    <3>4. s \in 0 .. MaxRun /\ s < n + 1
      BY <3>1, <3>2, <3>3, <1>2, RunAssumption DEF Run
    <3>. QED
      BY <1>1, <1>2, <3>2, <3>4 DEF NumberedTo
  <2>. QED
    BY <2>1, <2>2
<1>6. NumberedTo(n + 1)'
  <2>1. n + 1 \in 0 .. MaxRun
    BY <1>2, RunAssumption DEF Run
  <2>2. ASSUME NEW r \in Run PROVE outcome'[r] # "none" <=> r <= n + 1
    <3>1. outcome'[r] = IF r = n + 1 THEN "running" ELSE old[r]
      BY <1>4
    <3>2. outcome[r] # "none" <=> r <= n
      BY <1>1 DEF NumberedTo
    <3>3. r \in Nat /\ n \in Nat
      BY RunAssumption DEF Run
    <3>. QED
      BY <3>1, <3>2, <3>3
  <2>. QED
    BY <1>5, <2>1, <2>2 DEF NumberedTo
<1>7. Numbered'
  BY <1>2, <1>6, RunAssumption DEF Numbered, Run
<1>8. /\ taskOf' \in [Run -> Task \cup {NoTask}]
      /\ outcome' \in [Run -> Outcome \cup {"none"}]
  BY <1>4 DEF BoardTypeOK, Outcome
<1>9. ASSUME NEW r \in Run PROVE outcome'[r] = "none" <=> taskOf'[r] = NoTask
  BY <1>2, <1>4, TaskAssumption DEF BoardTypeOK
<1>. QED
  BY <1>2, <1>3, <1>4, <1>7, <1>8, <1>9

(* A run that was running gets its outcome.                                *)
LEMMA EndRunNumbers ==
  ASSUME BoardTypeOK, Numbered, NEW r \in Run, outcome[r] # "none",
         NEW o \in Outcome, EndRun(r, o)
  PROVE  /\ Numbered'
         /\ outcome' \in [Run -> Outcome \cup {"none"}]
         /\ taskOf' = taskOf
         /\ \A q \in Run : outcome'[q] = IF q = r THEN o ELSE outcome[q]
         /\ \A q \in Run : outcome'[q] = "none" <=> outcome[q] = "none"
<1>1. PICK n \in 0 .. MaxRun : NumberedTo(n)
  BY DEF Numbered
<1>2. /\ outcome' \in [Run -> Outcome \cup {"none"}]
      /\ \A q \in Run : outcome'[q] = IF q = r THEN o ELSE outcome[q]
      /\ taskOf' = taskOf /\ second' = second
  BY DEF EndRun, BoardTypeOK
<1>3. o # "none"
  BY DEF Outcome
<1>4. NumberedTo(n)'
  BY <1>1, <1>2, <1>3 DEF NumberedTo
<1>. QED
  BY <1>2, <1>3, <1>4 DEF Numbered

(* Tasks other than t are as they were, and t is as the call leaves it.     *)
LEMMA RunInvByTask ==
  ASSUME BoardTypeOK, RunInv, NEW t \in Task,
         unmanaged \subseteq unmanaged',
         unmanaged' \subseteq Task,
         \A u \in Task \ {t} :
           /\ status'[u] = "running" <=> status[u] = "running"
           /\ RunningRuns(u)' = RunningRuns(u),
         t \notin unmanaged' =>
           /\ \A r, q \in RunningRuns(t)' : r = q
           /\ status'[t] = "running" <=> RunningRuns(t)' # {}
  PROVE  RunInv'
BY DEF RunInv

-----------------------------------------------------------------------------
(* Promotion changes todo tasks to ready ones, nothing else.               *)
LEMMA PromotedIs ==
  ASSUME NEW t \in Task, NEW st \in [Task -> Status \cup {"absent"}]
  PROVE  /\ Promoted(t, st) \in [Task -> Status \cup {"absent"}]
         /\ \A c \in Task :
              \/ Promoted(t, st)[c] = st[c]
              \/ st[c] = "todo" /\ Promoted(t, st)[c] = "ready"
BY DEF Promoted, Status

(* Links do not change.                                                    *)
LEMMA LinksKept ==
  ASSUME LinkInv, blocks' = blocks, BoardTypeOK,
         \A t \in Task : status'[t] = "absent" => status[t] = "absent"
  PROVE  LinkInv'
<1>1. \A a, b : Leads(a, b)' <=> Leads(a, b)
  BY DEF Leads
<1>2. Acyclic'
  BY <1>1 DEF LinkInv, Acyclic
<1>3. \A l \in blocks : l[1] \in Task /\ l[2] \in Task
  BY DEF BoardTypeOK
<1>. QED
  BY <1>2, <1>3 DEF LinkInv, Exists

(* The tasks, runs and links after each store call.  A task's status and    *)
(* its runs change together.                                               *)

LEMMA ClaimBoard ==
  ASSUME BoardInv, NEW t \in Task, Claim(t)
  PROVE  BoardInv'
<1>. USE DEF BoardInv
<1>1. /\ Numbered' /\ NextRun \in Run /\ outcome[NextRun] = "none"
      /\ outcome' = [outcome EXCEPT ![NextRun] = "running"]
      /\ taskOf' = [taskOf EXCEPT ![NextRun] = t]
      /\ taskOf' \in [Run -> Task \cup {NoTask}]
      /\ outcome' \in [Run -> Outcome \cup {"none"}]
      /\ \A r \in Run : outcome'[r] = "none" <=> taskOf'[r] = NoTask
  BY StartRunNumbers DEF Claim, BoardTypeOK
<1>2. /\ status' = [status EXCEPT ![t] = "running"]
      /\ UNCHANGED <<blocks, stale, unmanaged>>
      /\ status[t] # "running" /\ status[t] # "absent"
  BY DEF Claim, Claimable
<1>3. BoardTypeOK'
  BY <1>1, <1>2 DEF BoardTypeOK, Status
<1>4. RunInv'
  <2>1. ASSUME NEW u \in Task
        PROVE  RunningRuns(u)' = IF u = t THEN RunningRuns(u) \cup {NextRun}
                                          ELSE RunningRuns(u)
    BY <1>1, TaskAssumption DEF RunningRuns, BoardTypeOK
  <2>2. t \notin unmanaged => RunningRuns(t) = {}
    BY <1>2 DEF RunInv
  <2>. QED
    BY <1>2, <2>1, <2>2, RunInvByTask DEF BoardTypeOK
<1>5. LinkInv'
  BY <1>2, LinksKept DEF BoardTypeOK
<1>. QED
  BY <1>1, <1>3, <1>4, <1>5

(* A running run of a task ends, and the task leaves "running".            *)
LEMMA EndBoard ==
  ASSUME BoardInv, NEW t \in Task, NEW r \in RunningRuns(t),
         NEW o \in Outcome \ {"running"}, EndRun(r, o),
         status' \in [Task -> Status \cup {"absent"}],
         status'[t] # "running",
         \A u \in Task \ {t} : status'[u] = "running" <=> status[u] = "running",
         \A u \in Task : status'[u] = "absent" => status[u] = "absent",
         UNCHANGED <<blocks, unmanaged>>
  PROVE  BoardInv'
<1>. USE DEF BoardInv
<1>0. r \in Run /\ taskOf[r] = t /\ outcome[r] = "running"
  BY DEF RunningRuns
<1>1. /\ Numbered'
      /\ outcome' \in [Run -> Outcome \cup {"none"}]
      /\ taskOf' = taskOf
      /\ \A q \in Run : outcome'[q] = IF q = r THEN o ELSE outcome[q]
      /\ \A q \in Run : outcome'[q] = "none" <=> outcome[q] = "none"
  BY <1>0, EndRunNumbers
<1>2. stale' = stale \ {r}
  BY DEF EndRun
<1>3. BoardTypeOK'
  BY <1>1, <1>2 DEF BoardTypeOK
<1>4. RunInv'
  <2>1. ASSUME NEW u \in Task
        PROVE  RunningRuns(u)' = RunningRuns(u) \ {r}
    BY <1>1 DEF RunningRuns
  <2>2. ASSUME NEW u \in Task \ {t} PROVE r \notin RunningRuns(u)
    BY <1>0 DEF RunningRuns
  <2>3. t \notin unmanaged => RunningRuns(t) = {r}
    BY DEF RunInv
  <2>4. unmanaged \subseteq unmanaged' /\ unmanaged' \subseteq Task
    BY DEF BoardTypeOK
  <2>5. \A u \in Task \ {t} : RunningRuns(u)' = RunningRuns(u)
    BY <2>1, <2>2
  <2>6. t \notin unmanaged' => RunningRuns(t)' = {}
    BY <2>1, <2>3
  <2>. QED
    BY <2>4, <2>5, <2>6, RunInvByTask
<1>5. LinkInv'
  BY LinksKept
<1>. QED
  BY <1>1, <1>3, <1>4, <1>5

LEMMA RequireRunningMeans ==
  ASSUME BoardTypeOK, NEW r \in Run, RequireRunning(r)
  PROVE  taskOf[r] \in Task /\ r \in RunningRuns(taskOf[r])
BY DEF BoardTypeOK, RequireRunning, RunningRuns, Latest

LEMMA CompleteBoard ==
  ASSUME BoardInv, NEW r \in Run, CompleteRun(r)
  PROVE  BoardInv'
<1>. DEFINE t == taskOf[r]
            st == [status EXCEPT ![t] = "done"]
<1>1. t \in Task /\ r \in RunningRuns(t)
  BY RequireRunningMeans DEF CompleteRun, BoardInv
<1>2. st \in [Task -> Status \cup {"absent"}]
  BY DEF BoardInv, BoardTypeOK, Status
<1>3. EndRun(r, "completed") /\ status' = Promoted(t, st)
      /\ UNCHANGED <<blocks, unmanaged>>
  BY DEF CompleteRun
<1>4. status' \in [Task -> Status \cup {"absent"}]
  BY <1>1, <1>2, <1>3, PromotedIs
<1>5. \A c \in Task : st[c] = IF c = t THEN "done" ELSE status[c]
  BY <1>1 DEF BoardInv, BoardTypeOK
<1>. HIDE DEF t, st
<1>6. \A c \in Task : \/ status'[c] = st[c]
                      \/ st[c] = "todo" /\ status'[c] = "ready"
  BY <1>1, <1>2, <1>3, PromotedIs
<1>7. /\ status'[t] # "running"
      /\ \A u \in Task \ {t} : status'[u] = "running" <=> status[u] = "running"
      /\ \A u \in Task : status'[u] = "absent" => status[u] = "absent"
  BY <1>1, <1>5, <1>6
<1>. QED
  BY <1>1, <1>3, <1>4, <1>7, EndBoard DEF Outcome

LEMMA FailBoard ==
  ASSUME BoardInv, NEW r \in Run, FailRun(r)
  PROVE  BoardInv'
<1>. DEFINE t == taskOf[r]
<1>1. t \in Task /\ r \in RunningRuns(t)
  BY RequireRunningMeans DEF FailRun, BoardInv
<1>2. EndRun(r, "failed") /\ status' = [status EXCEPT ![t] = "todo"]
      /\ UNCHANGED <<blocks, unmanaged>>
  BY DEF FailRun
<1>. HIDE DEF t
<1>. QED
  BY <1>1, <1>2, EndBoard DEF Outcome, BoardInv, BoardTypeOK, Status

LEMMA CancelBoard ==
  ASSUME BoardInv, NEW t \in Task, Cancel(t)
  PROVE  BoardInv'
<1>1. PICK r \in Latest(t) : /\ EndRun(r, "canceled")
                            /\ status' = [status EXCEPT ![t] = "todo"]
                            /\ UNCHANGED <<blocks, unmanaged>>
  BY DEF Cancel
<1>2. r \in RunningRuns(t)
  BY DEF Latest
<1>. QED
  BY <1>1, <1>2, EndBoard DEF Outcome, BoardInv, BoardTypeOK, Status

LEMMA ReclaimBoard ==
  ASSUME BoardInv, NEW r \in Run, ReclaimRun(r)
  PROVE  BoardInv'
<1>. USE DEF BoardInv
<1>. DEFINE old == [outcome EXCEPT ![r] = "reclaimed"]
<1>1. PICK t \in Task : /\ t = taskOf[r] /\ r \in RunningRuns(t)
                        /\ outcome[r] = "running"
  BY RequireRunningMeans DEF ReclaimRun, RequireRunning
<1>2. /\ StartRun(t, old)
      /\ stale' = stale \ {r}
      /\ status' = [status EXCEPT ![t] = "running"]
      /\ UNCHANGED <<blocks, unmanaged>>
  BY <1>1 DEF ReclaimRun
<1>3. /\ old \in [Run -> Outcome \cup {"none"}]
      /\ \A q \in Run : old[q] = "none" <=> outcome[q] = "none"
      /\ \A q \in Run : old[q] = IF q = r THEN "reclaimed" ELSE outcome[q]
  BY <1>1 DEF BoardTypeOK, Outcome
<1>. HIDE DEF old
<1>4. /\ Numbered' /\ NextRun \in Run /\ outcome[NextRun] = "none"
      /\ outcome' = [old EXCEPT ![NextRun] = "running"]
      /\ taskOf' = [taskOf EXCEPT ![NextRun] = t]
      /\ taskOf' \in [Run -> Task \cup {NoTask}]
      /\ outcome' \in [Run -> Outcome \cup {"none"}]
      /\ \A q \in Run : outcome'[q] = "none" <=> taskOf'[q] = NoTask
  BY <1>1, <1>2, <1>3, StartRunNumbers
<1>5. BoardTypeOK'
  <2>1. \A q \in Run : outcome[q] = "running" /\ q # r => outcome'[q] = "running"
    BY <1>3, <1>4
  <2>. QED
    BY <1>1, <1>2, <1>4, <2>1 DEF BoardTypeOK, Status
<1>6. RunInv'
  <2>1. ASSUME NEW u \in Task
        PROVE  RunningRuns(u)' = IF u = t THEN (RunningRuns(u) \ {r}) \cup {NextRun}
                                          ELSE RunningRuns(u) \ {r}
    BY <1>1, <1>3, <1>4, TaskAssumption DEF RunningRuns, BoardTypeOK
  <2>2. ASSUME NEW u \in Task \ {t} PROVE r \notin RunningRuns(u)
    BY <1>1 DEF RunningRuns
  <2>3. t \notin unmanaged => RunningRuns(t) = {r}
    BY <1>1 DEF RunInv
  <2>4. unmanaged \subseteq unmanaged' /\ unmanaged' \subseteq Task
    BY <1>2 DEF BoardTypeOK
  <2>5. ASSUME NEW u \in Task \ {t} PROVE RunningRuns(u)' = RunningRuns(u)
    <3>1. RunningRuns(u)' = RunningRuns(u) \ {r}
      BY <2>1
    <3>. QED
      BY <2>2, <3>1
  <2>7. t \notin unmanaged' => RunningRuns(t)' = {NextRun}
    <3>1. RunningRuns(t)' = (RunningRuns(t) \ {r}) \cup {NextRun}
      BY <1>1, <2>1
    <3>. QED
      BY <1>2, <2>3, <3>1
  <2>6. \A u \in Task : status'[u] = IF u = t THEN "running" ELSE status[u]
    BY <1>1, <1>2 DEF BoardTypeOK
  <2>. QED
    <3>1. status'[t] = "running"
      BY <1>1, <2>6
    <3>2. \A u \in Task \ {t} : status'[u] = "running" <=> status[u] = "running"
      BY <2>6
    <3>3. t \notin unmanaged' => \A x, y \in RunningRuns(t)' : x = y
      BY <2>7
    <3>4. t \notin unmanaged' => RunningRuns(t)' # {}
      BY <2>7
    <3>. HIDE DEF BoardInv
    <3>. QED
      BY <1>1, <2>4, <2>5, <3>1, <3>2, <3>3, <3>4, RunInvByTask DEF BoardInv
<1>7. LinkInv'
  BY <1>1, <1>2, LinksKept DEF BoardTypeOK
<1>. QED
  BY <1>4, <1>5, <1>6, <1>7

(* Calls that leave the runs alone, apart from their heartbeats.            *)
LEMMA StatusBoard ==
  ASSUME BoardInv, NEW t \in Task,
         UNCHANGED <<taskOf, outcome, second>>,
         stale' \in SUBSET {r \in Run : outcome[r] = "running"},
         status' \in [Task -> Status \cup {"absent"}],
         \A u \in Task \ {t} : status'[u] = "running" <=> status[u] = "running",
         \A u \in Task : status'[u] = "absent" => status[u] = "absent",
         unmanaged \subseteq unmanaged', unmanaged' \subseteq Task,
         t \in unmanaged' \/ (status'[t] = "running" <=> status[t] = "running"),
         blocks' = blocks
  PROVE  BoardInv'
<1>. USE DEF BoardInv
<1>1. BoardTypeOK'
  BY DEF BoardTypeOK
<1>2. Numbered'
  BY DEF Numbered, NumberedTo
<1>3. RunInv'
  <2>1. \A u \in Task : RunningRuns(u)' = RunningRuns(u)
    BY DEF RunningRuns
  <2>. QED
    BY <2>1 DEF RunInv
<1>4. LinkInv'
  BY LinksKept
<1>. QED
  BY <1>1, <1>2, <1>3, <1>4

LEMMA CreateBoard ==
  ASSUME BoardInv, NEW t \in Task, NEW s \in Status, Create(t, s)
  PROVE  BoardInv'
<1>1. /\ UNCHANGED <<taskOf, outcome, second, stale, blocks>>
      /\ status' = [status EXCEPT ![t] = s]
      /\ unmanaged' = IF s = "running" THEN unmanaged \cup {t} ELSE unmanaged
      /\ status[t] = "absent"
  BY DEF Create, runs, Exists
<1>. QED
  BY <1>1, StatusBoard DEF BoardInv, BoardTypeOK, Status

LEMMA UpdateBoard ==
  ASSUME BoardInv, NEW t \in Task, NEW s \in Status, Update(t, s)
  PROVE  BoardInv'
<1>. DEFINE st == [status EXCEPT ![t] = s]
<1>1. /\ UNCHANGED <<taskOf, outcome, second, stale, blocks, unmanaged>>
      /\ status' = IF s = "done" THEN Promoted(t, st) ELSE st
      /\ s # "running" /\ status[t] # "running"
  BY DEF Update, runs
<1>2. /\ st \in [Task -> Status \cup {"absent"}]
      /\ \A c \in Task : st[c] = IF c = t THEN s ELSE status[c]
  BY DEF BoardInv, BoardTypeOK
<1>. HIDE DEF st
<1>3. /\ status' \in [Task -> Status \cup {"absent"}]
      /\ \A c \in Task : \/ status'[c] = st[c]
                         \/ st[c] = "todo" /\ status'[c] = "ready"
  BY <1>1, <1>2, PromotedIs
<1>4. /\ status'[t] # "running"
      /\ \A u \in Task \ {t} : status'[u] = "running" <=> status[u] = "running"
      /\ \A u \in Task : status'[u] = "absent" => status[u] = "absent"
  BY <1>1, <1>2, <1>3 DEF Status
<1>5. /\ stale' \in SUBSET {r \in Run : outcome[r] = "running"}
      /\ unmanaged \subseteq unmanaged' /\ unmanaged' \subseteq Task
  BY <1>1 DEF BoardInv, BoardTypeOK
<1>. QED
  BY <1>1, <1>3, <1>4, <1>5, StatusBoard

LEMMA ArchiveBoard ==
  ASSUME BoardInv, NEW t \in Task, Archive(t)
  PROVE  BoardInv'
<1>1. /\ UNCHANGED <<taskOf, outcome, second, stale, blocks, unmanaged>>
      /\ status' = [status EXCEPT ![t] = "archived"] /\ status[t] # "running"
  BY DEF Archive, runs
<1>. QED
  BY <1>1, StatusBoard DEF BoardInv, BoardTypeOK, Status

LEMMA UnblockBoard ==
  ASSUME BoardInv, NEW t \in Task, Unblock(t)
  PROVE  BoardInv'
<1>1. /\ UNCHANGED <<taskOf, outcome, second, stale, blocks>>
      /\ status' = [status EXCEPT ![t] = "todo"]
      /\ unmanaged' = IF status[t] = "running" THEN unmanaged \cup {t} ELSE unmanaged
  BY DEF Unblock, runs
<1>. QED
  BY <1>1, StatusBoard DEF BoardInv, BoardTypeOK, Status

LEMMA BlockBoard ==
  ASSUME BoardInv, NEW t \in Task, Block(t)
  PROVE  BoardInv'
<1>1. /\ status' = [status EXCEPT ![t] = "blocked"]
      /\ UNCHANGED <<blocks, unmanaged>>
  BY DEF Block
<1>2. CASE Latest(t) = {}
  <2>1. UNCHANGED <<taskOf, outcome, second, stale>>
    BY <1>2 DEF Block, runs
  <2>2. t \notin unmanaged => status[t] # "running"
    <3>1. ASSUME t \notin unmanaged, NEW r \in RunningRuns(t) PROVE r \in Latest(t)
      <4>1. second[r] \in Nat
        BY RunAssumption DEF BoardInv, Numbered, NumberedTo, RunningRuns
      <4>2. \A q \in RunningRuns(t) : q = r
        BY <3>1 DEF BoardInv, RunInv
      <4>. QED
        BY <4>1, <4>2 DEF Latest
    <3>. QED
      BY <1>2, <3>1 DEF BoardInv, RunInv
  <2>. QED
    BY <1>1, <2>1, <2>2, StatusBoard DEF BoardInv, BoardTypeOK, Status
<1>3. CASE Latest(t) # {}
  <2>1. PICK r \in Latest(t) : EndRun(r, "blocked")
    BY <1>3 DEF Block
  <2>2. r \in RunningRuns(t)
    BY DEF Latest
  <2>. QED
    BY <1>1, <2>1, <2>2, EndBoard DEF Outcome, BoardInv, BoardTypeOK, Status
<1>. QED
  BY <1>2, <1>3

LEMMA BeatBoard ==
  ASSUME BoardInv, NEW r \in Run,
         \/ stale' = stale \ {r}
         \/ outcome[r] = "running" /\ stale' = stale \cup {r},
         UNCHANGED <<tasks, taskOf, outcome, second, unmanaged>>
  PROVE  BoardInv'
<1>. USE DEF BoardInv, tasks
<1>1. BoardTypeOK'
  BY DEF BoardTypeOK
<1>2. Numbered'
  BY DEF Numbered, NumberedTo
<1>3. RunInv'
  <2>1. \A u \in Task : RunningRuns(u)' = RunningRuns(u)
    BY DEF RunningRuns
  <2>. QED
    BY <2>1 DEF RunInv
<1>4. LinkInv'
  BY LinksKept
<1>. QED
  BY <1>1, <1>2, <1>3, <1>4

Closed(S, links) == \A l \in links : l[1] \in S => l[2] \in S

(* A link from p to c closes no cycle when p cannot be reached from c.      *)
LEMMA LinkBoard ==
  ASSUME BoardInv, NEW p \in Task, NEW c \in Task, Link(p, c)
  PROVE  BoardInv'
<1>. USE DEF BoardInv
<1>1. /\ p # c /\ Exists(p) /\ Exists(c) /\ ~Leads(c, p)
      /\ blocks' = blocks \cup {<<p, c>>}
      /\ UNCHANGED <<status, taskOf, outcome, second, stale, unmanaged>>
  BY DEF Link, runs
<1>2. BoardTypeOK'
  BY <1>1 DEF BoardTypeOK
<1>3. Numbered'
  BY <1>1 DEF Numbered, NumberedTo
<1>4. RunInv'
  <2>1. \A u \in Task : RunningRuns(u)' = RunningRuns(u)
    BY <1>1 DEF RunningRuns
  <2>. QED
    BY <1>1, <2>1 DEF RunInv
<1>5. Acyclic'
  <2>1. PICK S1 \in SUBSET Task : c \in S1 /\ Closed(S1, blocks) /\ p \notin S1
    BY <1>1 DEF Leads, Closed
  <2>2. ASSUME NEW a \in Task, NEW b \in Task, <<a, b>> \in blocks'
        PROVE  \E S \in SUBSET Task : b \in S /\ a \notin S /\ Closed(S, blocks')
    <3>1. CASE <<a, b>> \in blocks
      <4>1. PICK S2 \in SUBSET Task : b \in S2 /\ Closed(S2, blocks) /\ a \notin S2
        BY <3>1 DEF LinkInv, Acyclic, Leads, Closed
      <4>2. CASE a \in S1
        <5>1. b \in S1
          BY <2>1, <3>1, <4>2 DEF Closed
        <5>2. Closed(S1 \cap S2, blocks')
          BY <1>1, <2>1, <4>1 DEF Closed
        <5>. QED
          BY <4>1, <5>1, <5>2
      <4>3. CASE a \notin S1
        <5>1. Closed(S1 \cup S2, blocks')
          BY <1>1, <2>1, <4>1 DEF Closed
        <5>. QED
          BY <4>1, <4>3, <5>1
      <4>. QED
        BY <4>2, <4>3
    <3>2. CASE a = p /\ b = c
      <4>1. Closed(S1, blocks')
        BY <1>1, <2>1 DEF Closed
      <4>. QED
        BY <2>1, <3>2, <4>1
    <3>. QED
      BY <1>1, <2>2, <3>1, <3>2
  <2>. QED
    BY <2>2 DEF Acyclic, Leads, Closed
<1>6. \A l \in blocks' : Exists(l[1])' /\ Exists(l[2])'
  BY <1>1 DEF LinkInv, Exists
<1>. QED
  BY <1>2, <1>3, <1>4, <1>5, <1>6 DEF LinkInv

-----------------------------------------------------------------------------
(* What a step may do to the runs, and to the status of a task and of its   *)
(* blockers.                                                               *)

RunsOnlyEnd ==
  \A r \in Run :
    \/ outcome'[r] = outcome[r]
    \/ outcome[r] \in {"none", "running"} /\ outcome'[r] # "none"

LEMMA ClaimEffect ==
  ASSUME BoardInv, NEW t \in Task, Claim(t)
  PROVE  RunsOnlyEnd /\ outcome[NextRun] = "none" /\ outcome'[NextRun] = "running"
<1>1. /\ NextRun \in Run /\ outcome[NextRun] = "none"
      /\ outcome' = [outcome EXCEPT ![NextRun] = "running"]
  BY StartRunNumbers DEF Claim, BoardInv, BoardTypeOK
<1>. QED
  BY <1>1 DEF RunsOnlyEnd, BoardInv, BoardTypeOK

LEMMA ReclaimEffect ==
  ASSUME BoardInv, NEW r \in Run, ReclaimRun(r)
  PROVE  RunsOnlyEnd /\ outcome[NextRun] = "none" /\ outcome'[NextRun] = "running"
<1>. DEFINE old == [outcome EXCEPT ![r] = "reclaimed"]
<1>1. taskOf[r] \in Task /\ outcome[r] = "running"
  BY RequireRunningMeans DEF ReclaimRun, RequireRunning, BoardInv
<1>2. /\ old \in [Run -> Outcome \cup {"none"}]
      /\ \A q \in Run : old[q] = IF q = r THEN "reclaimed" ELSE outcome[q]
  BY DEF BoardInv, BoardTypeOK, Outcome
<1>3. StartRun(taskOf[r], old)
  BY DEF ReclaimRun
<1>. HIDE DEF old
<1>4. \A q \in Run : old[q] = "none" <=> outcome[q] = "none"
  BY <1>1, <1>2
<1>5. /\ NextRun \in Run /\ outcome[NextRun] = "none"
      /\ outcome' = [old EXCEPT ![NextRun] = "running"]
  BY <1>1, <1>2, <1>3, <1>4, StartRunNumbers DEF BoardInv
<1>. QED
  BY <1>1, <1>2, <1>5 DEF RunsOnlyEnd

LEMMA EndEffect ==
  ASSUME BoardInv, NEW r \in Run, outcome[r] = "running",
         NEW o \in Outcome, EndRun(r, o)
  PROVE  RunsOnlyEnd
BY DEF RunsOnlyEnd, EndRun, BoardInv, BoardTypeOK, Outcome

(* PromotionIsExact of one task and one step.                              *)
Exact(t) ==
  /\ /\ status[t] = "todo"
     /\ \E p \in Blockers(t) : status[p] # "done"
     /\ \A p \in Blockers(t) : status'[p] = "done"
     => status'[t] = "ready"
  /\ status[t] = "todo" /\ status'[t] = "ready"
       => \A p \in Blockers(t) : status'[p] = "done"

LEMMA SameStatus ==
  ASSUME status' = status
  PROVE  \A t \in Task : Exact(t)
BY DEF Exact

(* A task goes where no promotion follows.                                 *)
LEMMA PlainChange ==
  ASSUME BoardInv, NEW u \in Task, NEW s,
         status' = [status EXCEPT ![u] = s],
         s \notin {"done", "ready"} \/ status[u] = "absent"
  PROVE  \A t \in Task : Exact(t)
<1>. TAKE t \in Task
<1>1. \A q \in Task : status'[q] = IF q = u THEN s ELSE status[q]
  BY DEF BoardInv, BoardTypeOK
<1>2. ASSUME NEW p \in Blockers(t) PROVE p \in Task /\ status[p] # "absent"
  BY DEF Blockers, BoardInv, LinkInv, Exists
<1>3. ASSUME NEW p \in Blockers(t), status[p] # "done" PROVE status'[p] # "done"
  BY <1>1, <1>2, <1>3
<1>4. ~(status[t] = "todo" /\ status'[t] = "ready")
  BY <1>1
<1>. QED
  BY <1>3, <1>4 DEF Exact

LEMMA NotItsOwnBlocker ==
  ASSUME BoardInv, NEW t \in Task
  PROVE  t \notin Blockers(t)
BY DEF BoardInv, LinkInv, Acyclic, Leads, Blockers

(* A task is done, and its children are promoted.                          *)
LEMMA DoneChange ==
  ASSUME BoardInv, NEW u \in Task,
         status' = Promoted(u, [status EXCEPT ![u] = "done"])
  PROVE  \A t \in Task : Exact(t)
<1>. DEFINE st == [status EXCEPT ![u] = "done"]
<1>1. /\ st \in [Task -> Status \cup {"absent"}]
      /\ \A q \in Task : st[q] = IF q = u THEN "done" ELSE status[q]
  BY DEF BoardInv, BoardTypeOK, Status
<1>2. status' = Promoted(u, st)
  OBVIOUS
<1>. HIDE DEF st
<1>. TAKE t \in Task
<1>3. \A c \in Task :
        status'[c] = IF /\ u \in Blockers(c) /\ st[c] = "todo"
                        /\ \A p \in Blockers(c) : st[p] = "done"
                       THEN "ready" ELSE st[c]
  BY <1>2 DEF Promoted
<1>4. \A p \in Task : status'[p] = "done" <=> st[p] = "done"
  BY <1>3
<1>5. Blockers(t) \subseteq Task
  BY DEF Blockers
<1>6. ASSUME status[t] = "todo",
             NEW q \in Blockers(t), status[q] # "done",
             \A p \in Blockers(t) : status'[p] = "done"
      PROVE  status'[t] = "ready"
  <2>1. \A p \in Blockers(t) : st[p] = "done"
    BY <1>4, <1>5, <1>6
  <2>2. q = u
    BY <1>1, <1>5, <1>6, <2>1
  <2>3. t # u
    BY <2>2, NotItsOwnBlocker
  <2>. QED
    BY <1>1, <1>3, <1>6, <2>1, <2>2, <2>3
<1>7. ASSUME status[t] = "todo", status'[t] = "ready",
             NEW p \in Blockers(t)
      PROVE  status'[p] = "done"
  BY <1>1, <1>3, <1>4, <1>5, <1>7
<1>. QED
  BY <1>6, <1>7 DEF Exact

LEMMA UpdateExact ==
  ASSUME BoardInv, NEW u \in Task, NEW s \in Status, Update(u, s)
  PROVE  \A t \in Task : Exact(t)
<1>1. CASE s = "done"
  BY <1>1, DoneChange DEF Update
<1>2. CASE s \notin {"done", "ready"}
  BY <1>2, PlainChange DEF Update
<1>3. CASE s = "ready"
  <2>. TAKE t \in Task
  <2>1. /\ \A q \in Task : status'[q] = IF q = u THEN "ready" ELSE status[q]
        /\ \A p \in Blockers(u) : status[p] = "done"
    BY <1>3 DEF Update, BoardInv, BoardTypeOK
  <2>2. Blockers(t) \subseteq Task /\ u \notin Blockers(u)
    BY NotItsOwnBlocker DEF Blockers
  <2>. QED
    BY <2>1, <2>2 DEF Exact
<1>. QED
  BY <1>1, <1>2, <1>3

-----------------------------------------------------------------------------
(* The store calls together.                                               *)

Effect == BoardInv' /\ RunsOnlyEnd /\ \A t \in Task : Exact(t)

LEMMA BlockEffect ==
  ASSUME BoardInv, NEW t \in Task, Block(t)
  PROVE  Effect
<1>1. RunsOnlyEnd
  <2>1. CASE Latest(t) = {}
    BY <2>1 DEF Block, runs, RunsOnlyEnd
  <2>2. CASE Latest(t) # {}
    <3>1. PICK r \in Latest(t) : EndRun(r, "blocked")
      BY <2>2 DEF Block
    <3>2. r \in Run /\ outcome[r] = "running"
      BY DEF Latest, RunningRuns
    <3>. QED
      BY <3>1, <3>2, EndEffect DEF Outcome
  <2>. QED
    BY <2>1, <2>2
<1>2. \A u \in Task : Exact(u)
  BY PlainChange DEF Block
<1>. QED
  BY <1>1, <1>2, BlockBoard DEF Effect

LEMMA TaskCommandEffect ==
  ASSUME BoardInv, NEW t \in Task, TaskCommand(t)
  PROVE  Effect
<1>1. CASE Claim(t)
  <2>1. \A u \in Task : Exact(u)
    BY <1>1, PlainChange DEF Claim
  <2>. QED
    BY <1>1, <2>1, ClaimBoard, ClaimEffect DEF Effect
<1>2. CASE Cancel(t)
  <2>1. PICK r \in Latest(t) : /\ EndRun(r, "canceled")
                              /\ status' = [status EXCEPT ![t] = "todo"]
    BY <1>2 DEF Cancel
  <2>2. RunsOnlyEnd
    BY <2>1, EndEffect DEF Latest, RunningRuns, Outcome
  <2>3. \A u \in Task : Exact(u)
    BY <2>1, PlainChange
  <2>. QED
    BY <1>2, <2>2, <2>3, CancelBoard DEF Effect
<1>3. CASE Archive(t)
  <2>1. RunsOnlyEnd
    BY <1>3 DEF Archive, runs, RunsOnlyEnd
  <2>2. \A u \in Task : Exact(u)
    BY <1>3, PlainChange DEF Archive
  <2>. QED
    BY <1>3, <2>1, <2>2, ArchiveBoard DEF Effect
<1>4. CASE Block(t)
  BY <1>4, BlockEffect
<1>5. CASE Unblock(t)
  <2>1. RunsOnlyEnd
    BY <1>5 DEF Unblock, runs, RunsOnlyEnd
  <2>2. \A u \in Task : Exact(u)
    BY <1>5, PlainChange DEF Unblock
  <2>. QED
    BY <1>5, <2>1, <2>2, UnblockBoard DEF Effect
<1>6. ASSUME NEW s \in Status, Update(t, s)
      PROVE  Effect
  <2>1. RunsOnlyEnd
    BY <1>6 DEF Update, runs, RunsOnlyEnd
  <2>. QED
    BY <1>6, <2>1, UpdateBoard, UpdateExact DEF Effect
<1>7. ASSUME NEW c \in Task, Link(t, c)
      PROVE  Effect
  <2>1. RunsOnlyEnd /\ status' = status
    BY <1>7 DEF Link, runs, RunsOnlyEnd
  <2>. QED
    BY <1>7, <2>1, LinkBoard, SameStatus DEF Effect
<1>. QED
  BY <1>1, <1>2, <1>3, <1>4, <1>5, <1>6, <1>7 DEF TaskCommand

LEMMA CompleteEffect ==
  ASSUME BoardInv, NEW r \in Run, CompleteRun(r)
  PROVE  Effect
<1>1. taskOf[r] \in Task /\ outcome[r] = "running"
  BY RequireRunningMeans DEF CompleteRun, RequireRunning, BoardInv
<1>2. RunsOnlyEnd
  BY <1>1, EndEffect DEF CompleteRun, Outcome
<1>3. \A u \in Task : Exact(u)
  BY <1>1, DoneChange DEF CompleteRun
<1>. QED
  BY <1>2, <1>3, CompleteBoard DEF Effect

LEMMA FailEffect ==
  ASSUME BoardInv, NEW r \in Run, FailRun(r)
  PROVE  Effect
<1>1. taskOf[r] \in Task /\ outcome[r] = "running"
  BY RequireRunningMeans DEF FailRun, RequireRunning, BoardInv
<1>2. RunsOnlyEnd
  BY <1>1, EndEffect DEF FailRun, Outcome
<1>3. \A u \in Task : Exact(u)
  BY <1>1, PlainChange DEF FailRun
<1>. QED
  BY <1>2, <1>3, FailBoard DEF Effect

LEMMA ReclaimRunEffect ==
  ASSUME BoardInv, NEW r \in Run, ReclaimRun(r)
  PROVE  Effect
<1>1. taskOf[r] \in Task
  BY RequireRunningMeans DEF ReclaimRun, BoardInv
<1>2. \A u \in Task : Exact(u)
  BY <1>1, PlainChange DEF ReclaimRun
<1>. QED
  BY <1>2, ReclaimBoard, ReclaimEffect DEF Effect

LEMMA BeatEffect ==
  ASSUME BoardInv, NEW r \in Run,
         \/ HeartbeatRun(r)
         \/ Age(r)
  PROVE  Effect
<1>1. /\ \/ stale' = stale \ {r}
         \/ outcome[r] = "running" /\ stale' = stale \cup {r}
      /\ UNCHANGED <<tasks, taskOf, outcome, second, unmanaged>>
  BY DEF HeartbeatRun, Age
<1>2. RunsOnlyEnd /\ status' = status
  BY <1>1 DEF RunsOnlyEnd, tasks
<1>. QED
  BY <1>1, <1>2, BeatBoard, SameStatus DEF Effect

-----------------------------------------------------------------------------
(* Where the dispatchers are.                                              *)

LEMMA DispatchKept ==
  ASSUME DispatchInv, RunsOnlyEnd, dispatch' = dispatch
  PROVE  DispatchInv'
BY DEF DispatchInv, RunsOnlyEnd, dispatch, NoRun

(* A dispatcher moves on without a run.                                    *)
LEMMA DispatchMoves ==
  ASSUME DispatchInv, RunsOnlyEnd, NEW d \in Dispatcher,
         NEW a \in {"idle", "listed", "cleared", "exhausted"}, Go(d, a),
         NEW i \in Task \cup {NoTask}, item' = [item EXCEPT ![d] = i],
         a # "idle" => i \in Task,
         NEW s \in Run \cup {NoRun}, seen' = [seen EXCEPT ![d] = s]
  PROVE  DispatchInv'
<1>1. /\ \A e \in Dispatcher \ {d} : at'[e] = at[e] /\ item'[e] = item[e]
                                      /\ seen'[e] = seen[e]
      /\ at'[d] = a /\ item'[d] = i
      /\ at' \in [Dispatcher -> {"idle", "listed", "cleared", "exhausted",
                                 "executing"}]
      /\ item' \in [Dispatcher -> Task \cup {NoTask}]
      /\ seen' \in [Dispatcher -> Run \cup {NoRun}]
  BY DEF DispatchInv, Go
<1>. QED
  BY <1>1 DEF DispatchInv, RunsOnlyEnd, NoRun

LEMMA DropMoves ==
  ASSUME DispatchInv, RunsOnlyEnd, NEW d \in Dispatcher, Drop(d)
  PROVE  DispatchInv'
BY DispatchMoves DEF Drop

(* A dispatcher takes a run that was just created.                         *)
LEMMA DispatchTakes ==
  ASSUME DispatchInv, RunsOnlyEnd, NEW d \in Dispatcher,
         NextRun \in Run, outcome[NextRun] = "none", outcome'[NextRun] = "running",
         Go(d, "executing"), seen' = [seen EXCEPT ![d] = NextRun],
         item' = item, at[d] # "idle"
  PROVE  DispatchInv'
<1>. DEFINE n == NextRun
<1>. HIDE DEF n
<1>0. /\ n \in Run /\ outcome[n] = "none" /\ outcome'[n] = "running"
      /\ seen' = [seen EXCEPT ![d] = n] /\ n # NoRun
  BY RunsAreNat DEF n
<1>1. /\ \A e \in Dispatcher \ {d} : at'[e] = at[e] /\ seen'[e] = seen[e]
      /\ at'[d] = "executing" /\ seen'[d] = n
      /\ at' \in [Dispatcher -> {"idle", "listed", "cleared", "exhausted",
                                 "executing"}]
      /\ seen' \in [Dispatcher -> Run \cup {NoRun}]
  BY <1>0 DEF DispatchInv, Go
<1>2. \A e \in Dispatcher \ {d} : at[e] = "executing" => seen[e] # n
  BY <1>0 DEF DispatchInv
<1>. QED
  BY <1>0, <1>1, <1>2 DEF DispatchInv, RunsOnlyEnd, NoRun

LEMMA NothingHappens ==
  ASSUME BoardInv, UNCHANGED <<tasks, runs, unmanaged>>
  PROVE  Effect
<1>1. RunsOnlyEnd /\ status' = status
  BY DEF runs, tasks, RunsOnlyEnd
<1>2. BoardInv'
  <2>1. BoardTypeOK'
    BY DEF BoardInv, BoardTypeOK, runs, tasks
  <2>2. Numbered'
    BY DEF BoardInv, Numbered, NumberedTo, runs
  <2>3. RunInv'
    BY DEF BoardInv, RunInv, RunningRuns, runs, tasks
  <2>4. LinkInv'
    BY LinksKept DEF BoardInv, tasks
  <2>. QED
    BY <2>1, <2>2, <2>3, <2>4 DEF BoardInv
<1>. QED
  BY <1>1, <1>2, SameStatus DEF Effect

LEMMA DispatchStepEffect ==
  ASSUME IInv, NEW d \in Dispatcher, DispatchStep(d)
  PROVE  Effect /\ DispatchInv'
<1>. USE DEF IInv
<1>0. /\ item[d] \in Task \cup {NoTask} /\ seen[d] \in Run \cup {NoRun}
      /\ item = [item EXCEPT ![d] = item[d]]
      /\ seen = [seen EXCEPT ![d] = seen[d]]
      /\ at[d] # "idle" => item[d] \in Task
      /\ at[d] = "executing" => seen[d] \in Run
  BY DEF DispatchInv
<1>1. ASSUME NEW t \in Task, NEW r \in Run \cup {NoRun}, List(d, t, r)
      PROVE  Effect /\ DispatchInv'
  <2>1. Effect /\ RunsOnlyEnd
    BY <1>1, NothingHappens DEF List, Effect
  <2>. QED
    BY <1>1, <2>1, DispatchMoves DEF List
<1>2. CASE CountAttempts(d)
  <2>1. Effect /\ RunsOnlyEnd
    BY <1>2, NothingHappens DEF CountAttempts, Effect
  <2>2. PICK a \in {"cleared", "exhausted"} : Go(d, a)
    BY <1>2 DEF CountAttempts
  <2>3. item' = [item EXCEPT ![d] = item[d]] /\ seen' = [seen EXCEPT ![d] = seen[d]]
        /\ item[d] \in Task
    BY <1>0, <1>2 DEF CountAttempts
  <2>. QED
    BY <1>0, <2>1, <2>2, <2>3, DispatchMoves
<1>3. CASE GiveUp(d)
  <2>1. Effect /\ RunsOnlyEnd
    BY <1>0, <1>3, BlockEffect DEF GiveUp, Effect
  <2>. QED
    BY <1>3, <2>1, DropMoves DEF GiveUp
<1>4. CASE Take(d)
  <2>1. at[d] # "idle" /\ item[d] \in Task
    BY <1>0, <1>4 DEF Take
  <2>2. Effect /\ NextRun \in Run /\ outcome[NextRun] = "none"
        /\ outcome'[NextRun] = "running"
    <3>1. CASE seen[d] = NoRun /\ Claim(item[d])
      <4>1. \A u \in Task : Exact(u)
        BY <2>1, <3>1, PlainChange DEF Claim
      <4>. QED
        BY <2>1, <3>1, <4>1, ClaimBoard, ClaimEffect DEF Effect, Claim, StartRun
    <3>2. CASE seen[d] # NoRun /\ ReclaimRun(seen[d])
      <4>1. seen[d] \in Run
        BY <1>0, <3>2
      <4>. QED
        BY <3>2, <4>1, ReclaimRunEffect, ReclaimEffect DEF ReclaimRun, StartRun
    <3>. QED
      BY <1>4, <3>1, <3>2 DEF Take
  <2>3. RunsOnlyEnd
    BY <2>2 DEF Effect
  <2>. QED
    BY <1>4, <2>1, <2>2, <2>3, DispatchTakes DEF Take
<1>5. CASE TakeFails(d) \/ Rejected(d) \/ Crash(d)
  <2>1. Effect /\ RunsOnlyEnd
    BY <1>5, NothingHappens DEF TakeFails, Rejected, Crash, Effect
  <2>. QED
    BY <1>5, <2>1, DropMoves DEF TakeFails, Rejected, Crash
<1>6. CASE Heartbeat(d)
  <2>1. Effect /\ RunsOnlyEnd
    BY <1>0, <1>6, BeatEffect DEF Heartbeat, Effect
  <2>. QED
    BY <1>6, <2>1, DispatchKept DEF Heartbeat
<1>7. CASE Record(d)
  <2>1. Effect /\ RunsOnlyEnd
    BY <1>0, <1>7, CompleteEffect, FailEffect DEF Record, Effect
  <2>. QED
    BY <1>7, <2>1, DropMoves DEF Record
<1>. QED
  BY <1>1, <1>2, <1>3, <1>4, <1>5, <1>6, <1>7 DEF DispatchStep

LEMMA InitIInv == Init => IInv
<1>. SUFFICES ASSUME Init PROVE IInv
  OBVIOUS
<1>. USE DEF Init
<1>1. BoardTypeOK
  BY DEF BoardTypeOK
<1>2. NumberedTo(0)
  BY RunAssumption DEF NumberedTo, Run
<1>3. Numbered
  BY <1>2, RunAssumption DEF Numbered
<1>4. RunInv
  BY DEF RunInv, RunningRuns
<1>5. LinkInv
  BY DEF LinkInv, Acyclic
<1>6. DispatchInv
  BY DEF DispatchInv, NoRun
<1>. QED
  BY <1>1, <1>3, <1>4, <1>5, <1>6 DEF IInv, BoardInv

LEMMA NextIInv ==
  ASSUME IInv, [Next]_vars
  PROVE  IInv' /\ RunsOnlyEnd /\ \A t \in Task : Exact(t)
<1>. SUFFICES Effect /\ DispatchInv'
  BY DEF Effect, IInv
<1>1. ASSUME NEW t \in Task, NEW s \in Status, Create(t, s)
      PROVE  Effect /\ DispatchInv'
  <2>1. RunsOnlyEnd /\ dispatch' = dispatch
    BY <1>1 DEF Create, runs, RunsOnlyEnd
  <2>2. \A u \in Task : Exact(u)
    BY <1>1, PlainChange DEF Create, Exists, IInv
  <2>. QED
    BY <1>1, <2>1, <2>2, CreateBoard, DispatchKept DEF Effect, IInv
<1>2. ASSUME NEW t \in Task, TaskCommand(t)
      PROVE  Effect /\ DispatchInv'
  <2>1. Effect /\ RunsOnlyEnd /\ dispatch' = dispatch
    BY <1>2, TaskCommandEffect DEF Effect, IInv, TaskCommand
  <2>. QED
    BY <2>1, DispatchKept DEF IInv
<1>3. ASSUME NEW r \in Run, RunCommand(r) \/ Age(r)
      PROVE  Effect /\ DispatchInv'
  <2>1. Effect /\ RunsOnlyEnd /\ dispatch' = dispatch
    BY <1>3, CompleteEffect, FailEffect, ReclaimRunEffect, BeatEffect
    DEF Effect, IInv, RunCommand, Age
  <2>. QED
    BY <2>1, DispatchKept DEF IInv
<1>4. ASSUME NEW d \in Dispatcher, DispatchStep(d)
      PROVE  Effect /\ DispatchInv'
  BY <1>4, DispatchStepEffect
<1>5. CASE UNCHANGED vars
  <2>1. Effect /\ RunsOnlyEnd /\ dispatch' = dispatch
    BY <1>5, NothingHappens DEF vars, Effect, IInv
  <2>. QED
    BY <2>1, DispatchKept DEF IInv
<1>. QED
  BY <1>1, <1>2, <1>3, <1>4, <1>5 DEF Next

(* The invariant holds in every reachable state.                           *)
THEOREM Invariant == Spec => []IInv
<1>1. IInv /\ [Next]_vars => IInv'
  BY NextIInv
<1>. QED
  BY <1>1, InitIInv, PTL DEF Spec

-----------------------------------------------------------------------------

(* Type correctness: in particular a run has a task exactly from its       *)
(* creation on, and only running runs are stale (kanban_task_runs).        *)
THEOREM TypeCorrect == Spec => []TypeOK
<1>1. IInv => TypeOK
  BY DEF IInv, BoardInv, BoardTypeOK, Numbered, NumberedTo, DispatchInv, TypeOK
<1>. QED
  BY <1>1, Invariant, PTL

(* However claims, reclaims, dispatchers and late results interleave, a     *)
(* task has one live run at most, exactly while it is running, and no two  *)
(* dispatchers execute the same run, but for tasks a command has moved on  *)
(* its own (ClaimKanbanTask, ReclaimKanbanRun, CompleteKanbanRun).         *)
THEOREM LiveRunsThm == Spec => []LiveRunsAreExplained
<1>1. ASSUME IInv PROVE LiveRunsAreExplained
  <2>. SUFFICES ASSUME NEW t \in Task \ unmanaged
                PROVE  /\ Cardinality(RunningRuns(t)) <= 1
                       /\ status[t] = "running" <=> RunningRuns(t) # {}
                       /\ \A d, e \in Dispatcher :
                            at[d] = "executing" /\ at[e] = "executing"
                            /\ item[d] = t /\ item[e] = t
                            /\ seen[d] = seen[e] => d = e
    BY DEF LiveRunsAreExplained
  <2>1. \A r, q \in RunningRuns(t) : r = q
    BY <1>1 DEF IInv, BoardInv, RunInv
  <2>2. Cardinality(RunningRuns(t)) <= 1
    <3>1. CASE RunningRuns(t) = {}
      BY <3>1, FS_EmptySet
    <3>2. ASSUME NEW r \in RunningRuns(t) PROVE RunningRuns(t) = {r}
      BY <2>1
    <3>. QED
      BY <3>1, <3>2, FS_Singleton
  <2>. QED
    BY <1>1, <2>2 DEF IInv, BoardInv, RunInv, DispatchInv
<1>. QED
  BY <1>1, Invariant, PTL

(* No task blocks itself through a chain of links, whatever links are made *)
(* in whatever order (LinkKanbanTasks, hasKanbanPath).                     *)
THEOREM AcyclicThm == Spec => []Acyclic
<1>1. IInv => Acyclic
  BY DEF IInv, BoardInv, LinkInv
<1>. QED
  BY <1>1, Invariant, PTL

(* A worker whose run was ended by somebody else cannot change its outcome *)
(* later (requireRunningKanbanRunTx).                                      *)
THEOREM EndedRunThm == Spec => EndedRunIsFinal
<1>1. ASSUME IInv, [Next]_vars
      PROVE  \A r \in Run : outcome[r] \notin {"none", "running"} => outcome'[r] = outcome[r]
  BY <1>1, NextIInv DEF RunsOnlyEnd
<1>. QED
  BY <1>1, Invariant, PTL DEF Spec, EndedRunIsFinal

(* A todo task becomes ready with its last incomplete blocker, and not      *)
(* before (promoteUnblockedChildren).                                      *)
THEOREM PromotionThm == Spec => PromotionIsExact
<1>. DEFINE Step(t) ==
       LET open == {p \in Blockers(t) : status[p] # "done"}
           openAfter == {p \in Blockers(t) : status'[p] # "done"}
       IN /\ (status[t] = "todo" /\ open # {} /\ openAfter = {})
               => status'[t] = "ready"
          /\ (status[t] = "todo" /\ status'[t] = "ready") => openAfter = {}
<1>1. ASSUME IInv, [Next]_vars
      PROVE  \A t \in Task : Step(t)
  BY <1>1, NextIInv DEF Exact
<1>. QED
  BY <1>1, Invariant, PTL DEF Spec, PromotionIsExact
=============================================================================
