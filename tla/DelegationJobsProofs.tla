------------------------ MODULE DelegationJobsProofs ------------------------
(***************************************************************************)
(* Proofs about DelegationJobs for any set of jobs, any set of runtime     *)
(* slots and any bounds.                                                   *)
(*                                                                         *)
(* The argument: attempt only grows, and every claim takes the next        *)
(* attempt as its token.  So the token of a running job is its newest      *)
(* attempt (TokenInv), a goroutine exists only for attempts already made   *)
(* (PhaseInv), and a write guarded by Holds is a write of the newest       *)
(* claim.  As long as no lease was lost under a worker, an acting worker   *)
(* is that of the newest attempt, its job is not queued, and its lease is  *)
(* fresh, so nobody can claim the job from it (WorkerInv).                 *)
(*                                                                         *)
(* That retries are explained is a matter of bookkeeping: DebtInv balances *)
(* the claims of a job, the one that is due (Pending) and those the        *)
(* stopping instances may still cause (Reserve) against the mishaps.       *)
(***************************************************************************)
EXTENDS DelegationJobs, FiniteSetTheorems, TLAPS

(* The token of a running job is its newest attempt; only running jobs     *)
(* have a lease, and they always have one.                                 *)
TokenInv ==
  \A j \in Job :
    /\ status[j] = "running" => token[j] = attempt[j] /\ attempt[j] # 0
    /\ status[j] \in {"absent", "queued"} => token[j] = 0
    /\ status[j] = "running" <=> lease[j] # "none"

(* Goroutines belong to claims that were made.                             *)
PhaseInv ==
  \A j \in Job : \A a \in Attempt : a > attempt[j] => phase[<<j, a>>] = "none"

(* Results are recorded exactly for the settled jobs.                      *)
ResultInv ==
  \A j \in Job :
    /\ status[j] \in {"succeeded", "failed"} =>
         settledBy[j] = attempt[j] /\ settledBy[j] # 0
    /\ status[j] \notin {"succeeded", "failed"} => settledBy[j] = 0

(* Unless the lease was lost, an acting worker is the newest one, its job  *)
(* is not open for claims, and its lease is fresh while the job runs.      *)
WorkerInv ==
  \A j \in Job \ overrun : \A a \in Attempt :
    phase[<<j, a>>] \in Active =>
      /\ a = attempt[j]
      /\ status[j] \notin {"absent", "queued"}
      /\ status[j] = "running" => lease[j] = "fresh"

(* CancelJob is past its update only for settled jobs.                     *)
CancelInv ==
  /\ \A j \in Job : canceling[j] # Nobody => status[j] \in Terminal
  /\ SignalOnlyAfterSettled

IInv ==
  /\ TypeOK
  /\ TokenInv
  /\ PhaseInv
  /\ ResultInv
  /\ WorkerInv
  /\ CancelInv
  /\ RunningJobHasWorker

-----------------------------------------------------------------------------
(* What a step leaves alone.                                               *)

(* Steps that touch neither the table nor the goroutines: the life cycle   *)
(* of the instances and the reading of the capacity.                       *)
LEMMA InstanceStep ==
  ASSUME IInv,
         UNCHANGED <<table, workers, canceling, overrun, orphaned>>,
         TypeOK'
  PROVE  IInv'
BY DEF IInv, TokenInv, PhaseInv, ResultInv, WorkerInv, CancelInv,
       SignalOnlyAfterSettled, RunningJobHasWorker, Alive, Holds, table, workers

LEMMA InitIInv == Init => IInv
<1> SUFFICES ASSUME Init PROVE IInv
  OBVIOUS
<1>1. TypeOK
  BY BatchAssumption, BoundAssumption
  DEF Init, TypeOK, Status, Phase, Claim, Terminal
<1>2. TokenInv /\ PhaseInv /\ ResultInv /\ WorkerInv
  BY DEF Init, TokenInv, PhaseInv, ResultInv, WorkerInv, Claim, Active
<1>3. CancelInv /\ RunningJobHasWorker
  BY DEF Init, CancelInv, SignalOnlyAfterSettled, RunningJobHasWorker
<1>. QED
  BY <1>1, <1>2, <1>3 DEF IInv

LEMMA LifecycleStep ==
  ASSUME IInv, NEW r \in Runtime,
         Lifecycle(r) \/ ReadCapacity(r) \/ ClaimFails(r)
  PROVE  IInv'
<1>1. UNCHANGED <<table, workers, canceling, overrun, orphaned>>
  BY DEF Lifecycle, ReadCapacity, ClaimFails, Start, Replace, CloseRuntime,
         StopRuntime, LoopExits, CloseReturns, history, workers, table
<1>2. TypeOK'
  <2>1. CASE Lifecycle(r)
    BY <2>1, BoundAssumption
    DEF IInv, TypeOK, Lifecycle, Start, Replace, CloseRuntime, StopRuntime,
        LoopExits, CloseReturns, Mishap, history, table, workers, instances
  <2>2. CASE ClaimFails(r)
    BY <2>2, BoundAssumption, BatchAssumption
    DEF IInv, TypeOK, ClaimFails, Mishap, table, workers
  <2>3. CASE ReadCapacity(r)
    <3>. DEFINE used == Cardinality({j \in Job : registered[r][j] # 0})
    <3>1. used \in Nat
      BY JobAssumption, FS_Subset, FS_CardinalityType
    <3>2. room'[r] = BatchSize - used /\ used < BatchSize
      BY <2>3 DEF ReadCapacity, IInv, TypeOK
    <3>3. room'[r] \in 0 .. BatchSize
      BY <3>1, <3>2, BatchAssumption
    <3>4. room' \in [Runtime -> 0 .. BatchSize]
      BY <2>3, <3>3 DEF ReadCapacity, IInv, TypeOK
    <3>. HIDE DEF used
    <3>. QED
      BY <2>3, <3>4, BoundAssumption
      DEF IInv, TypeOK, ReadCapacity, Mishap, table, workers
  <2>. QED
    BY <2>1, <2>2, <2>3
<1>. QED
  BY <1>1, <1>2, InstanceStep

(* A live worker, in this state and in the next, without tuples.           *)
LEMMA AliveMeans ==
  ASSUME NEW j \in Job
  PROVE  /\ Alive(j) <=>
              /\ status[j] = "running"
              /\ \E a \in Attempt : phase[<<j, a>>] \in Active /\ token[j] = a
         /\ Alive(j)' <=>
              /\ status'[j] = "running"
              /\ \E a \in Attempt : phase'[<<j, a>>] \in Active /\ token'[j] = a
BY Zenon DEF Alive, Holds

LEMMA EnqueueStep ==
  ASSUME IInv, NEW j \in Job, Enqueue(j)
  PROVE  IInv'
<1>. USE DEF Enqueue, table, instances, workers, history
<1>1. TypeOK'
  BY DEF IInv, TypeOK, Status
<1>2. TokenInv' /\ PhaseInv' /\ ResultInv'
  BY DEF IInv, TypeOK, TokenInv, PhaseInv, ResultInv
<1>3. WorkerInv'
  BY DEF IInv, TypeOK, WorkerInv
<1>4. CancelInv'
  BY DEF IInv, TypeOK, CancelInv, SignalOnlyAfterSettled, Terminal, Claim
<1>5. RunningJobHasWorker'
  BY AliveMeans DEF IInv, TypeOK, RunningJobHasWorker
<1>. QED
  BY <1>1, <1>2, <1>3, <1>4, <1>5 DEF IInv

LEMMA CrashStep ==
  ASSUME IInv, Crash
  PROVE  IInv'
<1>. USE DEF Crash, table
<1>1. TypeOK'
  BY BatchAssumption, BoundAssumption DEF IInv, TypeOK, Mishap, Phase
<1>2. \A j \in Job, a \in Attempt :
        /\ phase[<<j, a>>] = "none" => phase'[<<j, a>>] = "none"
        /\ phase'[<<j, a>>] \notin Active
  BY DEF Claim, Active
<1>3. TokenInv' /\ PhaseInv' /\ ResultInv' /\ WorkerInv'
  BY <1>2 DEF IInv, TokenInv, PhaseInv, ResultInv, WorkerInv
<1>4. CancelInv' /\ RunningJobHasWorker'
  BY DEF IInv, CancelInv, SignalOnlyAfterSettled, RunningJobHasWorker
<1>. QED
  BY <1>1, <1>3, <1>4 DEF IInv

(* Every job of the batch gets the next attempt, and the goroutine of that *)
(* attempt is its only acting one unless its lease was lost.               *)
LEMMA ClaimStep ==
  ASSUME IInv, NEW r \in Runtime, NEW S \in SUBSET Job, ClaimBatch(r, S)
  PROVE  IInv'
<1>. USE DEF ClaimBatch
<1>0. ASSUME NEW j \in S
      PROVE  /\ attempt[j] + 1 \in Attempt
             /\ status[j] \in {"queued", "running"}
             /\ status[j] = "running" => lease[j] # "fresh"
  BY <1>0, BoundAssumption DEF IInv, TypeOK, Attempt, Claimable
<1>1. TypeOK'
  <2>1. /\ status' \in [Job -> Status]
        /\ lease' \in [Job -> {"none", "fresh", "expired"}]
        /\ room' \in [Runtime -> 0 .. BatchSize]
        /\ orphaned' \in SUBSET Job
    BY BatchAssumption DEF IInv, TypeOK, Status
  <2>2. /\ attempt' \in [Job -> 0 .. MaxAttempt]
        /\ token' \in [Job -> 0 .. MaxAttempt]
    BY <1>0 DEF IInv, TypeOK, Attempt
  <2>3. phase' \in [Claim -> Phase] /\ host' \in [Claim -> Runtime \cup {Nobody}]
    BY DEF IInv, TypeOK, Phase
  <2>. QED
    BY <2>1, <2>2, <2>3 DEF IInv, TypeOK
<1>2. ASSUME NEW j \in Job, NEW a \in Attempt
      PROVE  /\ j \in S /\ a = attempt[j] + 1 => phase'[<<j, a>>] = "spawned"
             /\ ~(j \in S /\ a = attempt[j] + 1) => phase'[<<j, a>>] = phase[<<j, a>>]
  BY DEF Claim
<1>3. TokenInv'
  BY <1>0 DEF IInv, TypeOK, TokenInv, Attempt
<1>4. PhaseInv'
  BY <1>0, <1>2, BoundAssumption DEF IInv, TypeOK, PhaseInv, Attempt
<1>5. ResultInv'
  BY <1>0 DEF IInv, TypeOK, ResultInv
<1>6. WorkerInv'
  <2>. SUFFICES ASSUME NEW j \in Job \ overrun, NEW a \in Attempt,
                       phase'[<<j, a>>] \in Active
                PROVE  /\ a = attempt'[j]
                       /\ status'[j] \notin {"absent", "queued"}
                       /\ status'[j] = "running" => lease'[j] = "fresh"
    BY DEF WorkerInv
  <2>1. CASE j \in S
    <3>1. \A b \in Attempt : phase[<<j, b>>] \notin Active
      BY <2>1, <1>0 DEF IInv, WorkerInv
    <3>. QED
      BY <2>1, <3>1, <1>2 DEF IInv, TypeOK
  <2>2. CASE j \notin S
    <3>1. j \in Job \ overrun /\ phase[<<j, a>>] \in Active
      BY <2>2, <1>2
    <3>. QED
      BY <2>2, <3>1 DEF IInv, TypeOK, WorkerInv
  <2>. QED
    BY <2>1, <2>2
<1>7. CancelInv'
  BY <1>0 DEF IInv, TypeOK, CancelInv, SignalOnlyAfterSettled, Terminal, Claim
<1>8. RunningJobHasWorker'
  <2>. SUFFICES ASSUME NEW j \in Job \ orphaned', status'[j] = "running"
                PROVE  Alive(j)'
    BY DEF RunningJobHasWorker
  <2>1. CASE j \in S
    BY <2>1, <1>0, <1>2, AliveMeans DEF IInv, TypeOK, Active
  <2>2. CASE j \notin S
    <3>1. status[j] = "running" /\ token'[j] = token[j]
      BY <2>2 DEF IInv, TypeOK
    <3>2. PICK a \in Attempt : phase[<<j, a>>] \in Active /\ token[j] = a
      BY <2>2, <3>1, AliveMeans DEF IInv, RunningJobHasWorker
    <3>3. phase'[<<j, a>>] \in Active /\ token'[j] = a
      BY <2>2, <1>2, <3>1, <3>2
    <3>. QED
      BY <3>3, AliveMeans, Zenon
  <2>. QED
    BY <2>1, <2>2
<1>. QED
  BY <1>1, <1>3, <1>4, <1>5, <1>6, <1>7, <1>8 DEF IInv

-----------------------------------------------------------------------------
(* Steps of a goroutine.                                                   *)

(* A goroutine moves on and the table stays: the job keeps its worker      *)
(* unless this was the one that held it.                                   *)
LEMMA PhaseStep ==
  ASSUME IInv, TypeOK', NEW j \in Job, NEW a \in Attempt, NEW next \in Phase,
         phase[<<j, a>>] # "none",
         phase' = [phase EXCEPT ![<<j, a>>] = next],
         next \in Active => phase[<<j, a>>] \in Active,
         \/ next \in Active
         \/ phase[<<j, a>>] \notin Active
         \/ ~ Holds(<<j, a>>)
         \/ j \in orphaned',
         signaled' \subseteq signaled,
         orphaned \subseteq orphaned',
         UNCHANGED <<table, canceling, overrun>>
  PROVE  IInv'
<1>. USE DEF table
<1>1. ASSUME NEW k \in Job, NEW b \in Attempt
      PROVE  /\ k = j /\ b = a => phase'[<<k, b>>] = next
             /\ ~(k = j /\ b = a) => phase'[<<k, b>>] = phase[<<k, b>>]
  BY DEF IInv, TypeOK, Claim
<1>2. TokenInv' /\ ResultInv'
  BY DEF IInv, TokenInv, ResultInv
<1>3. PhaseInv'
  BY <1>1 DEF IInv, PhaseInv
<1>4. WorkerInv'
  BY <1>1 DEF IInv, WorkerInv
<1>5. CancelInv'
  BY DEF IInv, CancelInv, SignalOnlyAfterSettled
<1>6. RunningJobHasWorker'
  <2>. SUFFICES ASSUME NEW k \in Job \ orphaned', status[k] = "running"
                PROVE  Alive(k)'
    BY DEF RunningJobHasWorker
  <2>1. PICK b \in Attempt : phase[<<k, b>>] \in Active /\ token[k] = b
    BY AliveMeans DEF IInv, RunningJobHasWorker
  <2>2. phase'[<<k, b>>] \in Active
    BY <2>1, <1>1 DEF Holds
  <2>. QED
    BY <2>1, <2>2, AliveMeans, Zenon
<1>. QED
  BY <1>2, <1>3, <1>4, <1>5, <1>6 DEF IInv

(* Writing one entry of a running map.                                     *)
LEMMA RegisteredType ==
  ASSUME TypeOK, NEW r, NEW j \in Job, NEW v \in 0 .. MaxAttempt,
         registered' = [registered EXCEPT ![r][j] = v]
  PROVE  registered' \in [Runtime -> [Job -> 0 .. MaxAttempt]]
<1>1. registered \in [Runtime -> [Job -> 0 .. MaxAttempt]]
  BY DEF TypeOK
<1>2. ASSUME NEW s \in Runtime
      PROVE  [registered[s] EXCEPT ![j] = v] \in [Job -> 0 .. MaxAttempt]
  BY <1>1
<1>. QED
  BY <1>1, <1>2

LEMMA MoveStep ==
  ASSUME IInv, NEW j \in Job, NEW a \in Attempt,
         \/ BeginRun(j, a) \/ Execute(j, a) \/ Recheck(j, a)
         \/ WriteFails(j, a) \/ Deregister(j, a)
  PROVE  IInv'
<1>. DEFINE c == <<j, a>>
<1>. c \in Claim
  BY DEF Claim
<1>. USE DEF table, instances, history
<1>1. CASE BeginRun(j, a)
  <2>1. TypeOK'
    <3>1. registered' = [registered EXCEPT ![host[<<j, a>>]][j] = a]
      BY <1>1 DEF BeginRun
    <3>2. a \in 0 .. MaxAttempt
      BY BoundAssumption DEF Attempt
    <3>3. registered' \in [Runtime -> [Job -> 0 .. MaxAttempt]]
      BY <3>1, <3>2, RegisteredType DEF IInv
    <3>4. phase' \in [Claim -> Phase]
      BY <1>1 DEF BeginRun, IInv, TypeOK, Phase
    <3>5. UNCHANGED <<status, attempt, token, lease, settledBy, mode, room, host,
                   signaled, canceling, mishaps, overrun, orphaned>>
      BY <1>1 DEF BeginRun
    <3>. QED
      BY <3>3, <3>4, <3>5 DEF IInv, TypeOK
  <2>. QED
    BY <1>1, <2>1, PhaseStep DEF BeginRun, Phase, Active
<1>2. CASE Execute(j, a)
  <2>1. TypeOK'
    BY <1>2 DEF Execute, IInv, TypeOK, Phase
  <2>2. PICK next \in {"returned", "panicked"} : phase' = [phase EXCEPT ![c] = next]
    BY <1>2 DEF Execute
  <2>. QED
    BY <1>2, <2>1, <2>2, PhaseStep DEF Execute, Phase, Active
<1>3. CASE Recheck(j, a)
  <2>1. PICK next \in {"exiting", "failing", "releasing", "finishing"} :
          /\ phase' = [phase EXCEPT ![c] = next]
          /\ next = "exiting" => status[j] = "canceled"
    BY <1>3 DEF Recheck
  <2>2. TypeOK'
    BY <1>3, <2>1, BoundAssumption DEF Recheck, IInv, TypeOK, Phase, Mishap
  <2>. QED
    BY <1>3, <2>1, <2>2, PhaseStep DEF Recheck, Phase, Active, Holds
<1>4. CASE WriteFails(j, a)
  <2>1. TypeOK'
    BY <1>4, BoundAssumption DEF WriteFails, IInv, TypeOK, Phase, Mishap
  <2>. QED
    BY <1>4, <2>1, PhaseStep DEF WriteFails, Phase, Active
<1>5. CASE Deregister(j, a)
  <2>1. TypeOK'
    <3>1. registered' = [registered EXCEPT ![host[<<j, a>>]][j] = 0]
      BY <1>5 DEF Deregister
    <3>2. 0 \in 0 .. MaxAttempt
      BY BoundAssumption DEF Attempt
    <3>3. registered' \in [Runtime -> [Job -> 0 .. MaxAttempt]]
      BY <3>1, <3>2, RegisteredType DEF IInv
    <3>4. /\ phase' \in [Claim -> Phase]
          /\ host' \in [Claim -> Runtime \cup {Nobody}]
          /\ signaled' \in SUBSET Claim
      BY <1>5 DEF Deregister, IInv, TypeOK, Phase
    <3>5. UNCHANGED <<status, attempt, token, lease, settledBy, mode, room,
                   canceling, mishaps, overrun, orphaned>>
      BY <1>5 DEF Deregister
    <3>. QED
      BY <3>3, <3>4, <3>5 DEF IInv, TypeOK
  <2>. QED
    BY <1>5, <2>1, PhaseStep DEF Deregister, Phase, Active
<1>. QED
  BY <1>1, <1>2, <1>3, <1>4, <1>5

(* FinishDelegationJob.  A worker that holds its claim is the newest, so   *)
(* the result carries the newest attempt.                                  *)
LEMMA FinishStep ==
  ASSUME IInv, NEW j \in Job, NEW a \in Attempt,
         NEW outcome \in {"succeeded", "failed"}, Finish(j, a, outcome)
  PROVE  IInv'
<1>. DEFINE c == <<j, a>>
<1>. c \in Claim
  BY DEF Claim
<1>. phase[c] # "none"
  BY DEF Finish
<1>. USE DEF table, instances, history
<1>1. TypeOK'
  <2>1. phase' \in [Claim -> Phase]
    BY DEF Finish, IInv, TypeOK, Phase
  <2>2. /\ status' \in [Job -> Status]
        /\ lease' \in [Job -> {"none", "fresh", "expired"}]
        /\ settledBy' \in [Job -> 0 .. MaxAttempt]
    <3>1. CASE Holds(c)
      BY <3>1, BoundAssumption DEF Finish, IInv, TypeOK, Status, Terminal, Attempt
    <3>2. CASE ~ Holds(c)
      BY <3>2 DEF Finish, IInv, TypeOK
    <3>. QED
      BY <3>1, <3>2
  <2>3. UNCHANGED <<attempt, token, mode, room, registered, host, signaled,
                    canceling, mishaps, overrun, orphaned>>
    BY DEF Finish
  <2>. QED
    BY <2>1, <2>2, <2>3 DEF IInv, TypeOK
<1>2. CASE ~ Holds(c)
  BY <1>1, <1>2, PhaseStep DEF Finish, Phase, Active
<1>3. CASE Holds(c)
  <2>1. status[j] = "running" /\ token[j] = a
    BY <1>3, Zenon DEF Holds
  <2>2. ASSUME NEW k \in Job, NEW b \in Attempt
        PROVE  /\ phase'[<<k, b>>] \in Active => phase[<<k, b>>] \in Active
               /\ k # j => phase'[<<k, b>>] = phase[<<k, b>>]
               /\ phase[<<k, b>>] = "none" => phase'[<<k, b>>] = "none"
    BY DEF Finish, IInv, TypeOK, Claim, Active
  <2>3. /\ status' = [status EXCEPT ![j] = outcome]
        /\ lease' = [lease EXCEPT ![j] = "none"]
        /\ settledBy' = [settledBy EXCEPT ![j] = a]
        /\ UNCHANGED <<attempt, token, canceling, signaled, overrun, orphaned>>
    BY <1>3 DEF Finish
  <2>4. TokenInv'
    BY <2>1, <2>3 DEF IInv, TypeOK, TokenInv
  <2>5. PhaseInv'
    BY <2>2, <2>3 DEF IInv, PhaseInv
  <2>6. ResultInv'
    BY <2>1, <2>3 DEF IInv, TypeOK, TokenInv, ResultInv
  <2>7. WorkerInv'
    BY <2>2, <2>3 DEF IInv, TypeOK, WorkerInv
  <2>8. CancelInv'
    BY <2>1, <2>3 DEF IInv, TypeOK, CancelInv, SignalOnlyAfterSettled, Terminal, Claim
  <2>9. RunningJobHasWorker'
    <3>. SUFFICES ASSUME NEW k \in Job \ orphaned, status'[k] = "running"
                  PROVE  Alive(k)'
      BY <2>3 DEF RunningJobHasWorker
    <3>1. k # j /\ status[k] = "running"
      BY <2>3 DEF IInv, TypeOK
    <3>2. PICK b \in Attempt : phase[<<k, b>>] \in Active /\ token[k] = b
      BY <3>1, AliveMeans DEF IInv, RunningJobHasWorker
    <3>3. phase'[<<k, b>>] \in Active /\ token'[k] = b
      BY <2>2, <2>3, <3>1, <3>2
    <3>. QED
      BY <3>3, AliveMeans, Zenon
  <2>. QED
    BY <1>1, <2>4, <2>5, <2>6, <2>7, <2>8, <2>9 DEF IInv
<1>. QED
  BY <1>2, <1>3

(* ReleaseDelegationJobClaim reopens the job: as its lease was not lost,   *)
(* the releasing worker was the only one.                                  *)
LEMMA ReleaseStep ==
  ASSUME IInv, NEW j \in Job, NEW a \in Attempt, Release(j, a)
  PROVE  IInv'
<1>. DEFINE c == <<j, a>>
<1>. c \in Claim
  BY DEF Claim
<1>. USE DEF table, instances, history
<1>1. TypeOK'
  <2>1. phase' \in [Claim -> Phase]
    BY DEF Release, IInv, TypeOK, Phase
  <2>2. /\ status' \in [Job -> Status]
        /\ lease' \in [Job -> {"none", "fresh", "expired"}]
        /\ token' \in [Job -> 0 .. MaxAttempt]
    <3>1. CASE Holds(c)
      <4>1. 0 \in 0 .. MaxAttempt
        BY BoundAssumption
      <4>2. /\ status' = [status EXCEPT ![j] = "queued"]
            /\ lease' = [lease EXCEPT ![j] = "none"]
            /\ token' = [token EXCEPT ![j] = 0]
        BY <3>1 DEF Release
      <4>. QED
        BY <4>1, <4>2 DEF IInv, TypeOK, Status
    <3>2. CASE ~ Holds(c)
      BY <3>2 DEF Release, IInv, TypeOK
    <3>. QED
      BY <3>1, <3>2
  <2>3. UNCHANGED <<attempt, settledBy, mode, room, registered, host, signaled,
                    canceling, mishaps, overrun, orphaned>>
    BY DEF Release
  <2>. QED
    BY <2>1, <2>2, <2>3 DEF IInv, TypeOK
<1>2. CASE ~ Holds(c)
  BY <1>1, <1>2, PhaseStep DEF Release, Phase, Active
<1>3. CASE Holds(c)
  <2>1. status[j] = "running" /\ token[j] = a
    BY <1>3, Zenon DEF Holds
  <2>2. ASSUME NEW k \in Job, NEW b \in Attempt
        PROVE  /\ phase'[<<k, b>>] \in Active => phase[<<k, b>>] \in Active
               /\ phase'[<<k, b>>] \in Active => k # j \/ b # a
               /\ k # j => phase'[<<k, b>>] = phase[<<k, b>>]
               /\ phase[<<k, b>>] = "none" => phase'[<<k, b>>] = "none"
    BY DEF Release, IInv, TypeOK, Claim, Active
  <2>3. /\ status' = [status EXCEPT ![j] = "queued"]
        /\ lease' = [lease EXCEPT ![j] = "none"]
        /\ token' = [token EXCEPT ![j] = 0]
        /\ UNCHANGED <<attempt, settledBy, canceling, signaled, overrun, orphaned>>
    BY <1>3 DEF Release
  <2>4. TokenInv'
    BY <2>1, <2>3 DEF IInv, TypeOK, TokenInv
  <2>5. PhaseInv'
    BY <2>2, <2>3 DEF IInv, PhaseInv
  <2>6. ResultInv'
    BY <2>1, <2>3 DEF IInv, TypeOK, ResultInv
  <2>7. WorkerInv'
    <3>1. attempt[j] = a
      BY <2>1 DEF IInv, TokenInv
    <3>. QED
      BY <2>2, <2>3, <3>1 DEF IInv, TypeOK, WorkerInv
  <2>8. CancelInv'
    BY <2>1, <2>3 DEF IInv, TypeOK, CancelInv, SignalOnlyAfterSettled, Terminal, Claim
  <2>9. RunningJobHasWorker'
    <3>. SUFFICES ASSUME NEW k \in Job \ orphaned, status'[k] = "running"
                  PROVE  Alive(k)'
      BY <2>3 DEF RunningJobHasWorker
    <3>1. k # j /\ status[k] = "running"
      BY <2>3 DEF IInv, TypeOK
    <3>2. PICK b \in Attempt : phase[<<k, b>>] \in Active /\ token[k] = b
      BY <3>1, AliveMeans DEF IInv, RunningJobHasWorker
    <3>3. phase'[<<k, b>>] \in Active /\ token'[k] = b
      BY <2>2, <2>3, <3>1, <3>2 DEF IInv, TypeOK
    <3>. QED
      BY <3>3, AliveMeans, Zenon
  <2>. QED
    BY <1>1, <2>4, <2>5, <2>6, <2>7, <2>8, <2>9 DEF IInv
<1>. QED
  BY <1>2, <1>3

-----------------------------------------------------------------------------
(* Leases and cancellation.                                                *)

LEMMA LeaseStep ==
  ASSUME IInv, NEW j \in Job,
         \/ \E a \in Attempt : Heartbeat(j, a)
         \/ LeaseExpires(j)
         \/ LeaseLost(j)
  PROVE  IInv'
<1>. USE DEF instances, workers
<1>1. PICK l \in {"fresh", "expired"} :
        /\ lease' = [lease EXCEPT ![j] = l]
        /\ status[j] = "running"
        /\ l = "expired" => ~ Alive(j) \/ j \in overrun'
  BY Zenon DEF Heartbeat, Holds, LeaseExpires, LeaseLost
<1>2. /\ UNCHANGED <<status, attempt, token, settledBy, mode, room, registered,
                     phase, host, signaled, canceling, orphaned>>
      /\ overrun \subseteq overrun'
  BY DEF Heartbeat, LeaseExpires, LeaseLost, history
<1>3. TypeOK'
  <2>1. mishaps' \in 0 .. MaxMishap /\ overrun' \in SUBSET Job
    <3>1. CASE LeaseLost(j)
      BY <3>1, BoundAssumption DEF LeaseLost, Mishap, IInv, TypeOK
    <3>2. CASE ~ LeaseLost(j)
      BY <3>2 DEF Heartbeat, LeaseExpires, history, IInv, TypeOK
    <3>. QED
      BY <3>1, <3>2
  <2>. QED
    BY <1>1, <1>2, <2>1 DEF IInv, TypeOK
<1>4. TokenInv' /\ PhaseInv' /\ ResultInv'
  BY <1>1, <1>2 DEF IInv, TypeOK, TokenInv, PhaseInv, ResultInv
<1>5. WorkerInv'
  <2>. SUFFICES ASSUME NEW k \in Job \ overrun', NEW a \in Attempt,
                       phase[<<k, a>>] \in Active
                PROVE  /\ a = attempt[k]
                       /\ status[k] \notin {"absent", "queued"}
                       /\ status[k] = "running" => lease'[k] = "fresh"
    BY <1>2 DEF WorkerInv
  <2>1. /\ a = attempt[k]
        /\ status[k] \notin {"absent", "queued"}
        /\ status[k] = "running" => lease[k] = "fresh"
    BY <1>2 DEF IInv, WorkerInv
  <2>2. status[k] = "running" => Alive(k)
    BY <2>1, AliveMeans DEF IInv, TokenInv
  <2>. QED
    BY <1>1, <2>1, <2>2 DEF IInv, TypeOK
<1>6. CancelInv'
  BY <1>2 DEF IInv, CancelInv, SignalOnlyAfterSettled
<1>7. RunningJobHasWorker'
  BY <1>2, AliveMeans DEF IInv, RunningJobHasWorker
<1>. QED
  BY <1>3, <1>4, <1>5, <1>6, <1>7 DEF IInv

LEMMA CancelRowStep ==
  ASSUME IInv, NEW r \in Runtime, NEW j \in Job, CancelRow(r, j)
  PROVE  IInv'
<1>. USE DEF instances, workers, history
<1>1. /\ UNCHANGED <<attempt, token, settledBy, mode, room, registered, phase,
                     host, signaled, mishaps, overrun, orphaned>>
      /\ canceling' = [canceling EXCEPT ![j] = r]
      /\ status[j] # "absent"
  BY DEF CancelRow
<1>2. \/ /\ status[j] \in {"queued", "running"}
         /\ status' = [status EXCEPT ![j] = "canceled"]
         /\ lease' = [lease EXCEPT ![j] = "none"]
      \/ /\ status[j] \in Terminal
         /\ UNCHANGED <<status, lease>>
  BY DEF CancelRow, IInv, TypeOK, Status
<1>3. TypeOK'
  BY <1>1, <1>2 DEF IInv, TypeOK, Status, Terminal
<1>4. TokenInv' /\ PhaseInv' /\ ResultInv'
  BY <1>1, <1>2 DEF IInv, TypeOK, TokenInv, PhaseInv, ResultInv
<1>5. WorkerInv'
  BY <1>1, <1>2 DEF IInv, TypeOK, WorkerInv
<1>6. CancelInv'
  BY <1>1, <1>2 DEF IInv, TypeOK, CancelInv, SignalOnlyAfterSettled, Terminal, Claim
<1>7. RunningJobHasWorker'
  BY <1>1, <1>2, AliveMeans DEF IInv, TypeOK, RunningJobHasWorker
<1>. QED
  BY <1>3, <1>4, <1>5, <1>6, <1>7 DEF IInv

LEMMA CancelWorkerStep ==
  ASSUME IInv, NEW j \in Job, CancelWorker(j)
  PROVE  IInv'
<1>. USE DEF table, instances, history
<1>1. /\ UNCHANGED <<status, attempt, token, lease, settledBy, mode, room,
                     registered, phase, host, mishaps, overrun, orphaned>>
      /\ canceling[j] # Nobody
      /\ canceling' = [canceling EXCEPT ![j] = Nobody]
  BY DEF CancelWorker
<1>2. PICK a \in 0 .. MaxAttempt :
        \/ signaled' = signaled
        \/ a # 0 /\ signaled' = signaled \cup {<<j, a>>}
  <2>. DEFINE a == registered[canceling[j]][j]
  <2>1. a \in 0 .. MaxAttempt
    BY <1>1 DEF IInv, TypeOK
  <2>2. \/ signaled' = signaled
        \/ a # 0 /\ signaled' = signaled \cup {<<j, a>>}
    BY DEF CancelWorker
  <2>. HIDE DEF a
  <2>. QED
    BY <2>1, <2>2
<1>3. TypeOK'
  <2>1. signaled' \in SUBSET Claim
    BY <1>2, BoundAssumption DEF IInv, TypeOK, Claim, Attempt
  <2>. QED
    BY <1>1, <2>1 DEF IInv, TypeOK
<1>4. TokenInv' /\ PhaseInv' /\ ResultInv' /\ WorkerInv'
  BY <1>1 DEF IInv, TokenInv, PhaseInv, ResultInv, WorkerInv
<1>5. CancelInv'
  <2>1. status[j] \in Terminal
    BY <1>1 DEF IInv, CancelInv
  <2>2. \A k \in Job : canceling'[k] # Nobody => status'[k] \in Terminal
    BY <1>1 DEF IInv, TypeOK, CancelInv
  <2>3. \A c \in signaled' : c \in signaled \/ c[1] = j
    BY <1>2
  <2>. QED
    BY <1>1, <2>1, <2>2, <2>3 DEF IInv, CancelInv, SignalOnlyAfterSettled
<1>6. RunningJobHasWorker'
  BY <1>1, AliveMeans DEF IInv, RunningJobHasWorker
<1>. QED
  BY <1>3, <1>4, <1>5, <1>6 DEF IInv

-----------------------------------------------------------------------------

LEMMA NextIInv == IInv /\ [Next]_vars => IInv'
<1>. SUFFICES ASSUME IInv, [Next]_vars PROVE IInv'
  OBVIOUS
<1>1. CASE UNCHANGED vars
  <2>1. UNCHANGED <<table, workers, canceling, overrun, orphaned>> /\ TypeOK'
    BY <1>1 DEF vars, table, workers, instances, history, IInv, TypeOK
  <2>. QED
    BY <2>1, InstanceStep
<1>2. ASSUME NEW r \in Runtime, Lifecycle(r) \/ ReadCapacity(r) \/ ClaimFails(r)
      PROVE  IInv'
  BY <1>2, LifecycleStep
<1>3. ASSUME NEW r \in Runtime, NEW S \in SUBSET Job, ClaimBatch(r, S)
      PROVE  IInv'
  BY <1>3, ClaimStep
<1>4. ASSUME NEW r \in Runtime, NEW j \in Job, CancelRow(r, j)
      PROVE  IInv'
  BY <1>4, CancelRowStep
<1>5. ASSUME NEW j \in Job, Enqueue(j)
      PROVE  IInv'
  BY <1>5, EnqueueStep
<1>6. ASSUME NEW j \in Job, LeaseExpires(j) \/ LeaseLost(j)
      PROVE  IInv'
  BY <1>6, LeaseStep
<1>7. ASSUME NEW j \in Job, CancelWorker(j)
      PROVE  IInv'
  BY <1>7, CancelWorkerStep
<1>8. ASSUME NEW j \in Job, NEW a \in Attempt, Worker(j, a)
      PROVE  IInv'
  BY <1>8, MoveStep, FinishStep, ReleaseStep, LeaseStep DEF Worker
<1>9. CASE Crash
  BY <1>9, CrashStep
<1>. QED
  BY <1>1, <1>2, <1>3, <1>4, <1>5, <1>6, <1>7, <1>8, <1>9 DEF Next

LEMMA Invariance == Spec => []IInv
BY InitIInv, NextIInv, PTL DEF Spec

-----------------------------------------------------------------------------
(* Retries.                                                                *)

(* The instances that have not been closed yet will be, and one that is    *)
(* closing may still make the claim whose capacity it has read.            *)
Replaced == {r \in Runtime : mode[r] = "replaced"}
Late == {r \in Runtime : mode[r] = "closing" /\ room[r] > 0}

(* What the mishaps so far may still cost a job.  A reload is charged when *)
(* the instance is replaced: closing it makes its worker give up the job,  *)
(* and a last claim of it is given up in turn.                             *)
Reserve == 2 * Cardinality(Replaced) + Cardinality(Late)

(* The newest claim of a running job will be, or may be, followed by       *)
(* another one: it has no worker, lost its lease, or is going to be given  *)
(* back.                                                                   *)
Doomed(j) ==
  \/ j \in orphaned
  \/ lease[j] = "expired"
  \/ phase[<<j, attempt[j]>>] = "releasing"
  \/ \E r \in Runtime : host[<<j, attempt[j]>>] = r /\ Stopping(r)

(* The job may be claimed once more without another mishap.                *)
Owed(j) ==
  \/ status[j] \in {"absent", "queued"}
  \/ status[j] = "running" /\ Doomed(j)

Pending(j) == IF Owed(j) THEN 1 ELSE 0

(* The balance: claims made, the claim that is due and the claims in       *)
(* reserve are covered by the first one and two for each mishap.           *)
DebtInv == \A j \in Job : attempt[j] + Pending(j) + Reserve <= 1 + 2 * mishaps

(* An acting goroutine has an instance; only instances that still poll     *)
(* have capacity; there are finitely many instances at any time.           *)
HostInv ==
  \A c \in Claim : phase[c] \in Active \cup {"exiting"} => host[c] \in Runtime

RoomInv == \A r \in Runtime : mode[r] \in {"down", "draining"} => room[r] = 0

LiveInv == IsFiniteSet({r \in Runtime : mode[r] # "down"})

RInv == HostInv /\ RoomInv /\ LiveInv /\ DebtInv

LEMMA ReserveSize ==
  ASSUME LiveInv
  PROVE  /\ IsFiniteSet(Replaced) /\ Cardinality(Replaced) \in Nat
         /\ IsFiniteSet(Late) /\ Cardinality(Late) \in Nat
         /\ Reserve \in Nat
<1>. DEFINE Live == {r \in Runtime : mode[r] # "down"}
<1>1. Replaced \in SUBSET Live /\ Late \in SUBSET Live
  BY DEF Replaced, Late
<1>2. IsFiniteSet(Live)
  BY DEF LiveInv
<1>. HIDE DEF Live
<1>3. /\ IsFiniteSet(Replaced) /\ Cardinality(Replaced) \in Nat
      /\ IsFiniteSet(Late) /\ Cardinality(Late) \in Nat
  BY <1>1, <1>2, FS_Subset, FS_CardinalityType
<1>. QED
  BY <1>3 DEF Reserve

LEMMA SizeStep ==
  ASSUME NEW S, IsFiniteSet(S), NEW x
  PROVE  /\ Cardinality(S) \in Nat
         /\ Cardinality(S \cup {x}) \in Nat
         /\ Cardinality(S \ {x}) \in Nat
         /\ Cardinality(S \cup {x}) <= Cardinality(S) + 1
         /\ Cardinality(S \ {x}) <= Cardinality(S)
         /\ x \in S => Cardinality(S \ {x}) = Cardinality(S) - 1
BY FS_CardinalityType, FS_AddElement, FS_RemoveElement

(* A step that claims nothing: the balance holds if the job was owed a     *)
(* claim before, or the step is a mishap or draws on the reserve.          *)
LEMMA BalanceStep ==
  ASSUME TypeOK, TypeOK', LiveInv, DebtInv, UNCHANGED attempt,
         NEW d \in {0, 1}, mishaps' = mishaps + d,
         Reserve' \in Nat,
         \/ /\ Reserve' <= Reserve + 2 * d
            /\ \A j \in Job : Owed(j)' => Owed(j)
         \/ Reserve' + 1 <= Reserve + 2 * d
  PROVE  DebtInv'
<1>. SUFFICES ASSUME NEW j \in Job
              PROVE  attempt'[j] + Pending(j)' + Reserve' <= 1 + 2 * mishaps'
  BY DEF DebtInv
<1>1. /\ Reserve \in Nat /\ attempt[j] \in Nat /\ attempt'[j] = attempt[j]
      /\ mishaps \in Nat /\ mishaps' \in Nat
  BY ReserveSize, BoundAssumption DEF TypeOK
<1>2. attempt[j] + Pending(j) + Reserve <= 1 + 2 * mishaps
  BY DEF DebtInv
<1>3. /\ Pending(j) \in {0, 1} /\ Pending(j)' \in {0, 1}
      /\ (Owed(j)' => Owed(j)) => Pending(j)' <= Pending(j)
  BY DEF Pending
<1>4. \/ Reserve' <= Reserve + 2 * d /\ Pending(j)' <= Pending(j)
      \/ Reserve' + 1 <= Reserve + 2 * d
  BY <1>3, Zenon
<1>5. ASSUME NEW p \in {0, 1}, NEW q \in {0, 1}, NEW n \in Nat, NEW m \in Nat,
             NEW R \in Nat, NEW S \in Nat, n + p + R <= 1 + 2 * m,
             (S <= R + 2 * d /\ q <= p) \/ S + 1 <= R + 2 * d
      PROVE  n + q + S <= 1 + 2 * (m + d)
  BY <1>5
<1>. QED
  BY <1>1, <1>2, <1>3, <1>4, <1>5

(* A step of a job or worker: the instances stay as they are.              *)
LEMMA JobBalance ==
  ASSUME TypeOK, TypeOK', RInv, HostInv', UNCHANGED <<mode, room, attempt>>,
         NEW d \in {0, 1}, mishaps' = mishaps + d,
         d = 1 \/ \A j \in Job : Owed(j)' => Owed(j)
  PROVE  RInv'
<1>1. Replaced' = Replaced /\ Late' = Late
  BY DEF Replaced, Late
<1>2. Reserve' = Reserve /\ Reserve \in Nat
  BY <1>1, ReserveSize DEF Reserve, RInv
<1>3. Reserve' \in Nat /\ Reserve' <= Reserve + 2 * d
  BY <1>2
<1>4. d = 1 => Reserve' + 1 <= Reserve + 2 * d
  BY <1>2
<1>5. DebtInv'
  BY <1>3, <1>4, BalanceStep DEF RInv
<1>. QED
  BY <1>5 DEF RInv, RoomInv, LiveInv

(* A change of the instances alone: what a running job has to fear from    *)
(* them is that its host is stopping.                                      *)
LEMMA OwedByHost ==
  ASSUME UNCHANGED <<table, workers, orphaned>>,
         \A r \in Runtime : Stopping(r)' => Stopping(r)
  PROVE  \A j \in Job : Owed(j)' => Owed(j)
BY DEF Owed, Doomed, table, workers

LEMMA InstanceBalance ==
  ASSUME TypeOK, TypeOK', RInv, RoomInv', NEW r \in Runtime, NEW s \in Runtime,
         UNCHANGED <<table, workers, orphaned>>,
         \A q \in Runtime \ {r, s} : mode'[q] = mode[q],
         NEW d \in {0, 1}, mishaps' = mishaps + d,
         Reserve' \in Nat,
         \/ /\ Reserve' <= Reserve + 2 * d
            /\ \A q \in Runtime : Stopping(q)' => Stopping(q)
         \/ Reserve' + 1 <= Reserve + 2 * d
  PROVE  RInv'
<1>1. DebtInv'
  BY OwedByHost, BalanceStep DEF RInv, table
<1>2. HostInv'
  BY DEF RInv, HostInv, workers
<1>3. LiveInv'
  <2>. DEFINE Live == {q \in Runtime : mode[q] # "down"}
              Live2 == {q \in Runtime : mode'[q] # "down"}
  <2>1. IsFiniteSet(Live)
    BY DEF RInv, LiveInv
  <2>2. Live2 \in SUBSET ((Live \cup {r}) \cup {s})
    OBVIOUS
  <2>. HIDE DEF Live, Live2
  <2>3. IsFiniteSet(Live2)
    BY <2>1, <2>2, FS_AddElement, FS_Subset
  <2>. QED
    BY <2>3 DEF LiveInv, Live2
<1>. QED
  BY <1>1, <1>2, <1>3 DEF RInv

LEMMA LifecycleBalance ==
  ASSUME IInv, IInv', RInv, NEW r \in Runtime, Lifecycle(r)
  PROVE  RInv'
<1>. DEFINE R == Cardinality(Replaced)
            L == Cardinality(Late)
<1>0. /\ TypeOK /\ TypeOK' /\ RoomInv /\ LiveInv
      /\ mode \in [Runtime -> {"down", "up", "replaced", "closing", "draining"}]
      /\ room \in [Runtime -> Nat] /\ mishaps \in Nat
  BY BatchAssumption, BoundAssumption DEF IInv, RInv, TypeOK
<1>1. IsFiniteSet(Replaced) /\ IsFiniteSet(Late) /\ R \in Nat /\ L \in Nat
  BY <1>0, ReserveSize
<1>9. /\ Cardinality(Late \cup {r}) \in Nat /\ Cardinality(Late \cup {r}) <= L + 1
      /\ Cardinality(Replaced \cup {r}) \in Nat
      /\ Cardinality(Replaced \cup {r}) <= R + 1
      /\ Cardinality(Replaced \ {r}) \in Nat
      /\ r \in Replaced => Cardinality(Replaced \ {r}) = R - 1
  BY <1>1, SizeStep
<1>2. /\ UNCHANGED <<room, table, workers, orphaned>>
      /\ mishaps' = mishaps \/ Mishap
  BY DEF Lifecycle, Start, Replace, CloseRuntime, StopRuntime, LoopExits,
         CloseReturns, history
<1>. USE <1>0, <1>2
<1>3. CASE Start(r)
  <2>1. /\ mode[r] = "down" /\ mode' = [mode EXCEPT ![r] = "up"]
        /\ mishaps' = mishaps + 0
    BY <1>3 DEF Start, history
  <2>2. Replaced' = Replaced /\ Late' = Late /\ RoomInv'
    BY <2>1 DEF Replaced, Late, RoomInv
  <2>3. \A q \in Runtime : Stopping(q)' => Stopping(q)
    BY <2>1 DEF Stopping
  <2>4. Reserve' \in Nat /\ Reserve' <= Reserve + 2 * 0
    BY <2>2, <1>1 DEF Reserve
  <2>. QED
    BY <2>1, <2>2, <2>3, <2>4, InstanceBalance
<1>4. ASSUME NEW s \in Runtime, Replace(r, s)
      PROVE  RInv'
  <2>1. /\ mode[r] = "up" /\ mode[s] = "down"
        /\ mode' = [mode EXCEPT ![r] = "replaced", ![s] = "up"]
        /\ mishaps' = mishaps + 1
    BY <1>4 DEF Replace, Mishap
  <2>2. Replaced' = Replaced \cup {r} /\ Late' = Late /\ RoomInv'
    BY <2>1 DEF Replaced, Late, RoomInv
  <2>3. \A q \in Runtime : Stopping(q)' => Stopping(q)
    BY <2>1 DEF Stopping
  <2>4. Reserve' \in Nat /\ Reserve' <= Reserve + 2 * 1
    BY <2>2, <1>1, <1>9 DEF Reserve
  <2>. QED
    BY <2>1, <2>2, <2>3, <2>4, InstanceBalance
<1>5. CASE CloseRuntime(r)
  <2>1. /\ mode[r] = "replaced" /\ mode' = [mode EXCEPT ![r] = "closing"]
        /\ mishaps' = mishaps + 0
    BY <1>5 DEF CloseRuntime, history
  <2>2. /\ Replaced' = Replaced \ {r} /\ r \in Replaced
        /\ Late' = Late \/ Late' = Late \cup {r}
        /\ RoomInv'
    BY <2>1 DEF Replaced, Late, RoomInv
  <2>3. Cardinality(Late') \in Nat /\ Cardinality(Late') <= L + 1
    <3>1. L <= L + 1
      BY <1>1
    <3>. QED
      BY <2>2, <1>1, <1>9, <3>1, Zenon
  <2>4. Reserve' \in Nat /\ Reserve' + 1 <= Reserve + 2 * 0
    <3>1. Cardinality(Replaced') = R - 1 /\ Cardinality(Replaced') \in Nat
      BY <2>2, <1>9, Zenon
    <3>. QED
      BY <2>3, <3>1, <1>1 DEF Reserve
  <2>. QED
    BY <2>1, <2>2, <2>4, InstanceBalance
<1>6. CASE StopRuntime(r)
  <2>1. /\ mode[r] = "up" /\ mode' = [mode EXCEPT ![r] = "closing"]
        /\ mishaps' = mishaps + 1
    BY <1>6 DEF StopRuntime, Mishap
  <2>2. /\ Replaced' = Replaced
        /\ Late' = Late \/ Late' = Late \cup {r}
        /\ RoomInv'
    BY <2>1 DEF Replaced, Late, RoomInv
  <2>3. Cardinality(Late') \in Nat /\ Cardinality(Late') <= L + 1
    BY <2>2, <1>1, <1>9
  <2>4. Reserve' \in Nat /\ Reserve' + 1 <= Reserve + 2 * 1
    BY <2>2, <2>3, <1>1 DEF Reserve
  <2>. QED
    BY <2>1, <2>2, <2>4, InstanceBalance
<1>7. CASE LoopExits(r) \/ CloseReturns(r)
  <2>1. /\ room[r] = 0 /\ mishaps' = mishaps + 0
        /\ \/ mode[r] = "closing" /\ mode' = [mode EXCEPT ![r] = "draining"]
           \/ mode[r] = "draining" /\ mode' = [mode EXCEPT ![r] = "down"]
    BY <1>7 DEF LoopExits, CloseReturns, history, RoomInv
  <2>2. Replaced' = Replaced /\ Late' = Late /\ RoomInv'
    BY <2>1 DEF Replaced, Late, RoomInv
  <2>3. \A q \in Runtime : Stopping(q)' => Stopping(q)
    BY <2>1 DEF Stopping
  <2>4. Reserve' \in Nat /\ Reserve' <= Reserve + 2 * 0
    BY <2>2, <1>1 DEF Reserve
  <2>. QED
    BY <2>1, <2>2, <2>3, <2>4, InstanceBalance
<1>. QED
  BY <1>3, <1>4, <1>5, <1>6, <1>7 DEF Lifecycle

(* Reading the capacity and failing to claim.                              *)
LEMMA PollBalance ==
  ASSUME IInv, IInv', RInv, NEW r \in Runtime, ReadCapacity(r) \/ ClaimFails(r)
  PROVE  RInv'
<1>. DEFINE L == Cardinality(Late)
<1>0. /\ TypeOK /\ TypeOK' /\ RoomInv /\ LiveInv
      /\ mode \in [Runtime -> {"down", "up", "replaced", "closing", "draining"}]
      /\ room \in [Runtime -> 0 .. BatchSize] /\ mishaps \in Nat
  BY BoundAssumption DEF IInv, RInv, TypeOK
<1>1. IsFiniteSet(Late) /\ L \in Nat /\ Cardinality(Replaced) \in Nat
  BY <1>0, ReserveSize
<1>2. /\ Cardinality(Late \cup {r}) \in Nat /\ Cardinality(Late \cup {r}) <= L + 1
      /\ Cardinality(Late \ {r}) \in Nat /\ Cardinality(Late \ {r}) <= L
  BY <1>1, SizeStep
<1>3. UNCHANGED <<mode, table, workers, orphaned>>
  BY DEF ReadCapacity, ClaimFails
<1>4. Replaced' = Replaced
  BY <1>3 DEF Replaced
<1>5. \A q \in Runtime : Stopping(q)' => Stopping(q)
  BY <1>3 DEF Stopping
<1>6. CASE ReadCapacity(r)
  <2>1. PICK v : room' = [room EXCEPT ![r] = v]
    BY <1>6 DEF ReadCapacity
  <2>2. mode[r] \in {"up", "replaced", "closing"}
    BY <1>6 DEF ReadCapacity
  <2>3. RoomInv'
    BY <2>1, <2>2, <1>0, <1>3 DEF RoomInv
  <2>4. CASE mode[r] # "closing"
    <3>1. Late' = Late /\ mishaps' = mishaps + 0
      BY <1>6, <2>1, <2>4, <1>0, <1>3 DEF Late, ReadCapacity
    <3>2. Reserve' \in Nat /\ Reserve' <= Reserve + 2 * 0
      BY <1>1, <1>4, <3>1 DEF Reserve
    <3>. QED
      BY <1>0, <1>3, <1>5, <2>3, <3>1, <3>2, InstanceBalance
  <2>5. CASE mode[r] = "closing"
    <3>1. /\ Late' = Late \cup {r} \/ Late' = Late \ {r}
          /\ mishaps' = mishaps + 1
      BY <1>6, <2>1, <2>5, <1>0, <1>3 DEF Late, ReadCapacity, Mishap
    <3>2. Cardinality(Late') \in Nat /\ Cardinality(Late') <= L + 1
      BY <1>1, <1>2, <3>1
    <3>3. Reserve' \in Nat /\ Reserve' <= Reserve + 2 * 1
      BY <1>1, <1>4, <3>2 DEF Reserve
    <3>. QED
      BY <1>0, <1>3, <1>5, <2>3, <3>1, <3>3, InstanceBalance
  <2>. QED
    BY <2>4, <2>5
<1>7. CASE ClaimFails(r)
  <2>1. room' = [room EXCEPT ![r] = 0] /\ mishaps' = mishaps + 1
    BY <1>7 DEF ClaimFails, Mishap
  <2>2. Late' = Late \ {r} /\ RoomInv'
    BY <2>1, <1>0, <1>3 DEF Late, RoomInv
  <2>3. Reserve' \in Nat /\ Reserve' <= Reserve + 2 * 1
    BY <1>1, <1>2, <1>4, <2>2 DEF Reserve
  <2>. QED
    BY <1>0, <1>3, <1>5, <2>1, <2>2, <2>3, InstanceBalance
<1>. QED
  BY <1>6, <1>7

LEMMA Spend ==
  ASSUME NEW n \in Nat, NEW R \in Nat, NEW S \in Nat, NEW m \in Nat,
         NEW p \in {0, 1}, n + 1 + R <= 1 + 2 * m, S + p <= R
  PROVE  (n + 1) + p + S <= 1 + 2 * m
OBVIOUS

(* A claim uses what is pending: the jobs of the batch were queued or had  *)
(* lost their lease.  Only the batch of a closing instance will be given   *)
(* back, and its capacity was held in reserve.                             *)
LEMMA ClaimBalance ==
  ASSUME IInv, IInv', RInv, NEW r \in Runtime, NEW S \in SUBSET Job,
         ClaimBatch(r, S)
  PROVE  RInv'
<1>. DEFINE L == Cardinality(Late)
<1>0. /\ TypeOK /\ TypeOK' /\ RoomInv /\ LiveInv /\ HostInv /\ DebtInv
      /\ mode \in [Runtime -> {"down", "up", "replaced", "closing", "draining"}]
      /\ room \in [Runtime -> 0 .. BatchSize] /\ mishaps \in Nat
      /\ attempt \in [Job -> Nat] /\ attempt' \in [Job -> Nat]
      /\ BatchSize \in Nat
  BY BoundAssumption, BatchAssumption DEF IInv, RInv, TypeOK
<1>1. /\ IsFiniteSet(Late) /\ L \in Nat /\ Cardinality(Replaced) \in Nat
      /\ Reserve \in Nat
  BY <1>0, ReserveSize
<1>2. /\ UNCHANGED <<mode, mishaps>>
      /\ room' = [room EXCEPT ![r] = 0] /\ room[r] > 0
      /\ mode[r] \in {"up", "replaced", "closing"}
  BY <1>0 DEF ClaimBatch, RoomInv
<1>3. RoomInv' /\ LiveInv'
  BY <1>0, <1>2 DEF RoomInv, LiveInv
<1>4. ASSUME NEW j \in Job, NEW a \in Attempt
      PROVE  /\ j \in S /\ a = attempt[j] + 1 =>
                  phase'[<<j, a>>] = "spawned" /\ host'[<<j, a>>] = r
             /\ ~(j \in S /\ a = attempt[j] + 1) =>
                  phase'[<<j, a>>] = phase[<<j, a>>] /\ host'[<<j, a>>] = host[<<j, a>>]
  BY DEF Claim, ClaimBatch
<1>5. HostInv'
  BY <1>0, <1>4 DEF HostInv, Claim
<1>6. Replaced' = Replaced /\ Late' = Late \ {r}
  BY <1>0, <1>2 DEF Replaced, Late
<1>7. /\ Cardinality(Late') \in Nat /\ Cardinality(Late') <= L
      /\ mode[r] = "closing" => Cardinality(Late') = L - 1
  <2>1. mode[r] = "closing" => r \in Late
    BY <1>2 DEF Late
  <2>2. /\ Cardinality(Late \ {r}) \in Nat /\ Cardinality(Late \ {r}) <= L
        /\ r \in Late => Cardinality(Late \ {r}) = L - 1
    BY <1>1, SizeStep
  <2>. QED
    BY <1>6, <2>1, <2>2
<1>8. /\ Reserve' \in Nat /\ Reserve' <= Reserve
      /\ mode[r] = "closing" => Reserve' + 1 <= Reserve
  BY <1>1, <1>6, <1>7 DEF Reserve
<1>9. ASSUME NEW j \in S
      PROVE  /\ attempt'[j] = attempt[j] + 1 /\ Owed(j)
             /\ mode[r] # "closing" => ~ Owed(j)'
  <2>1. /\ status'[j] = "running" /\ attempt'[j] = attempt[j] + 1
        /\ lease'[j] = "fresh" /\ j \notin orphaned'
        /\ Claimable(j) /\ attempt[j] + 1 \in Attempt
    BY <1>0, BoundAssumption DEF ClaimBatch, Attempt, IInv, TypeOK
  <2>2. Owed(j)
    BY <2>1 DEF Claimable, Owed, Doomed, IInv, TokenInv, TypeOK
  <2>3. phase'[<<j, attempt'[j]>>] = "spawned" /\ host'[<<j, attempt'[j]>>] = r
    BY <1>4, <2>1
  <2>4. mode[r] # "closing" => ~ Owed(j)'
    BY <2>1, <2>3, <1>2 DEF Owed, Doomed, Stopping
  <2>. QED
    BY <2>1, <2>2, <2>4
<1>10. ASSUME NEW j \in Job \ S
       PROVE  attempt'[j] = attempt[j] /\ (Owed(j)' => Owed(j))
  <2>1. /\ status'[j] = status[j] /\ attempt'[j] = attempt[j]
        /\ lease'[j] = lease[j] /\ (j \in orphaned' => j \in orphaned)
    BY DEF ClaimBatch
  <2>2. status[j] = "running" => attempt[j] \in Attempt
    BY DEF IInv, TypeOK, TokenInv, Attempt
  <2>3. status[j] = "running" =>
          /\ phase'[<<j, attempt[j]>>] = phase[<<j, attempt[j]>>]
          /\ host'[<<j, attempt[j]>>] = host[<<j, attempt[j]>>]
    BY <2>2, <1>4
  <2>. QED
    BY <2>1, <2>3, <1>2 DEF Owed, Doomed, Stopping
<1>11. ASSUME NEW j \in Job
       PROVE  attempt'[j] + Pending(j)' + Reserve' <= 1 + 2 * mishaps'
  <2>1. /\ attempt[j] \in Nat /\ attempt[j] + Pending(j) + Reserve <= 1 + 2 * mishaps
    BY <1>0 DEF DebtInv
  <2>2. /\ Pending(j) \in {0, 1} /\ Pending(j)' \in {0, 1}
        /\ Owed(j) => Pending(j) = 1
        /\ (Owed(j)' => Owed(j)) => Pending(j)' <= Pending(j)
        /\ ~ Owed(j)' => Pending(j)' = 0
    BY DEF Pending
  <2>3. CASE j \in S
    <3>1. attempt'[j] = attempt[j] + 1 /\ Pending(j) = 1
      BY <1>9, <2>2, <2>3
    <3>2. Reserve' + Pending(j)' <= Reserve
      <4>1. /\ Reserve \in Nat /\ Reserve' \in Nat /\ Reserve' <= Reserve
            /\ mode[r] = "closing" => Reserve' + 1 <= Reserve
        BY <1>1, <1>8
      <4>2. mode[r] # "closing" => Pending(j)' = 0
        BY <1>9, <2>2, <2>3
      <4>3. Pending(j)' \in {0, 1}
        BY <2>2
      <4>4. ASSUME NEW S1 \in Nat, NEW R1 \in Nat, NEW p \in {0, 1},
                   S1 <= R1, p = 0 \/ S1 + 1 <= R1
            PROVE  S1 + p <= R1
        BY <4>4
      <4>5. Pending(j)' = 0 \/ Reserve' + 1 <= Reserve
        BY <4>1, <4>2, Zenon
      <4>. QED
        BY <4>1, <4>3, <4>4, <4>5, Zenon
    <3>3. attempt[j] + 1 + Reserve <= 1 + 2 * mishaps
      BY <2>1, <3>1
    <3>4. (attempt[j] + 1) + Pending(j)' + Reserve' <= 1 + 2 * mishaps
      BY <1>0, <1>1, <1>8, <2>1, <2>2, <3>2, <3>3, Spend
    <3>5. mishaps' = mishaps
      BY <1>2
    <3>. QED
      BY <3>1, <3>4, <3>5, Zenon
  <2>4. CASE j \notin S
    <3>1. attempt'[j] = attempt[j] /\ Pending(j)' <= Pending(j)
      BY <1>10, <2>2, <2>4
    <3>. QED
      BY <1>0, <1>1, <1>2, <1>8, <2>1, <2>2, <3>1
  <2>. QED
    BY <2>3, <2>4
<1>. QED
  BY <1>3, <1>5, <1>11 DEF RInv, DebtInv

LEMMA CrashBalance ==
  ASSUME IInv, IInv', RInv, Crash
  PROVE  RInv'
<1>1. /\ TypeOK /\ TypeOK' /\ LiveInv /\ DebtInv /\ Reserve \in Nat
  BY ReserveSize DEF IInv, RInv
<1>2. Replaced' = {} /\ Late' = {}
  BY DEF Crash, Replaced, Late
<1>3. Reserve' = 0
  BY <1>2, FS_EmptySet DEF Reserve
<1>4. UNCHANGED attempt /\ mishaps' = mishaps + 1
  BY DEF Crash, Mishap, table
<1>5. Reserve' \in Nat /\ Reserve' + 1 <= Reserve + 2 * 1
  BY <1>1, <1>3
<1>6. DebtInv'
  BY <1>1, <1>4, <1>5, BalanceStep
<1>7. HostInv' /\ RoomInv'
  BY DEF Crash, HostInv, RoomInv, Active
<1>8. LiveInv'
  <2>1. {r \in Runtime : mode'[r] # "down"} = {}
    BY DEF Crash
  <2>. QED
    BY <2>1, FS_EmptySet DEF LiveInv
<1>. QED
  BY <1>6, <1>7, <1>8 DEF RInv

(* Steps of a job without its workers, and cancellation.                   *)
LEMMA TableBalance ==
  ASSUME IInv, IInv', RInv, NEW j \in Job,
         \/ Enqueue(j) \/ LeaseExpires(j) \/ LeaseLost(j) \/ CancelWorker(j)
         \/ \E a \in Attempt : Heartbeat(j, a)
         \/ \E r \in Runtime : CancelRow(r, j)
  PROVE  RInv'
<1>1. /\ TypeOK /\ TypeOK'
      /\ UNCHANGED <<mode, room, attempt, phase, host, orphaned>>
  BY DEF Enqueue, LeaseExpires, LeaseLost, CancelWorker, Heartbeat, CancelRow,
         IInv, table, instances, workers, history
<1>2. HostInv'
  BY <1>1 DEF RInv, HostInv
<1>3. CASE LeaseLost(j)
  <2>1. mishaps' = mishaps + 1
    BY <1>3 DEF LeaseLost, Mishap
  <2>. QED
    BY <1>1, <1>2, <2>1, JobBalance
<1>4. CASE ~ LeaseLost(j)
  <2>. DEFINE Quiet ==
         /\ mishaps' = mishaps + 0
         /\ \A k \in Job \ {j} : status'[k] = status[k] /\ lease'[k] = lease[k]
         /\ \/ status[j] = "absent"
            \/ status[j] = "running" /\ j \in orphaned
            \/ status'[j] = "canceled"
            \/ status'[j] = status[j] /\ lease'[j] \in {lease[j], "fresh"}
  <2>. mishaps \in Nat
    BY <1>1, BoundAssumption DEF TypeOK
  <2>1. ASSUME Enqueue(j) PROVE Quiet
    BY <1>1, <2>1 DEF Enqueue, TypeOK, history
  <2>2. ASSUME LeaseExpires(j) PROVE Quiet
    <3>1. j \in orphaned
      BY <2>2 DEF LeaseExpires, IInv, RunningJobHasWorker
    <3>. QED
      BY <1>1, <2>2, <3>1 DEF LeaseExpires, TypeOK, history
  <2>3. ASSUME CancelWorker(j) PROVE Quiet
    BY <1>1, <2>3 DEF CancelWorker, TypeOK, history, table
  <2>4. ASSUME \E a \in Attempt : Heartbeat(j, a) PROVE Quiet
    BY <1>1, <2>4 DEF Heartbeat, TypeOK, history
  <2>5. ASSUME \E r \in Runtime : CancelRow(r, j) PROVE Quiet
    BY <1>1, <2>5 DEF CancelRow, TypeOK, history
  <2>6. Quiet
    BY <1>4, <2>1, <2>2, <2>3, <2>4, <2>5
  <2>7. \A k \in Job : Owed(k)' => Owed(k)
    BY <1>1, <2>6 DEF Owed, Doomed, Stopping
  <2>. QED
    BY <1>1, <1>2, <2>6, <2>7, JobBalance
<1>. QED
  BY <1>3, <1>4

(* A goroutine moves on.  It gives its job back only when its instance is  *)
(* stopping, and reopens it only when it was going to.                     *)
LEMMA WorkerBalance ==
  ASSUME IInv, IInv', RInv, NEW j \in Job, NEW a \in Attempt,
         \/ BeginRun(j, a) \/ Execute(j, a) \/ Recheck(j, a)
         \/ \E o \in {"succeeded", "failed"} : Finish(j, a, o)
         \/ Release(j, a) \/ WriteFails(j, a) \/ Deregister(j, a)
  PROVE  RInv'
<1>. DEFINE c == <<j, a>>
<1>0. /\ TypeOK /\ TypeOK' /\ HostInv /\ c \in Claim
      /\ mishaps \in Nat
  BY BoundAssumption DEF IInv, RInv, Claim, TypeOK
<1>1. /\ UNCHANGED <<mode, room, attempt>>
      /\ mishaps' = mishaps \/ Mishap
  BY DEF BeginRun, Execute, Recheck, Finish, Release, WriteFails, Deregister,
         table, instances, history
<1>2. PICK next \in Phase \ {"none", "spawned"} :
        /\ phase' = [phase EXCEPT ![c] = next]
        /\ phase[c] \in Active \cup {"exiting"}
        /\ next = "gone" \/ host' = host
        /\ host' = host \/ (next = "gone" /\ host' = [host EXCEPT ![c] = Nobody])
        /\ next = "releasing" => Stopping(host[c])
  BY DEF BeginRun, Execute, Recheck, Finish, Release, WriteFails, Deregister,
         Active, Phase
<1>3. host[c] \in Runtime
  BY <1>0, <1>2 DEF HostInv
<1>4. HostInv'
  BY <1>0, <1>2 DEF HostInv, TypeOK, Active
<1>5. CASE mishaps' = mishaps
  <2>1. mishaps' = mishaps + 0
    BY <1>0, <1>5
  <2>2. ~ WriteFails(j, a)
    BY <1>0, <1>5 DEF WriteFails, Mishap
  <2>3. orphaned' = orphaned
    BY <2>2 DEF BeginRun, Execute, Recheck, Finish, Release, Deregister, history
  <2>4. \A k \in Job \ {j} : status'[k] = status[k] /\ lease'[k] = lease[k]
    BY <1>0 DEF TypeOK, BeginRun, Execute, Recheck, Finish, Release, WriteFails,
       Deregister, table
  <2>5. \/ status'[j] = status[j] /\ lease'[j] = lease[j]
        \/ status'[j] \in {"succeeded", "failed"}
        \/ status[j] = "running" /\ token[j] = a /\ phase[c] = "releasing"
    <3>1. Holds(c) => status[j] = "running" /\ token[j] = a
      BY Zenon DEF Holds
    <3>. QED
      BY <1>0, <3>1 DEF TypeOK, BeginRun, Execute, Recheck, Finish, Release,
         WriteFails, Deregister, table
  <2>6. \A k \in Job : status[k] = "running" =>
          token[k] = attempt[k] /\ attempt[k] \in Attempt
    BY DEF IInv, TypeOK, TokenInv, Attempt
  <2>7. ASSUME NEW k \in Job, NEW b \in Attempt
        PROVE  /\ phase'[<<k, b>>] = "releasing" =>
                    \/ phase[<<k, b>>] = "releasing"
                    \/ host[<<k, b>>] \in Runtime /\ Stopping(host[<<k, b>>])
               /\ host'[<<k, b>>] = host[<<k, b>>] \/ host'[<<k, b>>] = Nobody
    <3>1. <<k, b>> \in Claim
      BY DEF Claim
    <3>2. CASE <<k, b>> = c
      BY <1>0, <1>2, <1>3, <3>2 DEF TypeOK
    <3>3. CASE <<k, b>> # c
      BY <1>0, <1>2, <3>1, <3>3 DEF TypeOK
    <3>. QED
      BY <3>2, <3>3
  <2>8. ASSUME NEW k \in Job, Owed(k)'
        PROVE  Owed(k)
    <3>1. CASE k = j /\ status'[j] \in {"succeeded", "failed"}
      BY <2>8, <3>1 DEF Owed
    <3>2. CASE k = j /\ status[j] = "running" /\ token[j] = a /\ phase[c] = "releasing"
      BY <2>6, <3>2 DEF Owed, Doomed
    <3>3. CASE status'[k] = status[k] /\ lease'[k] = lease[k]
      <4>1. status[k] = "running" => attempt[k] \in Attempt
        BY <2>6
      <4>2. \A r \in Runtime : Stopping(r)' <=> Stopping(r)
        BY <1>1 DEF Stopping
      <4>. QED
        BY <2>8, <3>3, <4>1, <4>2, <1>1, <2>3, <2>7, NobodyAssumption
        DEF Owed, Doomed
    <3>. QED
      BY <2>4, <2>5, <3>1, <3>2, <3>3
  <2>. QED
    BY <1>0, <1>1, <1>4, <2>1, <2>8, JobBalance
<1>6. CASE Mishap
  <2>1. mishaps' = mishaps + 1
    BY <1>6 DEF Mishap
  <2>. QED
    BY <1>0, <1>1, <1>4, <2>1, JobBalance
<1>. QED
  BY <1>1, <1>5, <1>6

LEMMA BalanceInvariance == Spec => []RInv
<1>1. Init => RInv
  <2>. SUFFICES ASSUME Init PROVE RInv
    OBVIOUS
  <2>1. HostInv /\ RoomInv
    BY DEF Init, HostInv, RoomInv, Active
  <2>2. {r \in Runtime : mode[r] # "down"} = {} /\ Replaced = {} /\ Late = {}
    BY DEF Init, Replaced, Late
  <2>3. LiveInv /\ Reserve = 0
    BY <2>2, FS_EmptySet DEF LiveInv, Reserve
  <2>4. DebtInv
    BY <2>3 DEF Init, DebtInv, Pending
  <2>. QED
    BY <2>1, <2>3, <2>4 DEF RInv
<1>2. IInv /\ IInv' /\ RInv /\ [Next]_vars => RInv'
  <2>. SUFFICES ASSUME IInv, IInv', RInv, [Next]_vars PROVE RInv'
    OBVIOUS
  <2>1. CASE UNCHANGED vars
    <3>1. Replaced' = Replaced /\ Late' = Late
      BY <2>1 DEF vars, instances, Replaced, Late
    <3>2. UNCHANGED <<status, attempt, lease, orphaned, phase, host, mode, mishaps>>
      BY <2>1 DEF vars, table, instances, workers, history
    <3>3. \A j \in Job : Pending(j)' = Pending(j)
      BY <3>2 DEF Pending, Owed, Doomed, Stopping
    <3>4. Reserve' = Reserve
      BY <3>1 DEF Reserve
    <3>. QED
      BY <2>1, <3>2, <3>3, <3>4
      DEF RInv, HostInv, RoomInv, LiveInv, DebtInv, vars, instances
  <2>2. ASSUME NEW r \in Runtime,
               \/ Lifecycle(r) \/ ReadCapacity(r) \/ ClaimFails(r)
               \/ \E S \in SUBSET Job : ClaimBatch(r, S)
        PROVE  RInv'
    BY <2>2, LifecycleBalance, PollBalance, ClaimBalance
  <2>3. ASSUME NEW j \in Job,
               \/ Enqueue(j) \/ LeaseExpires(j) \/ LeaseLost(j) \/ CancelWorker(j)
               \/ \E r \in Runtime : CancelRow(r, j)
        PROVE  RInv'
    BY <2>3, TableBalance
  <2>4. ASSUME NEW j \in Job, NEW a \in Attempt, Worker(j, a)
        PROVE  RInv'
    BY <2>4, TableBalance, WorkerBalance DEF Worker
  <2>5. CASE Crash
    BY <2>5, CrashBalance
  <2>. QED
    BY <2>1, <2>2, <2>3, <2>4, <2>5 DEF Next
<1>. QED
  BY <1>1, <1>2, Invariance, PTL DEF Spec

-----------------------------------------------------------------------------
(* Every variable stays in its type, for all jobs, instances and bounds.   *)
THEOREM TypeCorrect == Spec => []TypeOK
BY Invariance, PTL DEF IInv

(* The outcome of a job in the table is that of its newest claim: a worker *)
(* that was superseded after losing its lease cannot write its result.     *)
THEOREM SettledByLatestClaimThm == Spec => []SettledByLatestClaim
<1>1. IInv => SettledByLatestClaim
  BY DEF IInv, ResultInv, SettledByLatestClaim
<1>. QED
  BY <1>1, Invariance, PTL

(* At most one worker acts for a job whose lease was never lost.           *)
THEOREM OneWorkerThm == Spec => []OneWorkerUnlessLeaseLost
<1>1. IInv => OneWorkerUnlessLeaseLost
  BY DEF IInv, WorkerInv, OneWorkerUnlessLeaseLost
<1>. QED
  BY <1>1, Invariance, PTL

(* A job that is running has a worker holding its claim, unless a crash or *)
(* a failed write took it away.                                            *)
THEOREM RunningJobHasWorkerThm == Spec => []RunningJobHasWorker
BY Invariance, PTL DEF IInv

(* CancelJob never stops the worker of a job that is still to be done.     *)
THEOREM SignalOnlyAfterSettledThm == Spec => []SignalOnlyAfterSettled
BY Invariance, PTL DEF IInv, CancelInv

(* A job is claimed once, and at most twice more for every crash, lost     *)
(* lease, failed statement, reload or shutdown.                            *)
THEOREM RetriesAreExplainedThm == Spec => []RetriesAreExplained
<1>1. IInv /\ RInv => RetriesAreExplained
  <2>. SUFFICES ASSUME IInv, RInv, NEW j \in Job
                PROVE  attempt[j] <= 1 + 2 * mishaps
    BY DEF RetriesAreExplained
  <2>1. /\ attempt[j] \in Nat /\ Reserve \in Nat /\ Pending(j) \in {0, 1}
        /\ mishaps \in Nat
    BY ReserveSize, BoundAssumption DEF IInv, RInv, TypeOK, Pending
  <2>2. attempt[j] + Pending(j) + Reserve <= 1 + 2 * mishaps
    BY DEF RInv, DebtInv
  <2>. QED
    BY <2>1, <2>2
<1>. QED
  BY <1>1, Invariance, BalanceInvariance, PTL

-----------------------------------------------------------------------------
(* Steps and the abstract queue.                                           *)

LEMMA SettledStays ==
  ASSUME IInv, [Next]_vars, NEW j \in Job, status[j] \in Terminal
  PROVE  status'[j] = status[j] /\ settledBy'[j] = settledBy[j]
<1>. USE DEF Terminal, table, instances, workers, history
<1>1. CASE UNCHANGED <<status, settledBy>>
  BY <1>1
<1>2. ASSUME NEW r \in Runtime, NEW S \in SUBSET Job, ClaimBatch(r, S)
      PROVE  status'[j] = status[j] /\ settledBy'[j] = settledBy[j]
  BY <1>2 DEF ClaimBatch, Claimable
<1>3. ASSUME NEW r \in Runtime, NEW k \in Job, CancelRow(r, k)
      PROVE  status'[j] = status[j] /\ settledBy'[j] = settledBy[j]
  BY <1>3 DEF CancelRow, IInv, TypeOK
<1>4. ASSUME NEW k \in Job, Enqueue(k)
      PROVE  status'[j] = status[j] /\ settledBy'[j] = settledBy[j]
  BY <1>4 DEF Enqueue, IInv, TypeOK
<1>5. ASSUME NEW k \in Job, NEW a \in Attempt, Worker(k, a)
      PROVE  status'[j] = status[j] /\ settledBy'[j] = settledBy[j]
  <2>1. CASE Holds(<<k, a>>)
    <3>1. status[k] = "running"
      BY <2>1, Zenon DEF Holds
    <3>. QED
      BY <1>5, <3>1 DEF Worker, BeginRun, Execute, Recheck, Finish, Release,
         WriteFails, Deregister, Heartbeat, IInv, TypeOK
  <2>2. CASE ~ Holds(<<k, a>>)
    BY <1>5, <2>2 DEF Worker, BeginRun, Execute, Recheck, Finish, Release,
       WriteFails, Deregister, Heartbeat
  <2>. QED
    BY <2>1, <2>2
<1>6. ASSUME \/ \E r \in Runtime : Lifecycle(r) \/ ReadCapacity(r) \/ ClaimFails(r)
             \/ \E k \in Job : LeaseExpires(k) \/ LeaseLost(k) \/ CancelWorker(k)
             \/ Crash
             \/ UNCHANGED vars
      PROVE  UNCHANGED <<status, settledBy>>
  BY <1>6 DEF Lifecycle, Start, Replace, CloseRuntime, StopRuntime, LoopExits,
     CloseReturns, ReadCapacity, ClaimFails, LeaseExpires, LeaseLost,
     CancelWorker, Crash, vars
<1>. QED
  BY <1>1, <1>2, <1>3, <1>4, <1>5, <1>6 DEF Next

(* A settled job is never reopened or rewritten.                           *)
THEOREM TerminalIsFinalThm == Spec => TerminalIsFinal
<1>1. IInv /\ IInv' /\ [Next]_vars =>
        [\A j \in Job : status[j] \in Terminal =>
           /\ status'[j] = status[j]
           /\ settledBy'[j] = settledBy[j]
           /\ lease'[j] = "none"]_vars
  <2>. SUFFICES ASSUME IInv, IInv', [Next]_vars, NEW j \in Job,
                       status[j] \in Terminal
                PROVE  /\ status'[j] = status[j]
                       /\ settledBy'[j] = settledBy[j]
                       /\ lease'[j] = "none"
    OBVIOUS
  <2>1. status'[j] = status[j] /\ settledBy'[j] = settledBy[j]
    BY SettledStays
  <2>2. lease'[j] = "none"
    BY <2>1 DEF IInv, TokenInv, Terminal
  <2>. QED
    BY <2>1, <2>2
<1>. QED
  BY <1>1, Invariance, PTL DEF Spec, TerminalIsFinal

(* A step that leaves the stages, attempts and results alone.              *)
LEMMA StutterStep ==
  ASSUME UNCHANGED <<status, attempt, settledBy>>
  PROVE  UNCHANGED Queue!vars
BY DEF Queue!vars

(* The table implements the leased work queue: every step takes, gives     *)
(* back, closes or withdraws items as the queue allows, or is invisible.   *)
THEOREM Refinement == Spec => ImplementsLeasedWork
<1>1. Init => Queue!Init
  BY DEF Init, Queue!Init, Stage
<1>2. IInv /\ [Next]_vars => [Queue!Next]_(Queue!vars)
  <2>. SUFFICES ASSUME IInv, [Next]_vars
                PROVE  [Queue!Next]_(Queue!vars)
    OBVIOUS
  <2>. USE DEF table, instances, workers, history
  <2>1. CASE UNCHANGED vars
    BY <2>1, StutterStep DEF vars
  <2>2. ASSUME NEW r \in Runtime, Lifecycle(r) \/ ReadCapacity(r) \/ ClaimFails(r)
        PROVE  UNCHANGED <<status, attempt, settledBy>>
    BY <2>2 DEF Lifecycle, Start, Replace, CloseRuntime, StopRuntime, LoopExits,
       CloseReturns, ReadCapacity, ClaimFails
  <2>3. ASSUME NEW r \in Runtime, NEW S \in SUBSET Job, ClaimBatch(r, S)
        PROVE  Queue!Take(S) \/ UNCHANGED <<status, attempt, settledBy>>
    <3>1. CASE S = {}
      BY <2>3, <3>1 DEF ClaimBatch, IInv, TypeOK
    <3>2. CASE S # {}
      <4>1. \A j \in S : Stage(status[j]) # "closed"
        BY <2>3 DEF ClaimBatch, Claimable, Stage
      <4>2. \A j \in Job : Stage(status'[j]) =
              IF j \in S THEN "held" ELSE Stage(status[j])
        BY <2>3 DEF ClaimBatch, Stage
      <4>. QED
        BY <2>3, <3>2, <4>1, <4>2 DEF ClaimBatch, Queue!Take
    <3>. QED
      BY <3>1, <3>2
  <2>4. ASSUME NEW r \in Runtime, NEW j \in Job, CancelRow(r, j)
        PROVE  Queue!Withdraw(j) \/ UNCHANGED <<status, attempt, settledBy>>
    <3>. SUFFICES ASSUME status[j] \in {"queued", "running"}
                  PROVE  Queue!Withdraw(j)
      BY <2>4 DEF CancelRow
    <3>1. status' = [status EXCEPT ![j] = "canceled"]
      BY <2>4 DEF CancelRow
    <3>2. Stage(status[j]) # "closed" /\ Stage("canceled") = "closed"
      BY DEF Stage
    <3>. QED
      BY <2>4, <3>1, <3>2 DEF CancelRow, Queue!Withdraw, IInv, TypeOK
  <2>5. ASSUME NEW j \in Job, Enqueue(j)
        PROVE  UNCHANGED Queue!vars
    <3>1. \A k \in Job : Stage(status'[k]) = Stage(status[k])
      BY <2>5 DEF Enqueue, Stage, IInv, TypeOK
    <3>. QED
      BY <2>5, <3>1 DEF Enqueue, Queue!vars
  <2>6. ASSUME \/ \E j \in Job : LeaseExpires(j) \/ LeaseLost(j) \/ CancelWorker(j)
               \/ Crash
        PROVE  UNCHANGED <<status, attempt, settledBy>>
    BY <2>6 DEF LeaseExpires, LeaseLost, CancelWorker, Crash
  <2>7. ASSUME NEW j \in Job, NEW a \in Attempt, Worker(j, a)
        PROVE  \/ Queue!Close(j) \/ Queue!GiveBack(j)
               \/ UNCHANGED <<status, attempt, settledBy>>
    <3>1. CASE Holds(<<j, a>>)
      <4>1. status[j] = "running" /\ token[j] = a
        BY <3>1, Zenon DEF Holds
      <4>2. attempt[j] = a /\ Stage(status[j]) = "held"
        BY <4>1 DEF IInv, TokenInv, Stage
      <4>3. ASSUME NEW o \in {"succeeded", "failed"}, Finish(j, a, o)
            PROVE  Queue!Close(j)
        <5>1. /\ status' = [status EXCEPT ![j] = o]
              /\ settledBy' = [settledBy EXCEPT ![j] = a]
              /\ attempt' = attempt
          BY <4>3, <3>1 DEF Finish
        <5>2. Stage(o) = "closed"
          BY DEF Stage
        <5>. QED
          BY <4>2, <5>1, <5>2 DEF Queue!Close, IInv, TypeOK
      <4>4. ASSUME Release(j, a)
            PROVE  Queue!GiveBack(j)
        <5>1. /\ status' = [status EXCEPT ![j] = "queued"]
              /\ settledBy' = settledBy
              /\ attempt' = attempt
          BY <4>4, <3>1 DEF Release
        <5>2. Stage("queued") = "open"
          BY DEF Stage
        <5>. QED
          BY <4>2, <5>1, <5>2 DEF Queue!GiveBack, IInv, TypeOK
      <4>. QED
        BY <2>7, <4>3, <4>4 DEF Worker, BeginRun, Execute, Recheck, WriteFails,
           Deregister, Heartbeat
    <3>2. CASE ~ Holds(<<j, a>>)
      BY <2>7, <3>2 DEF Worker, BeginRun, Execute, Recheck, Finish, Release,
         WriteFails, Deregister, Heartbeat
    <3>. QED
      BY <3>1, <3>2
  <2>. QED
    BY <2>1, <2>2, <2>3, <2>4, <2>5, <2>6, <2>7, StutterStep DEF Next, Queue!Next
<1>. QED
  BY <1>1, <1>2, Invariance, PTL DEF Spec, ImplementsLeasedWork, Queue!Spec

=============================================================================
