----------------------------- MODULE ChannelTurns -----------------------------
(***************************************************************************)
(* The way of a chat message through the server: a channel goroutine        *)
(* publishes it into the table inbound_events, the drain claims it for ten  *)
(* minutes and hands it to the dispatch loop, a worker per conversation     *)
(* runs a turn of the account's runtime for it and sends the answer, with a *)
(* row in pending_responses that a retry loop sends again, and with a line  *)
(* in the ledger outbound_deliveries.                                      *)
(* apps/kittypaw/server/{channel_dispatch,inbound_events,server}.go and     *)
(* apps/kittypaw/store/store.go.                                           *)
(*                                                                         *)
(* One conversation of one account, on a channel whose answers may be sent  *)
(* later (all but KakaoTalk), with the channel's spawner and the admission  *)
(* of the account's runtime, where other turns compete with the worker's.   *)
(* Each statement on a table, each send and each operation on a Go channel  *)
(* is one step.                                                            *)
(***************************************************************************)
EXTENDS Admission, ChannelSpawner, Sequences, Functions

CONSTANTS
  Message,
  NoMessage,
  Chat,          \* the worker's turn
  QueueSize,     \* jobs a worker's queue holds (32 in the code)
  MaxTries,      \* failed retries after which an answer is dropped (5)
  MaxTakes,      \* bound: jobs begun for one message
  MaxMishap      \* bound: mishaps of any kind, other turns included

ASSUME MessageAssumption == NoMessage \notin Message
ASSUME ChatAssumption == Chat \in Turn \ Inner
ASSUME BoundAssumption ==
  /\ {QueueSize, MaxTries, MaxTakes, MaxMishap} \subseteq Nat
  /\ MaxTries > 0

(* Answers are numbered per message: the n-th answer to a message is the   *)
(* one of the n-th job for it.                                             *)
Answer == Message \X (1 .. MaxTakes)
InboxStatus == {"queued", "processing", "done", "failed"}
DeliveryStatus == {"queued", "sending", "delivered", "failed", "dropped"}

(* The goroutines that answer: the worker, and the dispatch loop when it    *)
(* turns a message away because the worker's queue is full.                *)
Actor == {"worker", "dispatcher"}

(* What they do next.                                                      *)
Phase ==
  {"idle",
   "turn",               \* in runChannelRuntime
   "answering",          \* has an answer
   "refusing",           \* has a notice of failure
   "parking",            \* the notice could not be sent
   "sending",            \* about to send the answer
   "requeueing",         \* sending failed and there is no row yet
   "clearing",           \* answer sent, its row still there
   "noteThenSend", "noteThenFail", "noteThenComplete",
                         \* row written, no line in the ledger yet
   "delivered", "undelivered",
                         \* outcome of the send not yet in the ledger
   "completing"}

(* What the retry loop does next with a row.                               *)
RetryPhase ==
  {"idle",
   "send",
   "bump",               \* sending failed
   "queued", "dropped", "failed", "delivered",
                         \* what the ledger is to say
   "clear"}              \* answer sent, its row still there

VARIABLES
  mode,          \* of the daemon: "up", "stopping" (context canceled), "down"
  removing,      \* removal of the account in progress
  hand,          \* Instance -> message it is publishing, or NoMessage
  seen,          \* Instance -> messages before its offset
  arrival,       \* messages in the table, in the order of their ids
  inbox,         \* Message -> InboxStatus, "absent" when not in the table
  leased,        \* messages with claimed_until in the future
  stream,        \* claimed, on the way through eventCh
  jobs,          \* the worker's queue
  canceled,      \* its context
  task,          \* Actor -> what it does, for which answer
  outbox,        \* answers with a row in pending_responses
  tries,         \* Answer -> retry_count of its row
  ledger,        \* Answer -> DeliveryStatus, "none" without a line
  batch,         \* rows the retry loop has read and not yet handled
  retry,         \* the row it handles, and what it does next
  takes,         \* history, Message -> jobs begun or turned away for it
  again,         \* history, Message -> times it became claimable again after
                 \*   a claim that may have led to a job
  sent,          \* history, answers the chat has got
  givenUp,       \* history, answers dropped after MaxTries or as too old
  silent,        \* history, messages that need no answer or whose notice of
                 \*   failure was lost
  mishaps

table == <<arrival, inbox, leased>>
source == <<hand, seen>>
flow == <<stream, jobs, canceled>>
delivery == <<outbox, tries, ledger>>
retrying == <<batch, retry>>
counts == <<takes, again>>
ends == <<sent, givenUp, silent>>
control == <<mode, removing>>
vars == <<admission, spawner, control, source, table, flow, task, delivery,
          retrying, counts, ends, mishaps>>

(* ok: a channel was found; old: for a runtime that has been replaced.     *)
Job == [msg : Message, ok : BOOLEAN, old : BOOLEAN]
NoAnswer == <<>>
Idle == [phase |-> "idle", answer |-> NoAnswer, ok |-> FALSE, row |-> FALSE]
NoRetry == [phase |-> "idle", answer |-> NoAnswer]

FlowTypeOK ==
  /\ mode \in {"up", "stopping", "down"}
  /\ removing \in BOOLEAN /\ canceled \in BOOLEAN
  /\ hand \in [Instance -> Message \cup {NoMessage}]
  /\ seen \in [Instance -> SUBSET Message]
  /\ arrival \in Seq(Message) /\ stream \in Seq(Message)
  /\ inbox \in [Message -> InboxStatus \cup {"absent"}]
  /\ leased \subseteq {m \in Message : inbox[m] = "processing"}
  /\ jobs \in Seq(Job) /\ Len(jobs) <= QueueSize
  /\ again \in [Message -> Nat]
  /\ mishaps \in 0 .. MaxMishap

AnswerTypeOK ==
  /\ task \in [Actor -> [phase : Phase, answer : Answer \cup {NoAnswer},
                         ok : BOOLEAN, row : BOOLEAN]]
  /\ outbox \subseteq Answer /\ batch \subseteq Answer
  /\ sent \subseteq Answer /\ givenUp \subseteq Answer
  /\ tries \in [Answer -> 0 .. MaxTries - 1]
  /\ ledger \in [Answer -> DeliveryStatus \cup {"none"}]
  /\ retry \in [phase : RetryPhase, answer : Answer \cup {NoAnswer}]
  /\ takes \in [Message -> 0 .. MaxTakes]
  /\ silent \subseteq Message

TypeOK == AdmissionTypeOK /\ SpawnerTypeOK /\ FlowTypeOK /\ AnswerTypeOK

Init ==
  /\ AdmissionInit /\ SpawnerInit
  /\ mode = "up" /\ removing = FALSE
  /\ hand = [c \in Instance |-> NoMessage]
  /\ seen = [c \in Instance |-> {}]
  /\ arrival = <<>>
  /\ inbox = [m \in Message |-> "absent"]
  /\ leased = {}
  /\ stream = <<>> /\ jobs = <<>> /\ canceled = FALSE
  /\ task = [w \in Actor |-> Idle]
  /\ outbox = {}
  /\ tries = [a \in Answer |-> 0]
  /\ ledger = [a \in Answer |-> "none"]
  /\ batch = {} /\ retry = NoRetry
  /\ takes = [m \in Message |-> 0] /\ again = [m \in Message |-> 0]
  /\ sent = {} /\ givenUp = {} /\ silent = {}
  /\ mishaps = 0

-----------------------------------------------------------------------------

(* Errors, deaths, reloads and everything else that need not happen.       *)
Mishap == mishaps < MaxMishap /\ mishaps' = mishaps + 1
NoMishap == UNCHANGED mishaps

(* The statements on inbound_events.  Complete, Release and Fail look at   *)
(* nothing but the id.                                                     *)
SetInbox(m, s) ==
  /\ inbox' = [inbox EXCEPT ![m] = s]
  /\ leased' = leased \ {m}
  /\ UNCHANGED arrival
CompleteInboundEvent(m) == SetInbox(m, "done")
ReleaseInboundEvent(m) == SetInbox(m, "queued")
FailInboundEvent(m) == SetInbox(m, "failed")

(* The statements on pending_responses and outbound_deliveries.            *)
EnqueueResponse(a) == outbox' = outbox \cup {a} /\ UNCHANGED tries
DropRow(a) == outbox' = outbox \ {a} /\ tries' = [tries EXCEPT ![a] = 0]
Note(a, s) == ledger' = [ledger EXCEPT ![a] = s]
(* Only an answer with a line in the ledger has one to update.             *)
Mark(a, s) ==
  ledger' = [ledger EXCEPT ![a] = IF @ = "none" THEN "none" ELSE s]

(* markOutboundDelivery, markPendingOutboundDelivery: an error is only     *)
(* logged.                                                                 *)
UpdateLedger(a, s) ==
  \/ Mark(a, s) /\ NoMishap
  \/ UNCHANGED ledger /\ Mishap

-----------------------------------------------------------------------------
(* The channel goroutine, as the one for Telegram is written.              *)

Fetch(c, m) ==
  /\ mode = "up" /\ life[c] = "polling"
  /\ hand[c] = NoMessage /\ m \notin seen[c]
  /\ hand' = [hand EXCEPT ![c] = m]
  /\ NoMishap
  /\ UNCHANGED <<admission, spawner, control, seen, table, flow, task, delivery,
                 retrying, counts, ends>>

AdvanceOffset(c) ==
  /\ seen' = [seen EXCEPT ![c] = @ \cup {hand[c]}]
  /\ hand' = [hand EXCEPT ![c] = NoMessage]

(* Mutant: a message that is in the table is queued once more.             *)
PublishAnew(c) ==
  /\ mode # "down" /\ hand[c] # NoMessage
  /\ IF inbox[hand[c]] = "absent"
       THEN arrival' = Append(arrival, hand[c])
       ELSE UNCHANGED arrival
  /\ inbox' = [inbox EXCEPT ![hand[c]] = "queued"]
  /\ leased' = leased \ {hand[c]}
  /\ AdvanceOffset(c) /\ NoMishap
  /\ UNCHANGED <<admission, spawner, control, flow, task, delivery, retrying,
                 counts, ends>>

(* EnqueueInboundEvent ignores a message it has had before.  A goroutine   *)
(* that is canceled meanwhile may still get it done.                       *)
PublishEvent(c) ==
  /\ mode # "down" /\ hand[c] # NoMessage
  /\ IF inbox[hand[c]] = "absent"
       THEN /\ arrival' = Append(arrival, hand[c])
            /\ inbox' = [inbox EXCEPT ![hand[c]] = "queued"]
       ELSE UNCHANGED <<arrival, inbox>>
  /\ AdvanceOffset(c) /\ NoMishap
  /\ UNCHANGED <<admission, spawner, control, leased, flow, task, delivery,
                 retrying, counts, ends>>

(* A goroutine started anew asks for everything once more: its offset is   *)
(* zero.                                                                   *)
ChannelStarts(c) ==
  /\ mode = "up" /\ ~removing /\ TrySpawn(c) /\ NoMishap
  /\ UNCHANGED <<admission, control, source, table, flow, task, delivery,
                 retrying, counts, ends>>

ChannelStops ==
  /\ mode = "up" /\ StopChannel /\ Mishap
  /\ UNCHANGED <<admission, control, source, table, flow, task, delivery,
                 retrying, counts, ends>>

ChannelExits(c) ==
  /\ mode # "down" /\ Exit(c)
  /\ IF life[c] = "polling" THEN Mishap ELSE NoMishap
  /\ hand' = [hand EXCEPT ![c] = NoMessage]
  /\ seen' = [seen EXCEPT ![c] = {}]
  /\ UNCHANGED <<admission, control, table, flow, task, delivery, retrying,
                 counts, ends>>

-----------------------------------------------------------------------------
(* The drain and the dispatch loop.                                        *)

Claimable(m) == inbox[m] = "queued" \/ (inbox[m] = "processing" /\ m \notin leased)

(* The table is read in the order of the ids.                              *)
InOrder(s) ==
  \A i, j \in DOMAIN s : i < j =>
    \E k, l \in DOMAIN arrival : k < l /\ arrival[k] = s[i] /\ arrival[l] = s[j]

(* ClaimInboundEvents, one transaction.                                    *)
Claim ==
  /\ mode = "up"
  /\ LET due == {m \in Message : Claimable(m)} IN
     /\ \E n \in 1 .. Len(arrival) : \E s \in [1 .. n -> due] :
          /\ Range(s) = due /\ InOrder(s)
          /\ stream' = stream \o s
     /\ inbox' = [m \in Message |-> IF m \in due THEN "processing" ELSE inbox[m]]
     /\ leased' = leased \cup due
  /\ NoMishap
  /\ UNCHANGED <<admission, spawner, control, source, arrival, jobs, canceled,
                 task, delivery, retrying, counts, ends>>

Handles(w, m) == task[w].phase # "idle" /\ task[w].answer[1] = m

Waits(m) == \E i \in DOMAIN jobs : jobs[i].msg = m

(* The lease of a message is kept alive from the worker's queue to the end *)
(* of its job, or of the worker's context.                                 *)
Kept(m) == mode = "up" /\ ~canceled /\ (Handles("worker", m) \/ Waits(m))

(* Ten minutes are over.  They are a mishap while somebody still has the   *)
(* message, for example a worker whose statements to extend the lease have *)
(* failed, or whose machine was suspended.                                 *)
LeaseEnds(m) ==
  /\ m \in leased
  /\ IF m \in Range(stream) \/ Waits(m) \/ \E w \in Actor : Handles(w, m)
       THEN Mishap ELSE NoMishap
  /\ leased' = leased \ {m}
  /\ again' = [again EXCEPT ![m] = @ + 1]
  /\ UNCHANGED <<admission, spawner, control, source, arrival, inbox, flow,
                 task, delivery, retrying, takes, ends>>

(* RefreshInboundEventLease also revives a lease that had ended.           *)
RefreshLease(m) ==
  /\ Kept(m) /\ inbox[m] = "processing" /\ m \notin leased
  /\ leased' = leased \cup {m}
  /\ NoMishap
  /\ UNCHANGED <<admission, spawner, control, source, arrival, inbox, flow,
                 task, delivery, retrying, counts, ends>>

Arrived == mode = "up" /\ stream # <<>> /\ task["dispatcher"].phase = "idle"

(* The message is not from the account's chats or users, or makes no sense. *)
Reject ==
  /\ Arrived /\ Mishap
  /\ stream' = Tail(stream)
  /\ CompleteInboundEvent(Head(stream)) \/ FailInboundEvent(Head(stream))
  /\ silent' = silent \cup {Head(stream)}
  /\ UNCHANGED <<admission, spawner, control, source, jobs, canceled, task,
                 delivery, retrying, counts, sent, givenUp>>

(* The account is being removed.                                           *)
PutBack ==
  /\ Arrived /\ removing
  /\ stream' = Tail(stream)
  /\ ReleaseInboundEvent(Head(stream))
  /\ NoMishap
  /\ UNCHANGED <<admission, spawner, control, source, jobs, canceled, task,
                 delivery, retrying, counts, ends>>

(* Mutant: the worker's queue has no limit.                                *)
DispatchAlways ==
  /\ Arrived
  /\ stream' = Tail(stream)
  /\ jobs' = Append(jobs, [msg |-> Head(stream), ok |-> entry # NoInstance,
                           old |-> FALSE])
  /\ NoMishap
  /\ UNCHANGED <<admission, spawner, control, source, table, canceled, task,
                 delivery, retrying, counts, ends>>

(* enqueueChannelEvent: the job gets the channel there is now.  A worker   *)
(* that was canceled and has not left yet takes it too, and the removal of *)
(* the account may have begun since the loop looked.                       *)
Dispatch ==
  /\ Arrived /\ Len(jobs) < QueueSize
  /\ stream' = Tail(stream)
  /\ jobs' = Append(jobs, [msg |-> Head(stream), ok |-> entry # NoInstance,
                           old |-> FALSE])
  /\ NoMishap
  /\ UNCHANGED <<admission, spawner, control, source, table, canceled, task,
                 delivery, retrying, counts, ends>>

Begin(w, phase, m, ok) ==
  /\ takes[m] < MaxTakes
  /\ takes' = [takes EXCEPT ![m] = @ + 1]
  /\ task' = [task EXCEPT ![w] = [phase |-> phase, answer |-> <<m, takes'[m]>>,
                                  ok |-> ok, row |-> FALSE]]

(* The worker's queue is full.                                             *)
TurnAway ==
  /\ Arrived /\ Len(jobs) = QueueSize
  /\ stream' = Tail(stream)
  /\ Begin("dispatcher", "refusing", Head(stream), entry # NoInstance)
  /\ NoMishap
  /\ UNCHANGED <<admission, spawner, control, source, table, jobs, canceled,
                 delivery, retrying, again, ends>>

-----------------------------------------------------------------------------
(* The worker: runChannelWorker and processChannelEvent.                   *)

At(w, phase) == mode # "down" /\ task[w].phase = phase
Go(w, phase) == task' = [task EXCEPT ![w].phase = phase]
Rest(w) == task' = [task EXCEPT ![w] = Idle]
Msg(w) == task[w].answer[1]
Stopped == canceled \/ mode = "stopping"

TakeJob ==
  /\ At("worker", "idle") /\ ~Stopped /\ jobs # <<>>
  /\ jobs' = Tail(jobs)
  /\ Begin("worker", "turn", Head(jobs).msg, Head(jobs).ok)
  /\ IF Head(jobs).old THEN AskOld(Chat) ELSE TryAccount(Chat)
  /\ NoMishap
  /\ UNCHANGED <<spawner, control, source, table, stream, canceled, delivery,
                 retrying, again, ends>>

(* The context has ended: what is in the queue is left to its lease, and   *)
(* the next message gets a new worker.                                     *)
WorkerLeaves ==
  /\ At("worker", "idle") /\ Stopped
  /\ jobs' = <<>> /\ canceled' = FALSE
  /\ jobs # <<>> \/ canceled
  /\ NoMishap
  /\ UNCHANGED <<admission, spawner, control, source, table, stream, task,
                 delivery, retrying, counts, ends>>

AwaitTurn ==
  /\ At("worker", "turn")
  /\ Acquire(Chat) \/ FinishTurn(Chat)
  /\ NoMishap
  /\ UNCHANGED <<spawner, control, source, table, flow, task, delivery, retrying,
                 counts, ends>>

(* Run returns.  When the worker's context has ended the job is not        *)
(* handled, whatever came of it.                                           *)
TurnReturns ==
  /\ At("worker", "turn")
  /\ \/ /\ Refuse(Chat) \/ GiveUp(Chat)
        /\ IF Stopped THEN Rest("worker") ELSE Go("worker", "refusing")
        /\ UNCHANGED silent
     \/ /\ FreeLease(Chat) \/ EndOld(Chat)
        /\ \/ /\ Stopped /\ Rest("worker") /\ UNCHANGED silent
           \/ /\ ~Stopped /\ UNCHANGED silent
              /\ Go("worker", "answering") \/ Go("worker", "refusing")
           \/ /\ ~Stopped /\ Go("worker", "completing")
              /\ silent' = silent \cup {Msg("worker")}
  /\ NoMishap
  /\ UNCHANGED <<spawner, control, source, table, flow, delivery, retrying,
                 counts, sent, givenUp>>

(* A failed statement leaves the message without an answer: it is queued   *)
(* again.                                                                  *)
HandBack(w) ==
  /\ Mishap
  /\ ReleaseInboundEvent(Msg(w))
  /\ again' = [again EXCEPT ![Msg(w)] = @ + 1]
  /\ Rest(w)
  /\ UNCHANGED <<outbox, tries>>

(* The answer is stored before it is sent, or instead when there is no     *)
(* channel.                                                                *)
StoreAnswer(w) ==
  /\ At(w, "answering")
  /\ \/ /\ EnqueueResponse(task[w].answer)
        /\ task' = [task EXCEPT ![w].row = TRUE,
                      ![w].phase = IF task[w].ok THEN "noteThenSend"
                                                 ELSE "noteThenComplete"]
        /\ NoMishap /\ UNCHANGED <<table, again>>
     \/ /\ task[w].ok /\ Mishap
        /\ Go(w, "sending")
        /\ UNCHANGED <<table, again, outbox, tries>>
     \/ ~task[w].ok /\ HandBack(w)
  /\ UNCHANGED <<admission, spawner, control, source, flow, ledger, retrying,
                 takes, ends>>

AfterNote == [noteThenSend |-> "sending", noteThenFail |-> "undelivered",
              noteThenComplete |-> "completing"]

(* recordOutboundDelivery: an error is only logged.                        *)
NoteAnswer(w) ==
  /\ mode # "down" /\ task[w].phase \in DOMAIN AfterNote
  /\ \/ Note(task[w].answer, "queued") /\ NoMishap
     \/ UNCHANGED ledger /\ Mishap
  /\ Go(w, AfterNote[task[w].phase])
  /\ UNCHANGED <<admission, spawner, control, source, table, flow, outbox, tries,
                 retrying, counts, ends>>

(* Mutant: an answer that has no row is completed although its send failed. *)
SendOnce(w) ==
  /\ At(w, "sending")
  /\ \/ /\ sent' = sent \cup {task[w].answer}
        /\ Go(w, IF task[w].row THEN "clearing" ELSE "completing")
        /\ NoMishap
     \/ /\ IF Stopped THEN NoMishap ELSE Mishap
        /\ Go(w, IF task[w].row THEN "undelivered" ELSE "completing")
        /\ UNCHANGED sent
  /\ UNCHANGED <<admission, spawner, control, source, table, flow, delivery,
                 retrying, counts, givenUp, silent>>

SendAnswer(w) ==
  /\ At(w, "sending")
  /\ \/ /\ sent' = sent \cup {task[w].answer}
        /\ Go(w, IF task[w].row THEN "clearing" ELSE "completing")
        /\ NoMishap
     \/ /\ IF Stopped THEN NoMishap ELSE Mishap
        /\ Go(w, IF task[w].row THEN "undelivered" ELSE "requeueing")
        /\ UNCHANGED sent
  /\ UNCHANGED <<admission, spawner, control, source, table, flow, delivery,
                 retrying, counts, givenUp, silent>>

StoreUnsent(w) ==
  /\ At(w, "requeueing")
  /\ \/ /\ EnqueueResponse(task[w].answer)
        /\ Go(w, "noteThenFail")
        /\ NoMishap /\ UNCHANGED <<table, again>>
     \/ HandBack(w)
  /\ UNCHANGED <<admission, spawner, control, source, flow, ledger, retrying,
                 takes, ends>>

(* MarkResponseDelivered: an error is only logged.                         *)
ClearRow(w) ==
  /\ At(w, "clearing")
  /\ \/ DropRow(task[w].answer) /\ NoMishap
     \/ UNCHANGED <<outbox, tries>> /\ Mishap
  /\ Go(w, "delivered")
  /\ UNCHANGED <<admission, spawner, control, source, table, flow, ledger,
                 retrying, counts, ends>>

MarkOutcome(w) ==
  /\ mode # "down" /\ task[w].phase \in {"delivered", "undelivered"}
  /\ UpdateLedger(task[w].answer,
                  IF task[w].phase = "delivered" THEN "delivered" ELSE "failed")
  /\ Go(w, "completing")
  /\ UNCHANGED <<admission, spawner, control, source, table, flow, outbox, tries,
                 retrying, counts, ends>>

(* sendOrQueueChannelFailure *)
SendNotice(w) ==
  /\ At(w, "refusing")
  /\ \/ /\ task[w].ok /\ NoMishap
        /\ sent' = sent \cup {task[w].answer}
        /\ Go(w, "completing")
     \/ /\ IF task[w].ok THEN Mishap ELSE NoMishap
        /\ Go(w, "parking")
        /\ UNCHANGED sent
  /\ UNCHANGED <<admission, spawner, control, source, table, flow, delivery,
                 retrying, counts, givenUp, silent>>

ParkNotice(w) ==
  /\ At(w, "parking")
  /\ \/ /\ EnqueueResponse(task[w].answer)
        /\ Go(w, "noteThenComplete")
        /\ NoMishap /\ UNCHANGED silent
     \/ /\ Mishap
        /\ Go(w, "completing")
        /\ silent' = silent \cup {Msg(w)}
        /\ UNCHANGED <<outbox, tries>>
  /\ UNCHANGED <<admission, spawner, control, source, table, flow, ledger,
                 retrying, counts, sent, givenUp>>

(* completeDurableInboundEvent: an error is only logged.                   *)
Complete(w) ==
  /\ At(w, "completing")
  /\ \/ CompleteInboundEvent(Msg(w)) /\ NoMishap
     \/ UNCHANGED table /\ Mishap
  /\ Rest(w)
  /\ UNCHANGED <<admission, spawner, control, source, flow, delivery, retrying,
                 counts, ends>>

-----------------------------------------------------------------------------
(* retryPendingResponses                                                   *)

(* DequeuePendingResponses: the rows whose next_retry has come.  That of a *)
(* row just written has.                                                   *)
ReadRows ==
  /\ mode = "up" /\ retry = NoRetry /\ batch = {}
  /\ \E S \in SUBSET outbox \ {{}} : batch' = S
  /\ NoMishap
  /\ UNCHANGED <<admission, spawner, control, source, table, flow, task, delivery,
                 retry, counts, ends>>

(* Without a channel the row stays for a later round.                      *)
RetryRow(a) ==
  /\ mode # "down" /\ retry = NoRetry /\ a \in batch
  /\ batch' = batch \ {a}
  /\ IF entry = NoInstance THEN UNCHANGED <<ledger, retry>> /\ NoMishap
     ELSE /\ UpdateLedger(a, "sending")
          /\ retry' = [phase |-> "send", answer |-> a]
  /\ UNCHANGED <<admission, spawner, control, source, table, flow, task, outbox,
                 tries, counts, ends>>

AtRetry(phase) == mode # "down" /\ retry.phase = phase
GoRetry(phase) == retry' = [retry EXCEPT !.phase = phase]

Resend ==
  /\ AtRetry("send")
  /\ \/ sent' = sent \cup {retry.answer} /\ GoRetry("delivered")
     \/ UNCHANGED sent /\ GoRetry("bump")
  /\ NoMishap
  /\ UNCHANGED <<admission, spawner, control, source, table, flow, task, delivery,
                 batch, counts, givenUp, silent>>

(* Mutant: a row is taken for delivered when it is not found any more.     *)
CountAsDelivered ==
  /\ AtRetry("bump")
  /\ LET a == retry.answer IN
     \/ /\ a \in outbox /\ tries[a] + 1 < MaxTries
        /\ tries' = [tries EXCEPT ![a] = @ + 1]
        /\ GoRetry("queued")
        /\ NoMishap /\ UNCHANGED <<outbox, givenUp>>
     \/ /\ a \in outbox /\ tries[a] + 1 >= MaxTries
        /\ DropRow(a)
        /\ givenUp' = givenUp \cup {a}
        /\ GoRetry("dropped")
        /\ NoMishap
     \/ /\ IF a \in outbox THEN Mishap ELSE NoMishap
        /\ GoRetry("delivered")
        /\ UNCHANGED <<outbox, tries, givenUp>>
  /\ UNCHANGED <<admission, spawner, control, source, table, flow, task, ledger,
                 batch, counts, sent, silent>>

(* IncrementResponseRetry.                                                 *)
CountFailure ==
  /\ AtRetry("bump")
  /\ LET a == retry.answer IN
     \/ /\ a \in outbox /\ tries[a] + 1 < MaxTries
        /\ tries' = [tries EXCEPT ![a] = @ + 1]
        /\ GoRetry("queued")
        /\ NoMishap /\ UNCHANGED <<outbox, givenUp>>
     \/ /\ a \in outbox /\ tries[a] + 1 >= MaxTries
        /\ DropRow(a)
        /\ givenUp' = givenUp \cup {a}
        /\ GoRetry("dropped")
        /\ NoMishap
     \/ /\ IF a \in outbox THEN Mishap ELSE NoMishap
        /\ GoRetry("failed")
        /\ UNCHANGED <<outbox, tries, givenUp>>
  /\ UNCHANGED <<admission, spawner, control, source, table, flow, task, ledger,
                 batch, counts, sent, silent>>

(* The ledger hears of it, of a delivery before the row is cleared.        *)
NoteRetry ==
  /\ mode # "down" /\ retry.phase \in {"queued", "dropped", "failed", "delivered"}
  /\ UpdateLedger(retry.answer, retry.phase)
  /\ IF retry.phase = "delivered" THEN GoRetry("clear") ELSE retry' = NoRetry
  /\ UNCHANGED <<admission, spawner, control, source, table, flow, task, outbox,
                 tries, batch, counts, ends>>

(* MarkResponseDelivered: an error is ignored.                             *)
ClearRetried ==
  /\ AtRetry("clear")
  /\ \/ DropRow(retry.answer) /\ NoMishap
     \/ UNCHANGED <<outbox, tries>> /\ Mishap
  /\ retry' = NoRetry
  /\ UNCHANGED <<admission, spawner, control, source, table, flow, task, ledger,
                 batch, counts, ends>>

(* CleanupExpiredResponses: a day old.                                     *)
Expire(a) ==
  /\ mode = "up" /\ a \in outbox /\ Mishap
  /\ DropRow(a)
  /\ givenUp' = givenUp \cup {a}
  /\ UNCHANGED <<admission, spawner, control, source, table, flow, task, ledger,
                 retrying, counts, sent, silent>>

-----------------------------------------------------------------------------
(* Other turns of the account, reloads, removals, the end of the daemon.   *)

OtherTurn(t) ==
  /\ mode # "down"
  /\ TurnStep(t)
  /\ IF stage[t] = "out" /\ t \notin Inner THEN Mishap ELSE NoMishap
  /\ UNCHANGED <<spawner, control, source, table, flow, task, delivery, retrying,
                 counts, ends>>

(* Jobs keep the runtime they were dispatched with.                        *)
Reload ==
  /\ mode = "up" /\ ReplaceRuntime /\ Mishap
  /\ jobs' = [i \in DOMAIN jobs |-> [jobs[i] EXCEPT !.old = TRUE]]
  /\ UNCHANGED <<spawner, control, source, table, stream, canceled, task, delivery,
                 retrying, counts, ends>>

(* RemoveAccount cancels the workers first ...                             *)
BeginRemoval ==
  /\ mode = "up" /\ ~removing /\ Mishap
  /\ removing' = TRUE /\ canceled' = TRUE
  /\ UNCHANGED <<admission, spawner, mode, source, table, stream, jobs, task,
                 delivery, retrying, counts, ends>>

(* ... and gives up when they take too long: the account stays.  Otherwise *)
(* it goes on to Die, as far as the account's state is concerned.          *)
AbandonRemoval ==
  /\ mode = "up" /\ removing
  /\ removing' = FALSE /\ NoMishap
  /\ UNCHANGED <<admission, spawner, mode, source, table, flow, task, delivery,
                 retrying, counts, ends>>

(* The server's context ends.  The drain puts back the message it is       *)
(* stuck with when eventCh is full.                                        *)
Shutdown ==
  /\ mode = "up" /\ Mishap
  /\ mode' = "stopping" /\ canceled' = TRUE
  /\ StopAll
  /\ \/ UNCHANGED <<table, stream>>
     \/ /\ stream # <<>> /\ ReleaseInboundEvent(stream[Len(stream)])
        /\ stream' = SubSeq(stream, 1, Len(stream) - 1)
  /\ UNCHANGED <<admission, removing, source, jobs, task, delivery, retrying,
                 counts, ends>>

(* The daemon dies, of a shutdown or without one.                          *)
Die ==
  /\ mode # "down"
  /\ IF mode = "stopping" \/ removing THEN NoMishap ELSE Mishap
  /\ mode' = "down" /\ removing' = FALSE
  /\ LoseTurns /\ LoseChannels
  /\ hand' = [c \in Instance |-> NoMessage]
  /\ seen' = [c \in Instance |-> {}]
  /\ stream' = <<>> /\ jobs' = <<>> /\ canceled' = FALSE
  /\ task' = [w \in Actor |-> Idle]
  /\ batch' = {} /\ retry' = NoRetry
  /\ UNCHANGED <<table, delivery, counts, ends>>

Restart ==
  /\ mode = "down"
  /\ mode' = "up" /\ NoMishap
  /\ UNCHANGED <<admission, spawner, removing, source, table, flow, task, delivery,
                 retrying, counts, ends>>

-----------------------------------------------------------------------------

ChannelStep(c) ==
  \/ \E m \in Message : Fetch(c, m)
  \/ PublishEvent(c) \/ ChannelStarts(c) \/ ChannelExits(c)

InboxStep ==
  \/ Claim \/ \E m \in Message : LeaseEnds(m) \/ RefreshLease(m)
  \/ Reject \/ PutBack \/ Dispatch \/ TurnAway

WorkerStep == TakeJob \/ WorkerLeaves \/ AwaitTurn \/ TurnReturns

AnswerStep(w) ==
  \/ StoreAnswer(w) \/ NoteAnswer(w) \/ SendAnswer(w) \/ StoreUnsent(w)
  \/ ClearRow(w) \/ MarkOutcome(w) \/ SendNotice(w) \/ ParkNotice(w)
  \/ Complete(w)

RetryStep ==
  \/ ReadRows \/ Resend \/ CountFailure \/ NoteRetry \/ ClearRetried
  \/ \E a \in Answer : RetryRow(a) \/ Expire(a)

ServerStep ==
  \/ \E t \in Turn \ {Chat} : OtherTurn(t)
  \/ ChannelStops \/ Reload \/ BeginRemoval \/ AbandonRemoval
  \/ Shutdown \/ Die \/ Restart

Next ==
  \/ \E c \in Instance : ChannelStep(c)
  \/ InboxStep \/ WorkerStep
  \/ \E w \in Actor : AnswerStep(w)
  \/ RetryStep \/ ServerStep

Spec == Init /\ [][Next]_vars

-----------------------------------------------------------------------------
(* Properties.                                                             *)

(* No message is lost: one that is done has an answer, or a notice, that   *)
(* the chat has got, that waits in pending_responses or that was dropped   *)
(* after its retries; or it needs none, or its notice of failure could not *)
(* be stored.  Whatever dies or fails before leaves it to be claimed again.*)
NoMessageIsLost ==
  \A m \in Message :
    inbox[m] = "done" =>
      \/ m \in silent
      \/ \E a \in sent \cup outbox \cup givenUp : a[1] = m

(* A message is handled once, however often the provider offers it, the    *)
(* channel is replaced, the daemon restarts and the drain runs: again only *)
(* after its lease has ended or its answer could not be stored.            *)
TurnsAreExplained == \A m \in Message : takes[m] <= 1 + again[m]

(* The ledger may stay behind what happened, but never calls an answer     *)
(* delivered that no send has delivered, nor one dropped that was not given*)
(* up or still waits in pending_responses; and an answer it has a line for *)
(* waits there unless it was sent or given up.                             *)
LedgerIsTrue ==
  \A a \in Answer :
    /\ ledger[a] = "delivered" => a \in sent
    /\ ledger[a] = "dropped" => a \in givenUp \ outbox
    /\ ledger[a] # "none" => a \in outbox \cup sent \cup givenUp

=============================================================================
