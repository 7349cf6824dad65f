# Kittypaw in TLA+

Kittypaw is a personal AI assistant: a local daemon (`apps/kittypaw`) that runs
chat turns, skills, scheduled jobs and delegated background work for its
accounts, and a set of hosted services around it: the relay that lets a browser
or phone reach the daemon (`apps/space`, and its near copy `apps/chat`), a
webhook gateway for KakaoTalk (`apps/kakao`), an API proxy (`apps/kittyapi`) and
a portal for logins and connections (`apps/portal`). This directory holds
specifications of the parts whose correctness depends on the order in which
goroutines, processes, database statements and network frames happen to run,
the TLC configurations that check them on small instances, and TLAPS proofs of
what holds for every instance.

## 1. Inventory

| Component | State | Operations | Hard behaviour |
|---|---|---|---|
| Delegation jobs (`store/delegation_jobs.go`, `engine/delegation_job_runtime.go`, `server/account_delegation_jobs.go`) | table with status, attempt, claim token, lease; per instance the map of running workers | create, claim, finish, release, extend, cancel; poll, run, heartbeat, close, replace | leases, crash, reload with two live instances, cancel against claim, late results |
| Relay broker (`space/internal/broker`, `daemonws`, `openai`, `remote/chatrelay`) | per device: connection, pending map; per request a buffered channel | Register, Unregister, Request, Deliver, timeout watcher, stream reader | sends and closes outside the mutex, reconnects, full channels, five parties that may end a stream |
| Kanban (`store/kanban.go`, `cli/cmd_kanban.go`) | tasks, links, runs | create, claim, complete, fail, reclaim, heartbeat, cancel, block, unblock, link, update, archive; dispatch loop | several dispatch processes, stale listings, late results, promotion along links |
| Scheduled runs (`store/scheduled_runs.go`, `engine/schedule.go`, `server/account_schedulers.go`) | rows per due time with claim and lease, `last_run_at`, in-flight map, job slots | poll, claim, run, release, finish, set last run, delete one-shot skill, replace, stop | due time computed before the claim, two statements to record a run, leases nobody extends, reload |
| Turn admission (`engine/admission.go`) | account and scope slot channels, queue counters | acquire, release, wait, give up, nested turns | two gates taken in different orders, cancellation while queued, reload |
| Project jobs (`store/projects.go`, `engine/project_job_runtime.go`) | jobs, tickets, worktrees, processes | plan, approve, start, finish, cancel, close, startup recovery | check-then-update, process end against cancel, restart |
| Channel spawner (`server/spawner.go`) | channel goroutines by account and type | spawn, stop, replace, reconcile, stop all | stop with a deadline, overlap of old and new |
| Channel dispatch, inbound events, delivery ledger (`server/channel_dispatch.go`, `inbound_events.go`, `server.go`) | rows of messages, of answers to send and of the ledger; event channel, worker queue | publish, claim, dispatch, run a turn, store, send, clear, record, retry, complete | statements that fail or are the last before a crash, leases, a retry loop working on old rows, full queues, removal |
| Account runtime (`engine/account_runtime.go`, `executor.go`, ...) | cache of turns by id, conversations | run a turn, join one, evict | an execution that outlives its caller, timers and deletions by id, panics |
| LLM limits (`engine/llm_daily_token_limit.go`, `llm_rate_limit.go`, `llm_usage.go`) | tokens reserved today, slots and windows of a model, rows of usage | reserve, acquire, record, settle | check of a table and a counter together, midnight, clocks read before locks, panics, lost records |
| Kakao gateway (`apps/kakao`, `channel/kakao.go`) | row per callback, session of a token with its channel, the daemon's connection | webhook, connect, write, read, take a callback, post, sweep; dial, publish, answer | sessions that replace each other, frames of closed sessions, answers sent again or in parts, callbacks used once |
| Portal (`apps/portal`) | refresh tokens, devices, one-time codes | rotate, revoke, exchange | reuse of rotated tokens, codes used twice |
| API proxy, identity and web pages, channels, LLM providers, sandbox, browser, MCP, CLI, core configuration | caches, files | | mostly I/O |

How they interact: the server owns one runtime, one `Scheduler` and one
`DelegationJobRuntime` per account and replaces all three when the account's
configuration is reloaded, so that two instances share one SQLite database for
as long as the old one's goroutines take. Chat turns reach the daemon from
channels, from the local API, and through the hosted broker over the device's
websocket. Scheduled skills pass the account's turn admission like any other
turn. `kittypaw kanban dispatch` processes share the kanban tables with the
commands and with each other.

What makes each component correct:

* *Delegation:* a job is worked on by one worker unless its lease ran out; only
  the newest claim can settle it; settled is final; every job settles; work is
  repeated only for a reason; cancelling stops only work that is not needed.
* *Relay:* a stream is ended once, by a last frame; no waiter is left without
  somebody who can end its wait; the newest connection serves the device; slots
  come back; no party blocks another for ever.
* *Kanban:* running tasks and running runs correspond; ended runs stay ended;
  links have no cycle; children become ready exactly when unblocked.
* *Scheduled runs:* a due time is executed once unless something went wrong;
  jobs do not overlap; `last_run_at` only moves forward; jobs keep running.
* *Turn admission:* no more turns than slots, every lease is returned, a full
  queue is refused and no cycle of waits arises.
* *Project jobs:* a job is one attempt, a process works for the running row of
  its ticket or it is known how it slipped away, a running row has somebody who will settle it.
* *Channel spawner:* every polling goroutine can be found and stopped.
* *Shared turns:* a turn id is executed once, whoever waits for it is told, no
  entry stays for ever.
* *LLM limits:* what calls hold is what is counted, and calls that run together
  do not pass the limit that each alone would keep.
* *Kakao gateway:* a callback is used once, a user who was told to wait is
  answered or something went wrong, and webhooks find the daemon's session.
* *Channel dispatch:* no message is lost, none is answered twice without a
  reason, the ledger says nothing that did not happen.

## 2. Modules

| Module | Models |
|---|---|
| `LeasedWork` | abstract: what a durable work queue promises |
| `DelegationJobs` | the delegation table and its runtimes; implements `LeasedWork` |
| `DelegationJobsProofs` | theorems about `DelegationJobs` |
| `RelayBroker` | the broker of one device, connection and request handlers, daemon |
| `Kanban` | tasks, links, runs, commands and dispatchers |
| `ScheduledRuns` | scheduled_runs, last_run_at and Scheduler instances; implements `LeasedWork` row by row |
| `ProjectJobs` | job and ticket rows, worktrees, processes and the goroutines that watch them |
| `Admission` | the two gates and the queue of an account's runtime |
| `ChannelSpawner` | the map of running channels, for one account and type |
| `ChannelTurns` | composition: channel, message rows, dispatch loop, worker, answers and their retries, with `Admission` and `ChannelSpawner` |
| `LLMLimits` | the three wrappers of a call of the model: daily limit, recorder, the model's limiter |
| `SharedTurns` | composition: requests with one turn id, whose execution calls the model through `LLMLimits` beside other callers |
| `KakaoGateway` | webhooks, callbacks and sessions of the gateway, with the daemon's channel at the other end |
| `RelayBrokerProofs`, `KanbanProofs`, `ScheduledRunsProofs`, `ProjectJobsProofs`, `ChannelTurnsProofs`, `SharedTurnsProofs`, `KakaoGatewayProofs` | theorems about these |
| `MC...` | symmetry and constants for TLC, and what is explored |

Conventions. Each SQL statement or transaction, each critical section of a
mutex, each channel operation is one step; everything in between may be
interleaved. Time is abstracted to what the code compares: a lease is fresh or
expired, a heartbeat is stale or not, a due time is "what it was computed from".
Random claim tokens are represented by attempt numbers, which are as unique.
Crashes, failed statements, reloads and leases lost under a live worker are
actions counted by `MaxMishap`; without a bound nothing would ever have to
settle. History variables, named as such, are read by no action. Definitions
introduced by `Mutant:` are wrong variants of the definition that follows
(nothing refers to them); substituting one for the right definition
must violate a property, which shows that the property has teeth.

### 2.1 `LeasedWork` and `DelegationJobs`

State: the columns of `delegation_jobs` (`status`, `attempt`, `token`, `lease`);
for every instance its life cycle (`mode`), the capacity its poll loop has read
(`room`) and its running map (`registered`); for every claim the `phase` of its
goroutine and the instance that `host`s it. A poll is `ReadCapacity` and then
`ClaimBatch` (`ClaimDelegationJobs`, one transaction); each claimed job's
goroutine goes `BeginRun`, `Execute`, `Recheck` (re-read the row, look at the
context), then `Finish`, `Release` or nothing, and `Deregister`. `CancelRow` and
`CancelWorker` are the two halves of `CancelJob`. `Heartbeat` extends the lease
of a claim that still holds; `LeaseExpires` may come at any time, `LeaseLost`
is the heartbeat that finds its claim gone, which stops the heartbeat and not
the worker. `Replace`, `CloseRuntime`, `StopRuntime`, `LoopExits` and
`CloseReturns` are reload and shutdown, `Crash` kills every instance.

`delegation` (one job, two instances, six claims, two mishaps) checks
`SignalOnlyAfterSettled`, `SettledByLatestClaim`, `OneWorkerUnlessLeaseLost`,
`RetriesAreExplained`, `EveryJobSettles` and the refinement `ImplementsLeasedWork`.
Two instances let a reload overlap; with two mishaps there can be five claims of
a job, so the bound of six cuts nothing off. A cancellation settles its job at
once, so `EveryJobSettles` would say little of the workers if somebody could
always cancel: after the last mishap nobody does. Jobs meet only in the capacity
of a batch; what holds for several of them is what the proofs are for.

`SignalOnlyAfterSettled` says when a signal may come, not that one does: a worker
that is claimed and not yet in the running map when `CancelJob` looks for it is
never signalled. It finds the row cancelled when it has run to its end (`Recheck`,
and `Finish`, which matches no row), so the result is dropped and the work done for
nothing.

Fairness: weak fairness of every step a running goroutine takes next; of the
claim of the poll loop, which ticks for ever; of `LeaseExpires` (leases that
nobody extends end); of starting an instance (the daemon is restarted). Strong
fairness of `LoopExits`, because the `select` of a closing loop may pick the
ticker instead, though not for ever.

### 2.2 `RelayBroker`

One device. `device` and `pending` are the broker's tables, `stream`/`closed` the
per-request channels, `link` the websocket handler of each connection, `caller`
and `watcher` the HTTP handler and the timeout goroutine of each request,
`ending`/`written` what each of them has taken out of a pending map and not yet
closed. `Take`, `SendLast` and `CloseStream` are the three parts of `finish`
(and of the loops in Register and Unregister): the entry is removed under the
mutex, the last frame sent and the channel closed after it. `DeliverMore` looks
a channel up, `RelayMore` sends to it later. `RegisterFails` is the error `Register`
returns when the context of the connection's request is done: the handler ends
without its `Unregister`, and the device keeps the dead connection, on which every
send fails, until the next one registers.

`relay_safety` (two connections, two requests, one slot, buffer of two, one
frame before the last) checks that enders never panic (`EndingNeverPanics`), no
stream closes without a last frame (`NoSilentEnd`), every waiting caller can
still be ended (`EveryWaiterCanEnd`), the newest connection keeps the device
(`LatestConnectionServes`) and nobody blocks as long as a whole answer fits the buffer (`NobodyBlocks`).
`relay_reconnect` (one request, two connections, an answer longer than the
buffer) checks `RelayMakesProgress`: slots come back, connections finish, and an answer
that is read to its end is ended. The two connections make
the replaced and the late-unregister cases, the second request the slot limit
and the race of one connection's handler with two streams; the small buffer the
blocking that the code's 16 frames avoid. With a buffer smaller than an answer only
the second condition of `RelayMakesProgress` can be met, a stream that is read to
its end; that a large buffer lets nobody block is `NobodyBlocks`.

A send by `Deliver` on a channel that was closed in the meantime panics; the
panic ends only the websocket handler it happens in (its deferred Unregister
runs), and the model lets it. `EndingNeverPanics` is about the other goroutines.

Fairness: weak fairness of every goroutine that is neither waiting for the
network nor for its client. Daemons and clients may be silent for ever; the
watcher's timeout fires for certain. A handler's write to its client is taken to
succeed or fail in the end (`Consume`, `Abandon`).

### 2.3 `Kanban`

Every store operation that changes status, runs or links is an action on
`status`, `blocks`, `taskOf`, `outcome`, `second` (`started_at`, with a
resolution of a second: which run is the latest can be a tie) and `stale`. A
dispatcher lists tasks or stale runs and acts on one of them later (`List`,
`CountAttempts`, `GiveUp`, `Take`, `TakeFails`, `Heartbeat`, `Record`,
`Rejected`, `Crash`); commands act at any time on anything.

`kanban_board` (three tasks, two dispatchers, three runs, symmetry) checks
`LiveRunsAreExplained` (a live run belongs to a running task and to one
dispatcher at most, but for named commands), `EndedRunIsFinal`, `Acyclic` and
`PromotionIsExact`. The constraint `RunsOrLinks` leaves out boards that show
nothing new: links relate tasks, runs and dispatchers stay within one, so boards
with several tasks are explored with one run and idle dispatchers (every set of
links the commands can build), boards with one task with both dispatchers and
three runs. What `LiveRunsAreExplained` excuses by name it does not catch: after
`kanban unblock` of a running task a second run may start beside the one that still
works, and of two such runs that began in one second either may pass for the latest.
Three tasks are enough for a cycle that is not a mere pair,
for a task with two blockers and a chain. The run `kanban_ready` shows
where the code departs from the project's documents: the design calls ready tasks "unblocked and claimable"
(`docs/superpowers/specs/2026-05-07-project-aware-durable-kanban-design.md:75`);
linking an unfinished parent to a ready task, or reopening its finished
parent, leaves it ready, and `ClaimKanbanTask` does not look at links.

Another departure is excused by name in `LiveRunsAreExplained`: the plan says that
"reclaim always leaves exactly one running Run for the task"
(`docs/superpowers/plans/2026-05-07-kanban-run-lifecycle.md:331`); after
`UnblockKanbanTask` on a running task and a second claim it leaves two.

No fairness is stated: nothing in these tables has to happen by itself.

### 2.4 `ScheduledRuns`

`runs` are the rows of one job in order of id, each with the due time it was
inserted for; `last` is `last_run_at`, as the run it was taken from. A due time is
represented by what it was computed from: the last run (0 for a skill that
waits for its `run_at`), or `Now` for a job without both, whose every poll
computes another time. `Load` begins a tick: of what it loads only a one-shot skill can be
gone when the tick comes to it, so `listed` keeps those. `Poll` computes the due
time, `Reserve` takes the
in-flight entry and a job slot (two operations of the same loop, joined), `Claim`
is `ClaimScheduledRun`; the goroutine goes `Admit`, `RunEnds`, `Finish`, `Record`,
`DeleteSkill`, `Exit`, or `AdmissionBusy`, `Panics`, `FinishFails`, `RecordFails`.
`Misread` is a failed query of `GetLastRun`, which returns no error then, because it
looks for a valid value first: the job is taken for one that never ran. A package,
or a skill without an anchor, is due at once and runs out of turn; an anchored skill
is due at its anchor again, which its finished row refuses.
`Start`, `Stop`, `Stopped` and `Crash` are the life cycle of an instance.

`scheduled` (a repeating skill alone with two mishaps, or with one mishap beside a
one-shot skill or a package, which has no admission gate and no anchor; two instances,
one job slot, two rows per job) checks that one instance runs a job once at
a time and instances overlap only after an overrun lease
(`OneRunnerUnlessOverrun`), executions are repeated only for a
reason (`RepeatsAreExplained`), `last_run_at` moves forward
(`LastRunMovesForward`) and a due time is refused for good only when the write of
`last_run_at` was lost (`RefusedOnlyAfterLostWrite`). The last two hold thanks to
`UNIQUE(job_key, due_at)`: without it a stale poll runs a due time again.
Under fairness the jobs keep running unless a write of `last_run_at` was lost
(`JobKeepsRunning`). `scheduled_caughtup` shows the exception: a crash,
or a failed `SetLastRun`, right after `FinishScheduledRun` leaves the job due at a
time whose row is finished, and it is never run again, although the missed-run
policy is to catch up once.

`Stop` counts as a mishap too: two instances overlap at most that often. It takes
two mishaps, a reload and a lease that runs out, for two goroutines of the same row to
be at work; jobs share nothing but slots, so one job is enough to see it. That many jobs could
keep one from ever getting a slot is beyond `JobKeepsRunning`: with two rows per job
there comes an end to the others' claims.

Fairness: a tick visits every job every minute (strong fairness of `Poll` for
each job of a running instance), goroutines and statements go on, leases
nobody holds run out, an instance is started when none is running.

Left out: the failure count, which only moves the due time of a job that fails
(the model is about jobs that repeat no faster than the longest backoff, 64
minutes); the reflection loop and the weekly report; failing deletes of the
skill file are mishaps.

### 2.5 `ProjectJobs`

`status` and `ticket` are the rows; every transaction that moves a job moves its
ticket with it (`Settle`), and `MoveTicket` moves a ticket whatever its jobs do.
A start is `Prepare` (worktree and branch; a second start fails on them),
`StartRow` (the transaction that claims the job), `Register`, `Launch`; the
goroutine that waits for the process goes `ProcessEnds`, `LookAtRow`, `Record`,
`Deregister`. `BeginApprove` and `ApproveJob` are the check and the update of one
call, several of which may be under way; `StopProcess` and `CancelRow` the two
halves of `CancelJob`. An account is removed by `Close`, which stops the processes
in the map, and `CloseStore`, in a daemon that lives on: starts and goroutines
under way are not waited for and not refused. They go on beside the runtime of an
account added again (`former`), on a store that fails every statement of theirs.
`Die` is the end of the daemon: its processes may end with it or live on as
orphans, since `exec.CommandContext` ties them to a context and nothing ties them
to their parent. `Restart` is the recovery that fails jobs found running.

`project_jobs` (two jobs of one ticket, two approvals under way, symmetric jobs,
1.2 million states) checks that a job is one attempt (`OneAttempt`), that a
process, an orphan too, works for the one running row of its ticket, or was
stopped, or slipped away in one of four orders of steps (`ProcessesAreExplained`),
and that a running row has an owner whose store is open (`RunningJobHasOwner`).
Two jobs of one ticket are what the unique running job of a ticket is about; a
second ticket would only repeat it. No guard reads the column of a ticket, so the
view drops it.

The four orders are real and worth knowing. In each a coding agent may work in its
worktree while its row says something else, and while a second job of the ticket
runs:
- a `CancelJob` that looks for the process between `StartJob`'s commit and the
  registration cancels the row and leaves the process running;
- `ApproveJob`, whose update does not repeat its check, can make a job that was
  started or cancelled in between `approved` again (it cannot be started again, as
  its worktree exists);
- a start that has committed its row registers and launches after `Close`, with a
  context of its own that nobody cancels; when the account is added again its row
  is failed;
- the children of a daemon that was killed, whose rows the next one fails.

A fifth effect needs no property: `CancelJob` stops the process first, so its end
may be recorded as a failure before the row is cancelled, and the cancellation is
refused.

### 2.6 `Admission`, `ChannelSpawner` and `ChannelTurns`

`Admission` has one action per operation on a gate: a turn first tries both
gates, account first (`TryAccount`, `TryScope`, `Undo`), then takes a place in the
queue and waits for its scope and for the account (`Reserve`, `AwaitScope`,
`AwaitAccount`, `Dequeue`), or is refused; `GiveUp` is a context that ends. Gates
only count, as the channels of the code do: that the count equals the number of
holders is a theorem. `Inner` turns run inside another turn and inherit its lease.

`ChannelSpawner` is the map of running channels. `Stop` forgets a goroutine before
it has ended, so that its late end meets its successor's entry.

`ChannelTurns` follows one conversation. A channel goroutine fetches a message and
publishes it as a row (`Fetch`, `PublishEvent`); the drain claims rows for ten
minutes (`Claim`), the dispatch loop finds the runtime and hands the job to the
conversation's worker (`Dispatch`), puts it back (`PutBack`, `Reject`) or turns it
away when the queue is full (`TurnAway`). The worker runs its turn through
`Admission` (`TakeJob`, `AwaitTurn`, `TurnReturns`); an answer is stored, noted in the
ledger, sent, cleared and marked, each a step that may fail or be the last
before `Die`; then the message is completed. The retry loop reads the stored
answers in a batch and works on what it has read; rows and the ledger's lines are
written in steps of their own (`CountFailure`, `NoteRetry`, `ClearRetried`), so that the
ledger may stay behind what happened. A lease is kept alive while the worker has
the message, and may end all the same when the statements that extend it fail
(`LeaseEnds`, a mishap and a reason to handle the message again).

`channel_turns` (one message, two channel goroutines, four turns — the worker's, one
over the API in the same conversation, a scheduled job and the skill inside it —
limits of one everywhere, queue of one, two retries, two jobs per message, two
mishaps) checks `WaitsEnd`, `NoStrayChannel`, `NoMessageIsLost`, `TurnsAreExplained`
and `LedgerIsTrue`. Mishaps are errors, reloads, removals, deaths and turns of
others. One message is enough as messages meet only in the queue and in the
stream, whose fullness the API turns and mishaps produce; the proofs are for any
number. The constraint `QuietWhenAnswering` drops other turns, canceled goroutines
and removals from the moment the first answer is under way, which has nothing to
do with them any more; until then everything is interleaved with everything.

What the model shows about the code besides: the retry loop may send a row that
was just stored and is being sent by the worker, so that a chat sees an answer
twice; the ledger may end at `failed` for an answer that was delivered; jobs in
the queue of a worker that was cancelled wait for their lease of ten minutes; a
reload gives the new runtime gates of its own while old turns still run.

Left out: KakaoTalk, whose answers are not stored (see `KakaoGateway`); pushes into team spaces;
notices of scheduled jobs; permission questions; answers in several parts.
No fairness is stated for `ProjectJobs` and `ChannelTurns`: their properties are
safety properties.

### 2.7 `LLMLimits` and `SharedTurns`

A call of the model goes `BeginCall`, `Reserve` (the daily limit adds to the tokens
that `llm_call_usage` has of today those reserved by calls under way), `Acquire`
(slots and tokens per day of the model), `Answer` or `Panic`, `Settle`, `Record`
(a row of usage for the day the call started), `Free`. Each is a critical section
or a statement; the clock is read before the lock, so a step may act for any day
since the caller's step before (`Now`). Time is the number of the day. The limits
per minute refuse at will. `covered` counts, as a history, what was recorded of
calls within what they had reserved for that day; `rewound` are the days a late
clock has set the daily limit back to, whose reservations are forgotten.

`SharedTurns` are requests with one turn id: the first stores the entry and owns
the execution (`RunTurn`, `Admit`, `CallModel`, `ModelReturns`, `RunReturns`), the
others wait (`Joined`, `JoinedLeaves`). `CloseDone`, `SetTimer`, `Evict` and
`TimerFires` are the end of `runTurnOwner` and `RunTurn`.

`shared_turns` (three requests, another caller of the model, two days, estimates of
one token and answers of up to two, a daily limit of two, two slots, one panic or
restart) checks `OneExecution`, `EntriesExpire`, `CountersAreTrue` and
`DailyLimitHolds`. The constraint `LimitsOrRequests` explores the limits with one
request beside the other caller (the wrappers do not know whose call it is), and
the requests with calls that are refused or fail on one day: turns see of a call
only how it ended.

What the model shows about the code besides, each excused by name where a property
would fail without:

* The timer of an execution that was refused, and evicted, deletes the entry of
  the retry that took its place ten minutes before; a further retry then executes
  the turn beside it or again (`clobbered`).
* A turn may be charged for one call and refused by a limit in the next; it is
  evicted and a retry with the same id executes it again, although
  `core/protocol.go:10` says that the user is not charged twice.
* A provider that panics keeps its slot of the model's limiter (`leaked`): only the
  daily limit defers its settlement.
* A caller that read the clock before midnight may set the daily limit back, which
  forgets the reservations of both days (`rewound`); calls admitted before
  midnight and started after it are recorded for a day that did not count them.

Left out: the status pages' snapshots, which reset a window as a call would; a
reload, which makes a cache and limits of its own; the budget a team shares
(`budget.go`), a counter with compare-and-swap; prices.

### 2.8 `KakaoGateway`

One KakaoTalk user and the token the user is paired with. `hook` is where the
handler of a webhook is: `FindSession`, `PutPending` (the callback's row) and
`SendFrame`, which puts the message into the session's channel and says that it is
being processed. A connection's handler goes `Join` (`setSession`, which returns the
session that was there), `Open` (which closes that one, outside the mutex), `Close`
and `RemoveSession`; beside it run its writer (`Write`, `WriterEnds`) and its reader
(`TakePending`, `Post`, `ReaderEnds`). At the other end is `connectAndListen` (`Dial`,
`Connected`, `Publish`, `ReadFails`) and the daemon's turns (`RunTurn`, `SendPart`,
`SendFails`, `Complete`), of which `ChannelTurns` has the detail. What the dispatch
loop fails or completes without a turn (a bad payload, an unknown account, a user the
account does not know), and an answer for a channel that is not running, end without
a frame and are part of the empty answer of `RunTurn`: the model does not tell them
from an agent with nothing to say. `down` and `up` are
the two directions of a connection, `alive` those that still carry something.

`kakao` (two webhooks, three connections one after the other, a channel of one
frame, an answer of up to two chunks, one mishap) checks `CallbackOnce`,
`SilenceIsExplained`, `NoStraySession` and `DaemonIsReachable`. Three connections are
what one break can take: the daemon dials a second one, whose session the late
`setSession` of the first displaces and closes, and dials a third. The second
webhook fills the channel and meets the first one's callback in the reader; the
messages are alike, so the run lets them in in order, and only the first answer
is split. Connections not used yet are alike too: `Dial` takes a fixed one of them.

`kakao_whole` shows what happens to an answer of more than 900 bytes when nothing
goes wrong at all: `sendChannelResponse` sends it in several frames with one
action id, the first takes the row of the callback, the gateway drops the others,
and the ledger says `delivered`. With one chunk the same property holds.

The late `setSession` is worth knowing too: the message in the channel of the
session it displaces is lost although that connection was sound
(`Unreliable`).

Fairness: weak fairness of a connection's handler and goroutines, of dialling, and
of noticing that a connection broke (the gateway pings every 30 seconds, the daemon's
read ends when TCP's keepalive fails).
Nothing is assumed of webhooks and turns.

Left out: registration and pairing, limits and killswitch (a refusal each),
images, a webhook KakaoTalk sends twice, a full queue of the daemon's worker and
the replacement of the daemon's channel.

## 3. What is proved

All theorems are for any finite sets of jobs, connections, messages, turns and
so on, and any bounds, from the assumptions named in the modules (TLC evaluates
them in the runs). None of the properties is inductive by itself; each proof
module states the invariant that is, with one lemma per action and one step
under it per conjunct that the action disturbs.

`DelegationJobsProofs`

| Theorem | Statement |
|---|---|
| `TypeCorrect` | `Spec => []TypeOK` |
| `SettledByLatestClaimThm` | a recorded result is the newest claim's |
| `OneWorkerThm` | one worker per job unless its lease ran out |
| `RunningJobHasWorkerThm` | running jobs have a worker that can settle them |
| `SignalOnlyAfterSettledThm` | cancellation signals hit only settled jobs |
| `TerminalIsFinalThm` | settled rows never change |
| `Refinement` | `Spec => Queue!Spec`, the abstract leased queue |

The invariant `IInv` adds to `TypeOK` and `RunningJobHasWorker`: `TokenInv` (the
token of a running job is its newest attempt, and exactly running jobs have a
lease), `PhaseInv` (goroutines belong to attempts that were made), `ResultInv` (a
result is recorded exactly for settled jobs, and by the newest attempt),
`WorkerInv` (unless the lease was lost, an acting worker is the newest one and its
lease is fresh, so that nobody can claim the job from it) and `CancelInv`
(`CancelJob` is past its update, and signals are sent, only for settled jobs).
The refinement maps each step to `Take`, `GiveBack`, `Close`, `Withdraw` or a
stutter. `RetriesAreExplainedThm` (a job is claimed at most twice more for each mishap)
has an invariant of its own, `RInv`: claims made, the claim that is due without
another mishap (`Pending`), and what instances that are stopping may still cause
(`Reserve`: two for a replaced one, one for a closing one that has read its capacity)
are covered by the first claim and two for each mishap (`DebtInv`). It needs that an
acting goroutine has an instance (`HostInv`), that only instances that still poll have
capacity (`RoomInv`) and that finitely many instances are not down (`LiveInv`), for the
set of instances may be infinite.

`RelayBrokerProofs`: `TypeCorrect`, `EndingNeverPanicsThm`, `NoSilentEndThm`,
`EveryWaiterCanEndThm`, `LatestConnectionServesThm`, `NobodyBlocksThm`. The heart is
that an open stream has exactly one owner: the pending table, or one goroutine
that has taken it out (`EndInv`). Around it, `LinkInv` (which connection may hold
the device), `IdleInv` (what requests that were not begun look like), `FrameInv`
(what a stream holds before its last frame), `WaitInv` (a waiting caller's request
is owned) and `RoomInv` (how many frames are on their way to a stream, which
makes the size of the buffer suffice).

`KanbanProofs`: `TypeCorrect`, `LiveRunsThm`, `AcyclicThm`, `EndedRunThm`,
`PromotionThm`. Runs are numbered as they are created (`Numbered`), so a new run is
none that anybody has seen; a task has a running run exactly while it is running,
and one at most (`RunInv`); a dispatcher executes a run that exists and nobody else
executes (`DispatchInv`). That links have no cycle needs no induction over paths: a
link is refused when its end reaches its start, and otherwise the set of tasks that
the end reaches is closed under the old links and does not hold the start, so
that it is closed under the new ones too.

`ScheduledRunsProofs`: `TypeCorrect`, `OneRunnerThm`, `RepeatsThm`, `RefusedThm`,
`LastMovesThm`, `Refinement`. `WorkerInv` says that no two goroutines have the same claim,
`ClaimInv` that a worker has its claim as long as it needs it unless a lease ran out
under a worker of the job, `SlotInv` that workers and reservations are what the
in-flight map holds. `RecordInv` says that a due time left behind does not come
back: what a due time is computed from is a recorded run. `AnchorInv` adds that the
rows of an anchored job follow each other, `LostInv` that a done row whose due time
is still the next one has a worker about to record it, or lost its record. For
`RepeatsAreExplained`, `DebtInv` is a balance: executions that have ended, and those
that may still end without the claim (`Loose`, `Overdue`), are paid for by the
mishaps that hit claims of that due time, but for one execution that settled.
`Refinement` shows the table to be a second implementation of `LeasedWork`: every
row is an item, a claim is a `Take` of one, `Finish` of the holder a `Close` in the name of
its attempt, `AdmissionBusy` a `GiveBack`; a goroutine whose claim was taken over
changes nothing. It is not a property of the run `scheduled`, since TLC would try
each set of rows at each step; adding `ImplementsLeasedWork` to the configuration with one job checks it in
seconds.

`ProjectJobsProofs`: `TypeCorrect`, `OneAttemptThm`, `ProcessesAreExplainedThm`,
`RunningJobHasOwnerThm`. A start under way owns the worktree, worktrees are never
removed after a launch, and a launch is preceded by the claim of the row; that a
ticket has at most one running job follows from the claim's guard. The row of a
closed runtime's job may be failed under its process, so `ClosedInv` says that by
the time a runtime closes each of its processes is stopped or has slipped away,
and that what it registers later has slipped away.

`ChannelTurnsProofs`, first about `Admission`: `TurnsWithinLimitsThm` and
`WaitsEndThm`. The invariant says that each counter equals the number of turns in the stages that hold the slot;
the holders of one gate never wait for the other in both orders, because a turn
that tries gives its account slot back before it waits.

Then about the composition: `ImplementsAdmission` (every step of the server is a step of
`Admission` or leaves it alone, so that `GatesOpenAgain` carries `WaitsEnd` over),
`NoStrayChannelThm`, `TypeCorrect`, `NoMessageIsLostThm`, `LedgerIsTrueThm` and
`TurnsAreExplainedThm`. No message lost and a true ledger rest on: an answer that is being sent, stored or retried has one
actor, its number is that of the job it was made for, and what is settled (sent,
given up, silent) stays so. `TurnsAreExplained` is a balance like `DebtInv`, `TakesInv`:
jobs begun for a message, its claims on the way in the two Go channels, and the one
claim that may still be made for it never exceed one more than the reasons there
were to do it again. It needs that the table holds a message at most once, and no
message that has yet to arrive (`ArrivalInv`).

`SharedTurnsProofs`: `TypeCorrect`, `CountersAreTrueThm`, `DailyLimitHoldsThm`,
`OneExecutionThm`, `EntriesExpireThm`. The limit holds because what is covered,
together with an estimate for every call that may still be recorded for the day
of its reservation, fits the limit (`CoverInv`): a reservation is made when what
is recorded and what is reserved leave room for it, `CountersAreTrue` says that
what is reserved counts all calls under way, and `CallInv` that a call's
reservation is never for a day after the limiter's. For turns, `OwnerInv` says
that an owner's entry is its own until a deletion by somebody else takes it.

`KakaoGatewayProofs`: `TypeCorrect`, `CallbackOnceThm`, `NoStraySessionThm`,
`SilenceIsExplainedThm`. A callback is used once because the row of a message is
taken by one reader and not stored again (`RowInv`). A session that joined is in the
map, or the handler that displaced it has yet to close it (`StrayInv`). That silence has
a reason goes back to: a connection over which the two ends do not reach each other
any more, or whose session is closed, is an unreliable one (`LinkInv`, and
`SessionInv` for those that displace a session). So a message that is not answered
was lost with such a connection on the way to the daemon (`FrameInv`,
`OutboundInv`), its answer on the way back (`AnswerInv`), or it was not sent because
there was none (`ConnInv`, `SentInv`).

Type invariants that are proved are not repeated in the runs of `DelegationJobs`,
`RelayBroker`, `Kanban`, `ScheduledRuns` and `ProjectJobs`.

Every invariant and action property of the passing runs is the subject of a theorem.
Model-checked only: the liveness properties `EveryJobSettles`, `RelayMakesProgress`,
`JobKeepsRunning` and `DaemonIsReachable`, since fairness, and with it `ENABLED`, is
beyond the prover; and the three properties that the code violates.

## 4. Plan

1. Token rotation and one-time codes in the portal.
2. The steps of the liveness arguments that need no fairness (what a helpful step
   decreases, and that no other step increases it), as action properties.
3. `inbound_events` of `ChannelTurns` as a third implementation of `LeasedWork`.

Not modelled, and why: components listed as `not_modelled` in `PROJECT.json` are
either planned above or have no state whose correctness depends on an order of
events. Most of the code is of that kind: requests to third parties (channels,
model providers, sandbox, browser, MCP), parsing and files (configuration,
skills, packages), prompts and formatting (agent loop, commands), pages and
command lines. A model of those would restate their text, which is why the
modules cover a small share of all lines and most of the lines where
goroutines, processes and tables meet.

## 5. Running

    tlc -workers 2 -config DelegationJobs.cfg MCDelegationJobs
    tlapm DelegationJobsProofs.tla

Each configuration takes less than three minutes on two cores, the proofs at most
eight minutes per module. `CHECK_DEADLOCK FALSE` is set where the modelled system may
stop: all requests answered, all runs used up, all mishaps spent.
