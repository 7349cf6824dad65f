------------------------------ MODULE SharedTurns ------------------------------
(***************************************************************************)
(* Turns that several requests share: AccountRuntime.RunTurn in             *)
(* apps/kittypaw/engine/account_runtime.go.  A client names its turn with   *)
(* an id; the first request with it runs the turn, on a context of its own  *)
(* that outlives the request, and those that come while it runs, or within  *)
(* ten minutes of its end, are given its outcome.                          *)
(*                                                                         *)
(* All requests here have one turn id: others share nothing with them but   *)
(* the limits of the account's model, which the calls of a turn go through  *)
(* and are here other callers of LLMLimits.  Each operation on the cache,   *)
(* each close of a channel and each start or end of a timer is one step.    *)
(* One runtime: a reload makes a new one with a cache of its own.           *)
(***************************************************************************)
EXTENDS LLMLimits

CONSTANTS
  Request,       \* calls of RunTurn with the turn id
  NoRequest,
  MaxCalls,      \* bound: calls of the model in one execution
  MaxMishap      \* bound: panics and restarts

ASSUME RequestAssumption == Request \subseteq Caller /\ NoRequest \notin Request
ASSUME TurnBoundAssumption == {MaxCalls, MaxMishap} \subseteq Nat

Others == Caller \ Request

Stage == {"new",
          "joined",      \* waits for the execution of another request
          "entering",    \* owns an execution that waits for its admission
          "running",
          "ending",      \* its outcome is known, done not closed yet
          "closed",      \* done is closed, nothing else has been done yet
          "evicting",    \* about to delete the entry
          "returned",
          "gone"}        \* its client left, or the daemon died

Outcome == {"none", "answer", "error", "refused", "panic"}

VARIABLES
  cache,         \* request that owns the entry of the turn id
  stage,         \* Request -> Stage
  joins,         \* Request -> the owner whose outcome it waits for
  outcome,       \* Request -> Outcome of the execution it owns
  done,          \* owners whose done channel is closed
  timers,        \* owners whose timer will delete the entry
  made,          \* Request -> calls of the model in its execution
  expired,       \* history, owners whose entry their own timer deleted
  clobbered,     \* history, owners whose entry another's deletion took
  mishaps

turns == <<cache, stage, joins, outcome, done, timers, made, expired, clobbered>>
vars == <<limits, turns, mishaps>>

TurnsTypeOK ==
  /\ cache \in Request \cup {NoRequest}
  /\ stage \in [Request -> Stage]
  /\ joins \in [Request -> Request \cup {NoRequest}]
  /\ outcome \in [Request -> Outcome]
  /\ {done, timers, expired, clobbered} \subseteq SUBSET Request
  /\ made \in [Request -> 0 .. MaxCalls]
  /\ mishaps \in 0 .. MaxMishap

TypeOK == LimitsTypeOK /\ TurnsTypeOK

Init ==
  /\ LimitsInit
  /\ cache = NoRequest
  /\ stage = [r \in Request |-> "new"]
  /\ joins = [r \in Request |-> NoRequest]
  /\ outcome = [r \in Request |-> "none"]
  /\ done = {} /\ timers = {}
  /\ made = [r \in Request |-> 0]
  /\ expired = {} /\ clobbered = {}
  /\ mishaps = 0

-----------------------------------------------------------------------------

Go(r, from, to) ==
  /\ stage[r] = from
  /\ stage' = [stage EXCEPT ![r] = to]

Mishap == mishaps < MaxMishap /\ mishaps' = mishaps + 1
NoMishap == UNCHANGED mishaps

(* Mutant: a request may store an entry of its own over one it has not seen.*)
RunTurnAlways(r) ==
  /\ \/ Go(r, "new", "entering") /\ cache' = r /\ UNCHANGED joins
     \/ /\ cache # NoRequest
        /\ Go(r, "new", "joined")
        /\ joins' = [joins EXCEPT ![r] = cache]
        /\ UNCHANGED cache
  /\ UNCHANGED <<limits, outcome, done, timers, made, expired, clobbered, mishaps>>

(* LoadOrStore                                                             *)
RunTurn(r) ==
  /\ \/ /\ cache = NoRequest
        /\ Go(r, "new", "entering")
        /\ cache' = r
        /\ UNCHANGED joins
     \/ /\ cache # NoRequest
        /\ Go(r, "new", "joined")
        /\ joins' = [joins EXCEPT ![r] = cache]
        /\ UNCHANGED cache
  /\ UNCHANGED <<limits, outcome, done, timers, made, expired, clobbered, mishaps>>

(* A request that joined is answered, or its client leaves.                *)
Joined(r) ==
  /\ joins[r] \in done
  /\ Go(r, "joined", "returned")
  /\ UNCHANGED <<limits, cache, joins, outcome, done, timers, made, expired,
                 clobbered, mishaps>>

JoinedLeaves(r) ==
  /\ Go(r, "joined", "gone")
  /\ UNCHANGED <<limits, cache, joins, outcome, done, timers, made, expired,
                 clobbered, mishaps>>

(* Run, from its admission ...                                             *)
Admit(r) ==
  /\ Go(r, "entering", "running")
  /\ UNCHANGED <<limits, cache, joins, outcome, done, timers, made, expired,
                 clobbered, mishaps>>

Ends(r, from, o) ==
  /\ Go(r, from, "ending")
  /\ outcome' = [outcome EXCEPT ![r] = o]

(* ... which is refused when the account is busy, or waits until the five   *)
(* minutes of the execution are over ...                                   *)
NotAdmitted(r) ==
  /\ \E o \in {"refused", "error"} : Ends(r, "entering", o)
  /\ UNCHANGED <<limits, cache, joins, done, timers, made, expired, clobbered,
                 mishaps>>

(* ... through calls of the model: retries, rounds of observation, tools ...*)
CallModel(r) ==
  /\ stage[r] = "running" /\ made[r] < MaxCalls
  /\ BeginCall(r)
  /\ made' = [made EXCEPT ![r] = @ + 1]
  /\ UNCHANGED <<cache, stage, joins, outcome, done, timers, expired, clobbered,
                 mishaps>>

(* ... that end the turn at once when a limit has refused them, unless a    *)
(* tool or a branch of the pipeline made the call and has something to do   *)
(* without it ...                                                          *)
ModelReturns(r) ==
  /\ Free(r)
  /\ \/ /\ call[r].result = "panic"
        /\ Ends(r, "running", "panic")
     \/ /\ call[r].result = "limit"
        /\ Ends(r, "running", "refused")
     \/ /\ call[r].result # "panic"
        /\ UNCHANGED <<stage, outcome>>
  /\ UNCHANGED <<cache, joins, done, timers, made, expired, clobbered, mishaps>>

(* ... to an answer, an error or the end of the five minutes.              *)
RunReturns(r) ==
  /\ At(r, "none")
  /\ \E o \in {"answer", "error"} : Ends(r, "running", o)
  /\ UNCHANGED <<limits, cache, joins, done, timers, made, expired, clobbered,
                 mishaps>>

(* runTurnOwner, deferred                                                  *)
CloseDone(r) ==
  /\ Go(r, "ending", "closed")
  /\ done' = done \cup {r}
  /\ UNCHANGED <<limits, cache, joins, outcome, timers, made, expired, clobbered,
                 mishaps>>

(* Mutant: no timer after an error.                                        *)
TimeAnswersOnly(r) ==
  /\ Go(r, "closed", IF outcome[r] \in {"panic", "refused"} THEN "evicting"
                                                            ELSE "returned")
  /\ timers' = IF outcome[r] = "answer" THEN timers \cup {r} ELSE timers
  /\ UNCHANGED <<limits, cache, joins, outcome, done, made, expired, clobbered,
                 mishaps>>

(* The timer is set after everything but a panic, and when RunTurn goes on  *)
(* to evict what was refused.                                              *)
SetTimer(r) ==
  /\ Go(r, "closed", IF outcome[r] \in {"panic", "refused"} THEN "evicting"
                                                            ELSE "returned")
  /\ timers' = IF outcome[r] = "panic" THEN timers ELSE timers \cup {r}
  /\ UNCHANGED <<limits, cache, joins, outcome, done, made, expired, clobbered,
                 mishaps>>

(* Delete, by turn id: whoever's entry it is.                              *)
DeleteEntry(r) ==
  /\ cache' = NoRequest
  /\ clobbered' = clobbered \cup ({cache} \ {r, NoRequest})

Evict(r) ==
  /\ Go(r, "evicting", "returned")
  /\ DeleteEntry(r)
  /\ UNCHANGED <<limits, joins, outcome, done, timers, made, expired, mishaps>>

TimerFires(r) ==
  /\ r \in timers
  /\ timers' = timers \ {r}
  /\ DeleteEntry(r)
  /\ expired' = IF cache = r THEN expired \cup {r} ELSE expired
  /\ UNCHANGED <<limits, stage, joins, outcome, done, made, mishaps>>

-----------------------------------------------------------------------------

(* The steps of any call until it returns.                                 *)
CallGoesOn(p) ==
  /\ CallStep(p)
  /\ IF call'[p].result = "panic" /\ call[p].result # "panic" THEN Mishap
                                                              ELSE NoMishap
  /\ UNCHANGED turns

OtherCall(p) ==
  /\ p \in Others
  /\ BeginCall(p) \/ Free(p)
  /\ UNCHANGED <<turns, mishaps>>

Midnight == NextDay /\ UNCHANGED <<turns, mishaps>>

(* The daemon dies and starts again.                                       *)
Restart ==
  /\ Mishap
  /\ LoseCalls
  /\ cache' = NoRequest
  /\ stage' = [r \in Request |-> IF stage[r] = "new" THEN "new" ELSE "gone"]
  /\ joins' = [r \in Request |-> NoRequest]
  /\ outcome' = [r \in Request |-> "none"]
  /\ done' = {} /\ timers' = {}
  /\ made' = [r \in Request |-> 0]
  /\ expired' = {} /\ clobbered' = {}

RequestStep(r) ==
  \/ RunTurn(r) \/ Joined(r) \/ JoinedLeaves(r)
  \/ Admit(r) \/ NotAdmitted(r) \/ CallModel(r) \/ ModelReturns(r)
  \/ RunReturns(r) \/ CloseDone(r) \/ SetTimer(r) \/ Evict(r) \/ TimerFires(r)

Next ==
  \/ \E r \in Request : RequestStep(r)
  \/ \E p \in Caller : CallGoesOn(p) \/ OtherCall(p)
  \/ Midnight \/ Restart

Spec == Init /\ [][Next]_vars

-----------------------------------------------------------------------------
(* Properties.                                                             *)

Executes(r) == stage[r] \in {"entering", "running"}

(* A turn is executed by one request at a time, and one that has come to an *)
(* answer or an error is not executed again within its ten minutes, however *)
(* often its client retries: unless the timer of an execution that was      *)
(* refused, and evicted, long before deletes the entry of its successor.    *)
(* (account_runtime.go:262, core/protocol.go:10)                           *)
OneExecution ==
  \A r \in Request \ clobbered :
    /\ Executes(r) => \A s \in Request : Executes(s) => s = r \/ s \in clobbered
    /\ outcome[r] \in {"answer", "error"} => cache = r \/ r \in expired

(* No entry stays in the cache for ever: that of an execution that has      *)
(* ended has a timer, or its owner is about to delete it or to set one; and *)
(* whoever waits for an execution waits for one that goes on, or has ended. *)
EntriesExpire ==
  \A r \in Request :
    /\ cache = r =>
         stage[r] \in {"entering", "running", "ending", "closed", "evicting"}
           \/ r \in timers
    /\ stage[r] = "joined" =>
         joins[r] \in done \/ stage[joins[r]] \in {"entering", "running", "ending"}

=============================================================================
