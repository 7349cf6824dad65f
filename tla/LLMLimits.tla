------------------------------- MODULE LLMLimits -------------------------------
(***************************************************************************)
(* The limits on calls of a language model by one account: the daily limit  *)
(* of tokens (apps/kittypaw/engine/llm_daily_token_limit.go), which adds to  *)
(* what the table llm_call_usage says of today what calls under way have     *)
(* reserved, and the limiter of one model (engine/llm_rate_limit.go), around *)
(* which engine/llm_usage.go records what a call has used.                  *)
(*                                                                         *)
(* A call goes through three wrappers.  Each critical section of a mutex    *)
(* and each statement on the table is one step.  The clock is read outside  *)
(* of the critical sections: what a call takes for today may be over.       *)
(* Time is the number of the day; the limiter's requests and tokens per     *)
(* minute refuse a call whenever they like.                                *)
(***************************************************************************)
EXTENDS Naturals, FiniteSets

CONSTANTS
  Caller,        \* goroutines that call the model
  DailyLimit,    \* tokens of the account per day
  TokensPerDay,  \* tokens of the model per day, 0: no limit
  MaxConcurrent, \* calls of the model at a time, 0: no limit
  Estimate,      \* tokens reserved for a call
  MaxActual,     \* bound: tokens a call really uses
  MaxDay         \* bound: days

ASSUME CallerAssumption == IsFiniteSet(Caller)
ASSUME LimitAssumption ==
  /\ {DailyLimit, TokensPerDay, MaxConcurrent, Estimate, MaxActual, MaxDay}
       \subseteq Nat
  /\ DailyLimit > 0 /\ Estimate > 0 /\ MaxDay > 0

Day == 1 .. MaxDay
NoDay == 0

(* What a call does next.                                                  *)
Step == {"none",
         "reserving",    \* in reserve of the daily limit
         "acquiring",    \* in acquire of the model's limiter
         "calling",      \* at the provider
         "settling",     \* in settle of the model's limiter
         "recording",    \* about to write llm_call_usage
         "freeing"}      \* in settle of the daily limit

(* What came of it.  "unreported" is an answer without its usage.          *)
Result == {"none", "answer", "unreported", "error", "limit", "panic"}

VARIABLES
  today,
  day, reserved,         \* of DailyTokenLimiter
  inFlight,              \* of llmRateLimiter
  window, windowTokens,  \* its dayWindow and dayTokens
  recorded,      \* Day -> tokens in llm_call_usage of calls started that day
  call,          \* Caller -> its call
  covered,       \* history, Day -> tokens recorded that were reserved that day
  rewound,       \* history, days the daily limit has begun more than once
  leaked         \* history, slots of the model's limiter lost in panics

clock == <<today>>
daily == <<day, reserved>>
rate == <<inFlight, window, windowTokens>>
limits == <<clock, daily, rate, recorded, call, covered, rewound, leaked>>

(* since: the day of its last step; held: the day of its reservation;       *)
(* start: when the recorder let it through; counted: its day at the model's *)
(* limiter.                                                                *)
Call == [at : Step, since : Day, held : Day \cup {NoDay}, start : Day \cup {NoDay},
         counted : Day \cup {NoDay}, used : 0 .. MaxActual, result : Result]

NoCall == [at |-> "none", since |-> 1, held |-> NoDay, start |-> NoDay,
           counted |-> NoDay, used |-> 0, result |-> "none"]

LimitsTypeOK ==
  /\ today \in Day
  /\ day \in Day \cup {NoDay} /\ window \in Day \cup {NoDay}
  /\ reserved \in Nat /\ inFlight \in Nat /\ windowTokens \in Nat
  /\ recorded \in [Day -> Nat]
  /\ call \in [Caller -> Call]
  /\ covered \in [Day -> Nat]
  /\ rewound \subseteq Day
  /\ leaked \in Nat

LimitsInit ==
  /\ today = 1
  /\ day = NoDay /\ reserved = 0
  /\ inFlight = 0 /\ window = NoDay /\ windowTokens = 0
  /\ recorded = [d \in Day |-> 0]
  /\ call = [p \in Caller |-> NoCall]
  /\ covered = [d \in Day |-> 0]
  /\ rewound = {} /\ leaked = 0

-----------------------------------------------------------------------------

Monus(a, b) == IF a > b THEN a - b ELSE 0

Add(f, d, n) == [f EXCEPT ![d] = @ + n]

(* The days a clock may have shown since the caller's last step.           *)
Now(p) == call[p].since .. today

At(p, step) == call[p].at = step

SetCall(p, c) == call' = [call EXCEPT ![p] = c]

BeginCall(p) ==
  /\ At(p, "none")
  /\ SetCall(p, [NoCall EXCEPT !.at = "reserving", !.since = today])
  /\ UNCHANGED <<clock, daily, rate, recorded, covered, rewound, leaked>>

(* Mutant: what calls under way have reserved is not counted.              *)
WithinRecordedOnly(r) == recorded[today] + Estimate <= DailyLimit

(* ~wouldExceedLimit, with TodayStats of the day it is by then.            *)
WithinDailyLimit(r) == recorded[today] + r + Estimate <= DailyLimit

(* DailyTokenLimiter.reserve                                               *)
Reserve(p) ==
  /\ At(p, "reserving")
  /\ \E now \in Now(p) :
       LET r == IF day = now THEN reserved ELSE 0
           c == [call[p] EXCEPT !.since = today]
       IN
       /\ day' = now
       /\ rewound' = IF day > now THEN rewound \cup now .. day ELSE rewound
       /\ \/ /\ WithinDailyLimit(r)
             /\ reserved' = r + Estimate
             /\ SetCall(p, [c EXCEPT !.at = "acquiring", !.held = now])
          \/ /\ ~WithinDailyLimit(r)
             /\ reserved' = r
             /\ SetCall(p, [c EXCEPT !.at = "freeing", !.result = "limit"])
          \/ (* TodayStats fails *)
             /\ reserved' = r
             /\ SetCall(p, [c EXCEPT !.at = "freeing", !.result = "error"])
  /\ UNCHANGED <<clock, rate, recorded, covered, leaked>>

(* The recorder notes the time, then llmRateLimiter.acquire.               *)
Acquire(p) ==
  /\ At(p, "acquiring")
  /\ \E start \in Now(p) : \E now \in start .. today :
       LET n == IF window = now THEN windowTokens ELSE 0
           c == [call[p] EXCEPT !.since = today]
       IN
       /\ window' = now
       /\ \/ /\ MaxConcurrent = 0 \/ inFlight < MaxConcurrent
             /\ TokensPerDay = 0 \/ n + Estimate <= TokensPerDay
             /\ inFlight' = inFlight + 1
             /\ windowTokens' = n + Estimate
             /\ SetCall(p, [c EXCEPT !.at = "calling", !.start = start,
                                     !.counted = now])
          \/ (* one of its limits *)
             /\ UNCHANGED inFlight /\ windowTokens' = n
             /\ SetCall(p, [c EXCEPT !.at = "freeing", !.result = "limit"])
  /\ UNCHANGED <<clock, daily, recorded, covered, rewound, leaked>>

(* The context of the call has ended when reserve or acquire looks.        *)
ContextEnded(p) ==
  /\ At(p, "reserving") \/ At(p, "acquiring")
  /\ SetCall(p, [call[p] EXCEPT !.at = "freeing", !.result = "error",
                                !.since = today])
  /\ UNCHANGED <<clock, daily, rate, recorded, covered, rewound, leaked>>

Answer(p) ==
  /\ At(p, "calling")
  /\ \E r \in {"answer", "unreported", "error"} : \E n \in 0 .. MaxActual :
       /\ r # "answer" => n = 0
       /\ SetCall(p, [call[p] EXCEPT !.at = "settling", !.result = r, !.used = n,
                                     !.since = today])
  /\ UNCHANGED <<clock, daily, rate, recorded, covered, rewound, leaked>>

(* The provider panics: of the three wrappers only the daily limit has      *)
(* deferred its settlement.                                                *)
Panic(p) ==
  /\ At(p, "calling")
  /\ SetCall(p, [call[p] EXCEPT !.at = "freeing", !.result = "panic",
                                !.since = today])
  /\ leaked' = leaked + 1
  /\ UNCHANGED <<clock, daily, rate, recorded, covered, rewound>>

(* Mutant: a failed call returns before it gives its slot back.            *)
SettleAnswered(p) ==
  /\ At(p, "settling")
  /\ inFlight' = IF call[p].result = "error" THEN inFlight ELSE Monus(inFlight, 1)
  /\ UNCHANGED <<window, windowTokens>>
  /\ SetCall(p, [call[p] EXCEPT
       !.at = IF call[p].result = "answer" THEN "recording" ELSE "freeing",
       !.since = today])
  /\ UNCHANGED <<clock, daily, recorded, covered, rewound, leaked>>

(* settle of the model's limiter: the estimate is replaced by what was      *)
(* used, nothing after an error, unless the window has changed.             *)
Settle(p) ==
  /\ At(p, "settling")
  /\ inFlight' = Monus(inFlight, 1)
  /\ windowTokens' =
       IF call[p].result = "unreported" \/ window # call[p].counted
         THEN windowTokens
         ELSE IF call[p].used > Estimate
           THEN windowTokens + (call[p].used - Estimate)
           ELSE Monus(windowTokens, Estimate - call[p].used)
  /\ UNCHANGED window
  /\ SetCall(p, [call[p] EXCEPT
       !.at = IF call[p].result = "answer" THEN "recording" ELSE "freeing",
       !.since = today])
  /\ UNCHANGED <<clock, daily, recorded, covered, rewound, leaked>>

(* What of an answer the daily limit could know of: as much as its call had *)
(* reserved, if that was for the day it is recorded for.                   *)
Covered(p) ==
  IF call[p].held # call[p].start THEN 0
  ELSE IF call[p].used > Estimate THEN Estimate ELSE call[p].used

(* RecordLLMCallUsage, with the day the call started; its error is logged.  *)
Record(p) ==
  /\ At(p, "recording")
  /\ SetCall(p, [call[p] EXCEPT !.at = "freeing", !.since = today])
  /\ \/ /\ recorded' = Add(recorded, call[p].start, call[p].used)
        /\ covered' = Add(covered, call[p].start, Covered(p))
     \/ UNCHANGED <<recorded, covered>>
  /\ UNCHANGED <<clock, daily, rate, rewound, leaked>>

(* Mutant: a reservation of a day that is over is taken off today's.       *)
FreeAnyDay(p) ==
  /\ At(p, "freeing")
  /\ reserved' = IF call[p].held # NoDay THEN reserved - Estimate ELSE reserved
  /\ SetCall(p, NoCall)
  /\ UNCHANGED <<clock, day, rate, recorded, covered, rewound, leaked>>

(* settle of the daily limit, and the call returns.                        *)
Free(p) ==
  /\ At(p, "freeing")
  /\ reserved' = IF call[p].held # NoDay /\ call[p].held = day
                   THEN Monus(reserved, Estimate) ELSE reserved
  /\ SetCall(p, NoCall)
  /\ UNCHANGED <<clock, day, rate, recorded, covered, rewound, leaked>>

NextDay ==
  /\ today < MaxDay
  /\ today' = today + 1
  /\ UNCHANGED <<daily, rate, recorded, call, covered, rewound, leaked>>

(* The daemon dies: the counters and the calls are gone.                   *)
LoseCalls ==
  /\ day' = NoDay /\ reserved' = 0
  /\ inFlight' = 0 /\ window' = NoDay /\ windowTokens' = 0
  /\ call' = [p \in Caller |-> NoCall]
  /\ leaked' = 0
  /\ UNCHANGED <<clock, recorded, covered, rewound>>

-----------------------------------------------------------------------------

CallStep(p) ==
  \/ Reserve(p) \/ Acquire(p) \/ ContextEnded(p) \/ Answer(p) \/ Panic(p)
  \/ Settle(p) \/ Record(p)

-----------------------------------------------------------------------------
(* Properties.                                                             *)

UnderWay(f) == {p \in Caller : f[p].at \in {"calling", "settling"}}
Holders(f, d) == {p \in Caller : d # NoDay /\ f[p].held = d}

(* The counters are worth what the calls under way hold, however they end   *)
(* and on whatever day: a slot of the model that no call holds was lost in  *)
(* a panic; and no reservation is counted that nobody holds, nor held that  *)
(* is not counted, unless the limiter was set back to a day it had left.    *)
CountersAreTrue ==
  /\ inFlight = Cardinality(UnderWay(call)) + leaked
  /\ day \notin rewound => reserved = Estimate * Cardinality(Holders(call, day))

(* Calls that are under way together do not exceed the account's limit of   *)
(* tokens per day, whoever makes them and whenever each is recorded, but for *)
(* what the limit cannot know of: the part of an answer beyond its estimate, *)
(* answers whose record was lost, calls let through before midnight and      *)
(* started after it, and days the limiter was set back to.                   *)
DailyLimitHolds ==
  \A d \in Day \ rewound : covered[d] <= DailyLimit

=============================================================================
