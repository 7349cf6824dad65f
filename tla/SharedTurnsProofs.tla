--------------------------- MODULE SharedTurnsProofs ---------------------------
(***************************************************************************)
(* Theorems about the limits on calls of the model and the turns that share *)
(* an execution, for any callers, requests, limits and days.                *)
(***************************************************************************)
EXTENDS SharedTurns, FiniteSetTheorems, TLAPS

(* Calls that may still be recorded for the day their reservation is for.   *)
Waits(c, d) ==
  /\ c.held = d
  /\ \/ c.at = "acquiring" /\ c.since = d
     \/ c.at \in {"calling", "settling", "recording"} /\ c.start = d

Waiting(f, d) == {p \in Caller : Waits(f[p], d)}

(* Where a call is, and when it took its reservation.                      *)
CallInv ==
  \A p \in Caller :
    /\ call[p].since <= today
    /\ call[p].at \in {"none", "reserving"} => call[p].held = NoDay
    /\ call[p].at = "acquiring" => call[p].held <= call[p].since
    /\ call[p].at \in {"calling", "settling", "recording"} => call[p].start \in Day
    /\ call[p].held # NoDay /\ call[p].held \notin rewound => call[p].held <= day

(* What is covered is recorded, and there is room for what may be.          *)
CoverInv ==
  \A d \in Day :
    /\ covered[d] <= recorded[d]
    /\ d \notin rewound =>
         covered[d] + Estimate * Cardinality(Waiting(call, d)) <= DailyLimit

LimitsInv == LimitsTypeOK /\ CallInv /\ CountersAreTrue /\ CoverInv

(* Turns: an owner's entry is its own until somebody else's deletion takes  *)
(* it; done is closed before a timer runs.                                 *)
OwnerInv ==
  \A r \in Request :
    /\ r \in timers => stage[r] \in {"evicting", "returned"} /\ r \in done
    /\ stage[r] \in {"closed", "evicting"} => r \in done
    /\ stage[r] = "evicting" => outcome[r] \in {"panic", "refused"}
    /\ stage[r] \in {"entering", "running", "ending", "closed"}
         /\ r \notin clobbered => cache = r
    /\ outcome[r] \in {"answer", "error"} /\ r \notin clobbered =>
         cache = r \/ r \in expired
    /\ stage[r] = "joined" => joins[r] \in Request

TurnsInv == TurnsTypeOK /\ OwnerInv /\ EntriesExpire

-----------------------------------------------------------------------------
(* Counting.                                                               *)

One(b) == IF b THEN 1 ELSE 0

(* Sets that differ in one element at most.                                *)
LEMMA Counted ==
  ASSUME NEW F, NEW G, NEW p, IsFiniteSet(F), G \ {p} = F \ {p}
  PROVE  /\ IsFiniteSet(G)
         /\ Cardinality(F) \in Nat /\ Cardinality(G) \in Nat
         /\ Cardinality(G) + One(p \in F) = Cardinality(F) + One(p \in G)
<1>1. IsFiniteSet(F \ {p}) /\ IsFiniteSet(G \ {p})
  BY FS_RemoveElement
<1>2. IsFiniteSet(G)
  <2>1. G = G \ {p} \/ G = (G \ {p}) \cup {p}
    OBVIOUS
  <2>. QED
    BY <1>1, <2>1, FS_AddElement
<1>3. /\ Cardinality(F \ {p}) = Cardinality(F) - One(p \in F)
      /\ Cardinality(G \ {p}) = Cardinality(G) - One(p \in G)
  <2>1. ASSUME NEW S, IsFiniteSet(S)
        PROVE  Cardinality(S \ {p}) = Cardinality(S) - One(p \in S)
    <3>1. Cardinality(S) \in Nat
      BY <2>1, FS_CardinalityType
    <3>2. Cardinality(S \ {p}) = IF p \in S THEN Cardinality(S) - 1 ELSE Cardinality(S)
      BY <2>1, FS_RemoveElement
    <3>. QED
      BY <3>1, <3>2 DEF One
  <2>. QED
    BY <1>2, <2>1
<1>4. Cardinality(F) \in Nat /\ Cardinality(G) \in Nat
  BY <1>2, FS_CardinalityType
<1>. QED
  BY <1>2, <1>3, <1>4 DEF One

LEMMA SubsetCounted ==
  ASSUME NEW F, NEW G, IsFiniteSet(F), G \subseteq F
  PROVE  Cardinality(G) \in Nat /\ Cardinality(F) \in Nat
         /\ Cardinality(G) <= Cardinality(F)
BY FS_Subset, FS_CardinalityType

LEMMA Times ==
  ASSUME NEW m \in Nat, NEW n \in Nat
  PROVE  /\ Estimate * m \in Nat
         /\ Estimate * (n + 1) = Estimate * n + Estimate
         /\ Estimate * 0 = 0
         /\ m <= n => Estimate * m <= Estimate * n
BY LimitAssumption

LEMMA FiniteSets ==
  ASSUME NEW f
  PROVE  /\ IsFiniteSet(UnderWay(f)) /\ Cardinality(UnderWay(f)) \in Nat
         /\ \A d : IsFiniteSet(Holders(f, d)) /\ Cardinality(Holders(f, d)) \in Nat
         /\ \A d : IsFiniteSet(Waiting(f, d)) /\ Cardinality(Waiting(f, d)) \in Nat
<1>1. \A S \in SUBSET Caller : IsFiniteSet(S) /\ Cardinality(S) \in Nat
  BY CallerAssumption, FS_Subset, FS_CardinalityType
<1>. QED
  BY <1>1 DEF UnderWay, Holders, Waiting

LEMMA WaitingHold ==
  ASSUME NEW f, NEW d \in Day
  PROVE  /\ Cardinality(Holders(f, d)) \in Nat
         /\ Cardinality(Waiting(f, d)) <= Cardinality(Holders(f, d))
<1>1. Waiting(f, d) \subseteq Holders(f, d)
  BY DEF Waiting, Waits, Holders, Day, NoDay
<1>2. IsFiniteSet(Holders(f, d))
  BY FiniteSets
<1>. QED
  BY <1>1, <1>2, SubsetCounted

(* What the counts become when one call changes.                           *)
LEMMA OneCall ==
  ASSUME LimitsTypeOK, NEW p \in Caller, NEW c \in Call, SetCall(p, c)
  PROVE  /\ call' \in [Caller -> Call]
         /\ \A q \in Caller : call'[q] = IF q = p THEN c ELSE call[q]
         /\ Cardinality(UnderWay(call')) + One(call[p].at \in {"calling", "settling"})
              = Cardinality(UnderWay(call)) + One(c.at \in {"calling", "settling"})
         /\ \A d \in Day : Cardinality(Holders(call', d)) + One(call[p].held = d)
              = Cardinality(Holders(call, d)) + One(c.held = d)
         /\ \A d \in Day : Cardinality(Waiting(call', d)) + One(Waits(call[p], d))
              = Cardinality(Waiting(call, d)) + One(Waits(c, d))
<1>1. call \in [Caller -> Call] /\ call' = [call EXCEPT ![p] = c]
  BY DEF LimitsTypeOK, SetCall
<1>2. call' \in [Caller -> Call]
      /\ \A q \in Caller : call'[q] = IF q = p THEN c ELSE call[q]
  BY <1>1
<1>3. /\ UnderWay(call') \ {p} = UnderWay(call) \ {p}
      /\ p \in UnderWay(call') <=> c.at \in {"calling", "settling"}
      /\ p \in UnderWay(call) <=> call[p].at \in {"calling", "settling"}
  BY <1>2 DEF UnderWay
<1>4. ASSUME NEW d \in Day
      PROVE  /\ Holders(call', d) \ {p} = Holders(call, d) \ {p}
             /\ p \in Holders(call', d) <=> c.held = d
             /\ p \in Holders(call, d) <=> call[p].held = d
  BY <1>2 DEF Holders, Day, NoDay
<1>5. ASSUME NEW d \in Day
      PROVE  /\ Waiting(call', d) \ {p} = Waiting(call, d) \ {p}
             /\ p \in Waiting(call', d) <=> Waits(c, d)
             /\ p \in Waiting(call, d) <=> Waits(call[p], d)
  BY <1>2 DEF Waiting
<1>6. Cardinality(UnderWay(call')) + One(call[p].at \in {"calling", "settling"})
        = Cardinality(UnderWay(call)) + One(c.at \in {"calling", "settling"})
  <2>1. Cardinality(UnderWay(call')) + One(p \in UnderWay(call))
          = Cardinality(UnderWay(call)) + One(p \in UnderWay(call'))
    BY <1>3, FiniteSets, Counted
  <2>. QED
    BY <2>1, <1>3 DEF One
<1>7. ASSUME NEW d \in Day
      PROVE  Cardinality(Holders(call', d)) + One(call[p].held = d)
               = Cardinality(Holders(call, d)) + One(c.held = d)
  <2>1. Cardinality(Holders(call', d)) + One(p \in Holders(call, d))
          = Cardinality(Holders(call, d)) + One(p \in Holders(call', d))
    BY <1>4, FiniteSets, Counted
  <2>. QED
    BY <2>1, <1>4 DEF One
<1>8. ASSUME NEW d \in Day
      PROVE  Cardinality(Waiting(call', d)) + One(Waits(call[p], d))
               = Cardinality(Waiting(call, d)) + One(Waits(c, d))
  <2>1. Cardinality(Waiting(call', d)) + One(p \in Waiting(call, d))
          = Cardinality(Waiting(call, d)) + One(p \in Waiting(call', d))
    BY <1>5, FiniteSets, Counted
  <2>. QED
    BY <2>1, <1>5 DEF One
<1>. QED
  BY <1>2, <1>6, <1>7, <1>8

-----------------------------------------------------------------------------
(* Steps of a call.                                                        *)

(* A step that takes or gives back no reservation and records nothing.      *)
LEMMA Quiet ==
  ASSUME LimitsInv, LimitsTypeOK', NEW p \in Caller, NEW c \in Call, SetCall(p, c),
         UNCHANGED <<clock, daily, recorded, covered, rewound>>,
         c.since <= today, c.held = call[p].held,
         c.at \in {"none", "reserving"} => c.held = NoDay,
         c.at = "acquiring" => c.held <= c.since,
         c.at \in {"calling", "settling", "recording"} => c.start \in Day,
         \A d \in Day : Waits(c, d) => Waits(call[p], d),
         inFlight' + leaked + One(call[p].at \in {"calling", "settling"})
           = inFlight + leaked' + One(c.at \in {"calling", "settling"})
  PROVE  LimitsInv'
<1>1. /\ call' \in [Caller -> Call]
      /\ \A q \in Caller : call'[q] = IF q = p THEN c ELSE call[q]
      /\ Cardinality(UnderWay(call')) + One(call[p].at \in {"calling", "settling"})
           = Cardinality(UnderWay(call)) + One(c.at \in {"calling", "settling"})
  BY OneCall DEF LimitsInv
<1>2. /\ \A d \in Day : Cardinality(Holders(call', d)) + One(call[p].held = d)
           = Cardinality(Holders(call, d)) + One(c.held = d)
      /\ \A d \in Day : Cardinality(Waiting(call', d)) + One(Waits(call[p], d))
           = Cardinality(Waiting(call, d)) + One(Waits(c, d))
  BY OneCall DEF LimitsInv
<1>3. UNCHANGED <<today, day, reserved, recorded, covered, rewound>>
  BY DEF clock, daily
<1>4. CallInv'
  BY <1>1, <1>3 DEF LimitsInv, CallInv, LimitsTypeOK, Call
<1>5. CountersAreTrue'
  <2>1. inFlight' = Cardinality(UnderWay(call')) + leaked'
    BY <1>1, FiniteSets DEF LimitsInv, CountersAreTrue, LimitsTypeOK, One
  <2>2. Cardinality(Holders(call', day)) = Cardinality(Holders(call, day))
    <3>1. CASE day \in Day
      <4>1. Cardinality(Holders(call', day)) + One(call[p].held = day)
              = Cardinality(Holders(call, day)) + One(call[p].held = day)
        BY <3>1, <1>2
      <4>2. One(call[p].held = day) \in Nat
        BY DEF One
      <4>3. /\ Cardinality(Holders(call', day)) \in Nat
            /\ Cardinality(Holders(call, day)) \in Nat
        BY FiniteSets
      <4>. HIDE DEF One, Holders
      <4>. QED
        BY <4>1, <4>2, <4>3
    <3>2. CASE day = NoDay
      BY <3>2 DEF Holders
    <3>. QED
      BY <3>1, <3>2 DEF LimitsInv, LimitsTypeOK
  <2>. QED
    BY <2>1, <2>2, <1>3 DEF LimitsInv, CountersAreTrue
<1>6. CoverInv'
  <2>. SUFFICES ASSUME NEW d \in Day, d \notin rewound
                PROVE  covered[d] + Estimate * Cardinality(Waiting(call', d)) <= DailyLimit
    BY <1>3 DEF LimitsInv, CoverInv
  <2>1. Cardinality(Waiting(call', d)) <= Cardinality(Waiting(call, d))
    BY <1>2, FiniteSets DEF One
  <2>2. /\ Cardinality(Waiting(call', d)) \in Nat /\ Cardinality(Waiting(call, d)) \in Nat
    BY FiniteSets
  <2>3. /\ Estimate * Cardinality(Waiting(call', d)) \in Nat
        /\ Estimate * Cardinality(Waiting(call, d)) \in Nat
        /\ Estimate * Cardinality(Waiting(call', d)) <= Estimate * Cardinality(Waiting(call, d))
    BY <2>1, <2>2, Times
  <2>4. covered[d] + Estimate * Cardinality(Waiting(call, d)) <= DailyLimit
    BY DEF LimitsInv, CoverInv
  <2>. DEFINE w == Estimate * Cardinality(Waiting(call', d))
              v == Estimate * Cardinality(Waiting(call, d))
  <2>5. w \in Nat /\ v \in Nat /\ w <= v /\ covered[d] + v <= DailyLimit
    BY <2>3, <2>4
  <2>. HIDE DEF w, v
  <2>6. covered[d] + w <= DailyLimit
    BY <2>5, LimitAssumption DEF LimitsInv, LimitsTypeOK
  <2>. QED
    BY <2>6 DEF w
<1>. QED
  BY <1>4, <1>5, <1>6 DEF LimitsInv

(* Types of what a step may take for the day.                              *)
LEMMA NowIsDay ==
  ASSUME LimitsTypeOK, NEW p \in Caller
  PROVE  /\ call[p] \in Call /\ today \in Day
         /\ Now(p) \subseteq Day
         /\ \A now \in Now(p) : call[p].since <= now /\ now <= today
         /\ \A now \in Now(p) : now .. today \subseteq Day
BY LimitAssumption DEF LimitsTypeOK, Call, Day, Now

LEMMA NoCallIsCall == NoCall \in Call /\ NoCall.held = NoDay /\ NoCall.at = "none"
BY LimitAssumption DEF Call, NoCall, Step, Result, Day

LEMMA BeginCallStep ==
  ASSUME LimitsInv, NEW p \in Caller, BeginCall(p)
  PROVE  LimitsInv'
<1>. DEFINE c == [NoCall EXCEPT !.at = "reserving", !.since = today]
<1>1. LimitsTypeOK /\ today \in Day /\ today \in Nat
  BY DEF LimitsInv, LimitsTypeOK, Day
<1>. HIDE DEF c
<1>0. c = [NoCall EXCEPT !.at = "reserving", !.since = today]
  BY DEF c
<1>2. /\ c \in Call /\ c.at = "reserving" /\ c.since = today /\ c.held = NoDay
  BY <1>0, <1>1, NoCallIsCall DEF Call, Step
<1>3. SetCall(p, c) /\ call[p].at = "none" /\ call[p].held = NoDay
  BY DEF BeginCall, At, c, LimitsInv, CallInv
<1>4. UNCHANGED <<clock, daily, rate, recorded, covered, rewound, leaked>>
  BY DEF BeginCall
<1>5. LimitsTypeOK'
  BY <1>1, <1>2, <1>3, <1>4, OneCall DEF LimitsTypeOK, clock, daily, rate
<1>6. \A d \in Day : ~Waits(c, d)
  BY <1>2 DEF Waits
<1>7. inFlight' + leaked + One(call[p].at \in {"calling", "settling"})
        = inFlight + leaked' + One(c.at \in {"calling", "settling"})
  BY <1>1, <1>2, <1>3, <1>4 DEF One, rate, LimitsTypeOK
<1>. QED
  BY <1>1, <1>2, <1>3, <1>4, <1>5, <1>6, <1>7, Quiet

LEMMA ContextEndedStep ==
  ASSUME LimitsInv, NEW p \in Caller, ContextEnded(p)
  PROVE  LimitsInv'
<1>. DEFINE c == [call[p] EXCEPT !.at = "freeing", !.result = "error", !.since = today]
<1>. HIDE DEF c
<1>0. c = [call[p] EXCEPT !.at = "freeing", !.result = "error", !.since = today]
  BY DEF c
<1>1. LimitsTypeOK /\ today \in Day /\ today \in Nat /\ call[p] \in Call
  BY DEF LimitsInv, LimitsTypeOK, Day
<1>2. /\ c \in Call /\ c.at = "freeing" /\ c.since = today /\ c.held = call[p].held
  BY <1>0, <1>1 DEF Call, Step, Result
<1>3. SetCall(p, c) /\ call[p].at \in {"reserving", "acquiring"}
  BY DEF ContextEnded, At, c
<1>4. UNCHANGED <<clock, daily, rate, recorded, covered, rewound, leaked>>
  BY DEF ContextEnded
<1>5. LimitsTypeOK'
  BY <1>1, <1>2, <1>3, <1>4, OneCall DEF LimitsTypeOK, clock, daily, rate
<1>6. \A d \in Day : ~Waits(c, d)
  BY <1>2 DEF Waits
<1>7. inFlight' + leaked + One(call[p].at \in {"calling", "settling"})
        = inFlight + leaked' + One(c.at \in {"calling", "settling"})
  BY <1>1, <1>2, <1>3, <1>4 DEF One, rate, LimitsTypeOK
<1>. QED
  BY <1>1, <1>2, <1>3, <1>4, <1>5, <1>6, <1>7, Quiet

LEMMA AnswerStep ==
  ASSUME LimitsInv, NEW p \in Caller, Answer(p)
  PROVE  LimitsInv'
<1>1. LimitsTypeOK /\ today \in Day /\ today \in Nat /\ call[p] \in Call
  BY DEF LimitsInv, LimitsTypeOK, Day
<1>2. PICK r \in {"answer", "unreported", "error"}, n \in 0 .. MaxActual :
        SetCall(p, [call[p] EXCEPT !.at = "settling", !.result = r, !.used = n,
                                   !.since = today])
  BY DEF Answer
<1>. DEFINE c == [call[p] EXCEPT !.at = "settling", !.result = r, !.used = n,
                                 !.since = today]
<1>. HIDE DEF c
<1>0. c = [call[p] EXCEPT !.at = "settling", !.result = r, !.used = n,
                          !.since = today]
  BY DEF c
<1>3. /\ c \in Call /\ c.at = "settling" /\ c.since = today
      /\ c.held = call[p].held /\ c.start = call[p].start
  BY <1>0, <1>1 DEF Call, Step, Result
<1>4. SetCall(p, c) /\ call[p].at = "calling"
  BY <1>2 DEF Answer, At, c
<1>5. UNCHANGED <<clock, daily, rate, recorded, covered, rewound, leaked>>
  BY DEF Answer
<1>6. LimitsTypeOK'
  BY <1>1, <1>3, <1>4, <1>5, OneCall DEF LimitsTypeOK, clock, daily, rate
<1>7. \A d \in Day : Waits(c, d) => Waits(call[p], d)
  BY <1>3, <1>4 DEF Waits
<1>8. c.start \in Day
  BY <1>3, <1>4 DEF LimitsInv, CallInv
<1>9. inFlight' + leaked + One(call[p].at \in {"calling", "settling"})
        = inFlight + leaked' + One(c.at \in {"calling", "settling"})
  BY <1>1, <1>3, <1>4, <1>5 DEF One, rate, LimitsTypeOK
<1>. QED
  BY <1>1, <1>3, <1>4, <1>5, <1>6, <1>7, <1>8, <1>9, Quiet

LEMMA PanicStep ==
  ASSUME LimitsInv, NEW p \in Caller, Panic(p)
  PROVE  LimitsInv'
<1>. DEFINE c == [call[p] EXCEPT !.at = "freeing", !.result = "panic", !.since = today]
<1>. HIDE DEF c
<1>0. c = [call[p] EXCEPT !.at = "freeing", !.result = "panic", !.since = today]
  BY DEF c
<1>1. LimitsTypeOK /\ today \in Day /\ today \in Nat /\ call[p] \in Call
  BY DEF LimitsInv, LimitsTypeOK, Day
<1>2. /\ c \in Call /\ c.at = "freeing" /\ c.since = today /\ c.held = call[p].held
  BY <1>0, <1>1 DEF Call, Step, Result
<1>3. SetCall(p, c) /\ call[p].at = "calling" /\ leaked' = leaked + 1
  BY DEF Panic, At, c
<1>4. UNCHANGED <<clock, daily, rate, recorded, covered, rewound>>
  BY DEF Panic
<1>5. LimitsTypeOK'
  BY <1>1, <1>2, <1>3, <1>4, OneCall DEF LimitsTypeOK, clock, daily, rate
<1>6. \A d \in Day : ~Waits(c, d)
  BY <1>2 DEF Waits
<1>7. inFlight' + leaked + One(call[p].at \in {"calling", "settling"})
        = inFlight + leaked' + One(c.at \in {"calling", "settling"})
  BY <1>1, <1>2, <1>3, <1>4 DEF One, rate, LimitsTypeOK
<1>. QED
  BY <1>1, <1>2, <1>3, <1>4, <1>5, <1>6, <1>7, Quiet

LEMMA AcquireStep ==
  ASSUME LimitsInv, NEW p \in Caller, Acquire(p)
  PROVE  LimitsInv'
<1>1. LimitsTypeOK /\ today \in Day /\ today \in Nat /\ call[p] \in Call
  BY DEF LimitsInv, LimitsTypeOK, Day
<1>2. call[p].at = "acquiring" /\ UNCHANGED <<clock, daily, recorded, covered, rewound, leaked>>
  BY DEF Acquire, At
<1>3. PICK start \in Now(p) : \E now \in start .. today :
        LET n == IF window = now THEN windowTokens ELSE 0
            c == [call[p] EXCEPT !.since = today]
        IN  /\ window' = now
            /\ \/ /\ inFlight' = inFlight + 1
                  /\ windowTokens' = n + Estimate
                  /\ SetCall(p, [c EXCEPT !.at = "calling", !.start = start,
                                          !.counted = now])
               \/ /\ UNCHANGED inFlight /\ windowTokens' = n
                  /\ SetCall(p, [c EXCEPT !.at = "freeing", !.result = "limit"])
  BY DEF Acquire
<1>4. PICK now \in start .. today :
        LET n == IF window = now THEN windowTokens ELSE 0
            c == [call[p] EXCEPT !.since = today]
        IN  /\ window' = now
            /\ \/ /\ inFlight' = inFlight + 1
                  /\ windowTokens' = n + Estimate
                  /\ SetCall(p, [c EXCEPT !.at = "calling", !.start = start,
                                          !.counted = now])
               \/ /\ UNCHANGED inFlight /\ windowTokens' = n
                  /\ SetCall(p, [c EXCEPT !.at = "freeing", !.result = "limit"])
  BY <1>3
<1>5. start \in Day /\ now \in Day /\ call[p].since <= start
  BY <1>1, NowIsDay
<1>6. window' \in Day /\ windowTokens' \in Nat /\ inFlight' \in Nat
  BY <1>1, <1>4, <1>5, LimitAssumption DEF LimitsTypeOK
<1>. DEFINE b == [call[p] EXCEPT !.since = today]
            c == [b EXCEPT !.at = "calling", !.start = start, !.counted = now]
            e == [b EXCEPT !.at = "freeing", !.result = "limit"]
<1>7. b \in Call /\ b.since = today /\ b.held = call[p].held
  BY <1>1 DEF Call
<1>8. \/ inFlight' = inFlight + 1 /\ SetCall(p, c)
      \/ inFlight' = inFlight /\ SetCall(p, e)
  BY <1>4
<1>. HIDE DEF b
<1>9. CASE inFlight' = inFlight + 1 /\ SetCall(p, c)
  <2>. HIDE DEF c
  <2>1. c = [b EXCEPT !.at = "calling", !.start = start, !.counted = now]
    BY DEF c
  <2>2. /\ c \in Call /\ c.at = "calling" /\ c.start = start /\ c.since = today
        /\ c.held = call[p].held
    BY <1>5, <1>7, <2>1 DEF Call, Step
  <2>3. LimitsTypeOK'
    BY <1>1, <1>2, <1>6, <1>9, <2>2, OneCall DEF LimitsTypeOK, clock, daily
  <2>4. call[p].held <= call[p].since
    BY <1>2 DEF LimitsInv, CallInv
  <2>5. \A d \in Day : Waits(c, d) => Waits(call[p], d)
    BY <1>1, <1>2, <1>5, <2>2, <2>4 DEF Waits, Call, Day, NoDay
  <2>6. inFlight' + leaked + One(call[p].at \in {"calling", "settling"})
          = inFlight + leaked' + One(c.at \in {"calling", "settling"})
    BY <1>1, <1>2, <1>9, <2>2 DEF One, LimitsTypeOK
  <2>. QED
    BY <1>1, <1>2, <1>5, <1>9, <2>2, <2>3, <2>5, <2>6, Quiet
<1>10. CASE inFlight' = inFlight /\ SetCall(p, e)
  <2>. HIDE DEF e
  <2>1. e = [b EXCEPT !.at = "freeing", !.result = "limit"]
    BY DEF e
  <2>2. /\ e \in Call /\ e.at = "freeing" /\ e.since = today
        /\ e.held = call[p].held
    BY <1>7, <2>1 DEF Call, Step, Result
  <2>3. LimitsTypeOK'
    BY <1>1, <1>2, <1>6, <1>10, <2>2, OneCall DEF LimitsTypeOK, clock, daily
  <2>4. \A d \in Day : ~Waits(e, d)
    BY <2>2 DEF Waits
  <2>5. inFlight' + leaked + One(call[p].at \in {"calling", "settling"})
          = inFlight + leaked' + One(e.at \in {"calling", "settling"})
    BY <1>1, <1>2, <1>10, <2>2 DEF One, LimitsTypeOK
  <2>. QED
    BY <1>1, <1>2, <1>10, <2>2, <2>3, <2>4, <2>5, Quiet
<1>. QED
  BY <1>8, <1>9, <1>10

LEMMA SettleStep ==
  ASSUME LimitsInv, NEW p \in Caller, Settle(p)
  PROVE  LimitsInv'
<1>1. LimitsTypeOK /\ today \in Day /\ today \in Nat /\ call[p] \in Call
  BY DEF LimitsInv, LimitsTypeOK, Day
<1>2. /\ call[p].at = "settling" /\ inFlight' = Monus(inFlight, 1)
      /\ UNCHANGED <<clock, daily, recorded, covered, rewound, leaked, window>>
  BY DEF Settle, At
<1>. DEFINE at == IF call[p].result = "answer" THEN "recording" ELSE "freeing"
            c == [call[p] EXCEPT !.at = at, !.since = today]
<1>3. SetCall(p, c)
  BY DEF Settle
<1>. HIDE DEF c
<1>0. c = [call[p] EXCEPT !.at = at, !.since = today]
  BY DEF c
<1>4. at \in {"recording", "freeing"}
  OBVIOUS
<1>. HIDE DEF at
<1>5. /\ c \in Call /\ c.at = at /\ c.since = today /\ c.held = call[p].held
      /\ c.start = call[p].start
  BY <1>0, <1>1, <1>4 DEF Call, Step
<1>6. windowTokens' \in Nat
  <2>1. call[p].used \in Nat /\ windowTokens \in Nat /\ Estimate \in Nat
    BY <1>1, LimitAssumption DEF LimitsTypeOK, Call
  <2>. QED
    BY <2>1 DEF Settle, Monus
<1>7. inFlight > 0
  <2>1. Cardinality(UnderWay(call)) # 0
    <3>1. p \in UnderWay(call)
      BY <1>2 DEF UnderWay
    <3>. QED
      BY <3>1, FiniteSets, FS_EmptySet
  <2>. QED
    BY <2>1, <1>1, FiniteSets DEF LimitsInv, CountersAreTrue, LimitsTypeOK
<1>8. inFlight' = inFlight - 1 /\ inFlight' \in Nat
  BY <1>1, <1>2, <1>7 DEF Monus, LimitsTypeOK
<1>9. LimitsTypeOK'
  BY <1>1, <1>2, <1>3, <1>5, <1>6, <1>8, OneCall DEF LimitsTypeOK, clock, daily
<1>10. c.start \in Day
  BY <1>2, <1>5 DEF LimitsInv, CallInv
<1>11. \A d \in Day : Waits(c, d) => Waits(call[p], d)
  BY <1>2, <1>4, <1>5 DEF Waits
<1>12. inFlight' + leaked + One(call[p].at \in {"calling", "settling"})
        = inFlight + leaked' + One(c.at \in {"calling", "settling"})
  BY <1>1, <1>2, <1>4, <1>5, <1>8 DEF One, LimitsTypeOK
<1>. QED
  BY <1>1, <1>2, <1>3, <1>4, <1>5, <1>9, <1>10, <1>11, <1>12, Quiet

(* What a call has been covered by its reservation is no more than it.      *)
LEMMA CoveredBound ==
  ASSUME LimitsTypeOK, NEW p \in Caller
  PROVE  /\ Covered(p) \in Nat /\ Covered(p) <= call[p].used
         /\ Covered(p) <= Estimate
         /\ call[p].held # call[p].start => Covered(p) = 0
         /\ call[p].used \in Nat
BY LimitAssumption DEF LimitsTypeOK, Call, Covered

LEMMA Added ==
  ASSUME NEW f \in [Day -> Nat], NEW d \in Day, NEW n \in Nat
  PROVE  /\ Add(f, d, n) \in [Day -> Nat]
         /\ \A e \in Day : Add(f, d, n)[e] = IF e = d THEN f[e] + n ELSE f[e]
BY DEF Add

LEMMA RecordStep ==
  ASSUME LimitsInv, NEW p \in Caller, Record(p)
  PROVE  LimitsInv'
<1>. DEFINE c == [call[p] EXCEPT !.at = "freeing", !.since = today]
            s == call[p].start
<1>1. LimitsTypeOK /\ today \in Day /\ today \in Nat /\ call[p] \in Call
  BY DEF LimitsInv, LimitsTypeOK, Day
<1>2. /\ call[p].at = "recording" /\ SetCall(p, c)
      /\ UNCHANGED <<clock, daily, rate, rewound, leaked>>
  BY DEF Record, At
<1>. HIDE DEF c
<1>0. c = [call[p] EXCEPT !.at = "freeing", !.since = today]
  BY DEF c
<1>3. /\ c \in Call /\ c.at = "freeing" /\ c.since = today /\ c.held = call[p].held
  BY <1>0, <1>1 DEF Call, Step
<1>4. s \in Day
  BY <1>2 DEF LimitsInv, CallInv
<1>. HIDE DEF s
<1>5. \A d \in Day : ~Waits(c, d)
  BY <1>3 DEF Waits
<1>6. inFlight' + leaked + One(call[p].at \in {"calling", "settling"})
        = inFlight + leaked' + One(c.at \in {"calling", "settling"})
  BY <1>1, <1>2, <1>3 DEF One, rate, LimitsTypeOK
<1>7. CASE UNCHANGED <<recorded, covered>>
  <2>1. LimitsTypeOK'
    BY <1>1, <1>2, <1>3, <1>7, OneCall DEF LimitsTypeOK, clock, daily, rate
  <2>. QED
    BY <1>1, <1>2, <1>3, <1>5, <1>6, <1>7, <2>1, Quiet
<1>8. CASE /\ recorded' = Add(recorded, s, call[p].used)
           /\ covered' = Add(covered, s, Covered(p))
  <2>1. /\ \A d \in Day : recorded'[d] =
             IF d = s THEN recorded[d] + call[p].used ELSE recorded[d]
        /\ \A d \in Day : covered'[d] =
             IF d = s THEN covered[d] + Covered(p) ELSE covered[d]
        /\ recorded' \in [Day -> Nat] /\ covered' \in [Day -> Nat]
    <3>1. recorded \in [Day -> Nat] /\ covered \in [Day -> Nat]
          /\ call[p].used \in Nat /\ Covered(p) \in Nat
      BY <1>1, CoveredBound DEF LimitsTypeOK
    <3>. DEFINE u == call[p].used  v == Covered(p)
                f == recorded  g == covered
    <3>2. f \in [Day -> Nat] /\ g \in [Day -> Nat] /\ u \in Nat /\ v \in Nat
          /\ recorded' = Add(f, s, u) /\ covered' = Add(g, s, v)
      BY <1>8, <3>1
    <3>. HIDE DEF u, v, f, g
    <3>3. /\ Add(f, s, u) \in [Day -> Nat] /\ Add(g, s, v) \in [Day -> Nat]
          /\ \A d \in Day : Add(f, s, u)[d] = IF d = s THEN f[d] + u ELSE f[d]
          /\ \A d \in Day : Add(g, s, v)[d] = IF d = s THEN g[d] + v ELSE g[d]
      BY <1>4, <3>2, Added
    <3>. QED
      BY <3>2, <3>3 DEF u, v, f, g
  <2>2. LimitsTypeOK'
    BY <1>1, <1>2, <1>3, <2>1, OneCall DEF LimitsTypeOK, clock, daily, rate
  <2>3. /\ call' \in [Caller -> Call]
        /\ \A q \in Caller : call'[q] = IF q = p THEN c ELSE call[q]
        /\ Cardinality(UnderWay(call')) + One(call[p].at \in {"calling", "settling"})
             = Cardinality(UnderWay(call)) + One(c.at \in {"calling", "settling"})
        /\ \A d \in Day : Cardinality(Holders(call', d)) + One(call[p].held = d)
             = Cardinality(Holders(call, d)) + One(c.held = d)
        /\ \A d \in Day : Cardinality(Waiting(call', d)) + One(Waits(call[p], d))
             = Cardinality(Waiting(call, d)) + One(Waits(c, d))
    BY <1>1, <1>2, <1>3, OneCall
  <2>4. UNCHANGED <<today, day, reserved, inFlight, leaked, rewound>>
    BY <1>2 DEF clock, daily, rate
  <2>5. CallInv'
    BY <1>1, <1>3, <2>3, <2>4 DEF LimitsInv, CallInv
  <2>6. CountersAreTrue'
    <3>1. inFlight' = Cardinality(UnderWay(call')) + leaked'
      BY <1>2, <1>3, <2>3, <2>4, FiniteSets DEF LimitsInv, CountersAreTrue, One
    <3>2. Cardinality(Holders(call', day)) = Cardinality(Holders(call, day))
      <4>1. CASE day \in Day
        BY <4>1, <1>3, <2>3, FiniteSets DEF One
      <4>2. CASE day = NoDay
        BY <4>2 DEF Holders
      <4>. QED
        BY <1>1, <4>1, <4>2 DEF LimitsTypeOK
    <3>. QED
      BY <3>1, <3>2, <2>4 DEF LimitsInv, CountersAreTrue
  <2>7. CoverInv'
    <3>. SUFFICES ASSUME NEW d \in Day
                  PROVE  /\ covered'[d] <= recorded'[d]
                         /\ d \notin rewound =>
                              covered'[d] + Estimate * Cardinality(Waiting(call', d))
                                <= DailyLimit
      BY <2>4 DEF CoverInv
    <3>1. /\ covered[d] \in Nat /\ recorded[d] \in Nat /\ covered[d] <= recorded[d]
          /\ d \notin rewound =>
               covered[d] + Estimate * Cardinality(Waiting(call, d)) <= DailyLimit
      BY <1>1 DEF LimitsTypeOK, LimitsInv, CoverInv
    <3>2. covered'[d] <= recorded'[d]
      BY <1>1, <2>1, <3>1, CoveredBound
    <3>. DEFINE m == Cardinality(Waiting(call', d))
                n == Cardinality(Waiting(call, d))
    <3>3. m \in Nat /\ n \in Nat
      BY FiniteSets
    <3>4. m + One(Waits(call[p], d)) = n + One(Waits(c, d))
      BY <2>3
    <3>. HIDE DEF m, n
    <3>5. covered'[d] + Estimate * m <= covered[d] + Estimate * n
      <4>1. CASE Waits(call[p], d)
        <5>1. n = m + 1
          BY <1>5, <3>3, <3>4, <4>1 DEF One
        <5>2. Estimate * n = Estimate * m + Estimate /\ Estimate * m \in Nat
          BY <5>1, <3>3, Times
        <5>3. covered'[d] <= covered[d] + Estimate
          BY <1>1, <2>1, <3>1, CoveredBound, LimitAssumption
        <5>4. covered'[d] \in Nat /\ Estimate \in Nat
          BY <2>1, LimitAssumption
        <5>. DEFINE x == Estimate * m  y == Estimate * n
        <5>5. x \in Nat /\ y = x + Estimate
          BY <5>2
        <5>. HIDE DEF x, y
        <5>6. covered'[d] + x <= covered[d] + y
          BY <3>1, <5>3, <5>4, <5>5
        <5>. QED
          BY <5>6 DEF x, y
      <4>2. CASE ~Waits(call[p], d)
        <5>1. m = n
          BY <1>5, <3>3, <3>4, <4>2 DEF One
        <5>2. d # s \/ call[p].held # s
          BY <1>2, <4>2 DEF Waits, s
        <5>3. covered'[d] = covered[d]
          BY <1>1, <2>1, <3>1, <5>2, CoveredBound DEF s
        <5>4. Estimate * n \in Nat
          BY <3>3, Times
        <5>. QED
          BY <3>1, <5>1, <5>3, <5>4
      <4>. QED
        BY <4>1, <4>2
    <3>6. /\ Estimate * m \in Nat /\ Estimate * n \in Nat
          /\ covered'[d] \in Nat /\ DailyLimit \in Nat
      BY <2>1, <3>3, Times, LimitAssumption
    <3>7. d \notin rewound => covered'[d] + Estimate * m <= DailyLimit
      <4>. DEFINE x == Estimate * m  y == Estimate * n
      <4>1. /\ x \in Nat /\ y \in Nat /\ covered'[d] + x <= covered[d] + y
            /\ d \notin rewound => covered[d] + y <= DailyLimit
        BY <3>1, <3>5, <3>6 DEF n
      <4>. HIDE DEF x, y
      <4>2. d \notin rewound => covered'[d] + x <= DailyLimit
        BY <3>1, <3>6, <4>1
      <4>. QED
        BY <4>2 DEF x
    <3>. QED
      BY <3>2, <3>7 DEF m
  <2>. QED
    BY <2>2, <2>5, <2>6, <2>7 DEF LimitsInv
<1>. QED
  BY <1>7, <1>8 DEF Record, s

LEMMA FreeStep ==
  ASSUME LimitsInv, NEW p \in Caller, Free(p)
  PROVE  LimitsInv'
<1>1. LimitsTypeOK /\ today \in Day /\ today \in Nat /\ 1 <= today /\ call[p] \in Call
  BY DEF LimitsInv, LimitsTypeOK, Day
<1>2. /\ call[p].at = "freeing" /\ SetCall(p, NoCall)
      /\ UNCHANGED <<clock, day, rate, recorded, covered, rewound, leaked>>
      /\ reserved' = IF call[p].held # NoDay /\ call[p].held = day
                       THEN Monus(reserved, Estimate) ELSE reserved
  BY DEF Free, At
<1>3. NoCall \in Call /\ NoCall.held = NoDay /\ NoCall.at = "none" /\ NoCall.since = 1
  BY NoCallIsCall DEF NoCall
<1>4. \A d \in Day : ~Waits(NoCall, d) /\ ~Waits(call[p], d)
  BY <1>2, <1>3 DEF Waits
<1>5. reserved' \in Nat
  BY <1>1, <1>2, LimitAssumption DEF Monus, LimitsTypeOK
<1>6. LimitsTypeOK'
  BY <1>1, <1>2, <1>3, <1>5, OneCall DEF LimitsTypeOK, clock, rate
<1>7. /\ call' \in [Caller -> Call]
      /\ \A q \in Caller : call'[q] = IF q = p THEN NoCall ELSE call[q]
      /\ Cardinality(UnderWay(call')) + One(call[p].at \in {"calling", "settling"})
           = Cardinality(UnderWay(call)) + One(NoCall.at \in {"calling", "settling"})
      /\ \A d \in Day : Cardinality(Holders(call', d)) + One(call[p].held = d)
           = Cardinality(Holders(call, d)) + One(NoCall.held = d)
      /\ \A d \in Day : Cardinality(Waiting(call', d)) + One(Waits(call[p], d))
           = Cardinality(Waiting(call, d)) + One(Waits(NoCall, d))
  BY <1>1, <1>2, <1>3, OneCall
<1>8. UNCHANGED <<today, day, inFlight, recorded, covered, leaked, rewound>>
  BY <1>2 DEF clock, rate
<1>9. CallInv'
  BY <1>1, <1>3, <1>7, <1>8 DEF LimitsInv, CallInv
<1>10. CountersAreTrue'
  <2>1. inFlight' = Cardinality(UnderWay(call')) + leaked'
    BY <1>2, <1>3, <1>7, <1>8, FiniteSets DEF LimitsInv, CountersAreTrue, One
  <2>2. ASSUME day \notin rewound
        PROVE  reserved' = Estimate * Cardinality(Holders(call', day))
    <3>. DEFINE m == Cardinality(Holders(call', day))
                n == Cardinality(Holders(call, day))
    <3>1. m \in Nat /\ n \in Nat /\ reserved = Estimate * n
      BY <2>2, FiniteSets DEF LimitsInv, CountersAreTrue
    <3>2. CASE day = NoDay
      <4>1. m = n
        BY <3>2 DEF Holders
      <4>. QED
        BY <3>1, <3>2, <4>1, <1>2
    <3>3. CASE day \in Day /\ call[p].held = day
      <4>1. n = m + 1
        BY <1>3, <1>7, <3>1, <3>3 DEF One, Day, NoDay
      <4>. HIDE DEF m, n
      <4>2. Estimate * n = Estimate * m + Estimate /\ Estimate * m \in Nat
        BY <3>1, <4>1, Times
      <4>3. reserved' = Monus(reserved, Estimate)
        BY <1>2, <3>3 DEF Day, NoDay
      <4>. DEFINE x == Estimate * m
      <4>4. x \in Nat /\ reserved = x + Estimate
        BY <3>1, <4>2
      <4>. HIDE DEF x
      <4>5. reserved' = x
        BY <4>3, <4>4, LimitAssumption DEF Monus
      <4>. QED
        BY <4>5 DEF x, m
    <3>4. CASE day \in Day /\ call[p].held # day
      <4>1. m = n
        BY <1>3, <1>7, <3>1, <3>4 DEF One, Day, NoDay
      <4>. QED
        BY <1>2, <3>1, <3>4, <4>1
    <3>. QED
      BY <1>1, <3>2, <3>3, <3>4 DEF LimitsTypeOK
  <2>. QED
    BY <1>8, <2>1, <2>2 DEF CountersAreTrue
<1>11. CoverInv'
  <2>1. ASSUME NEW d \in Day
        PROVE  Cardinality(Waiting(call', d)) = Cardinality(Waiting(call, d))
    BY <1>4, <1>7, FiniteSets DEF One
  <2>. QED
    BY <1>8, <2>1 DEF LimitsInv, CoverInv
<1>. QED
  BY <1>6, <1>9, <1>10, <1>11 DEF LimitsInv

(* The counter of the day that begins, or goes on, is worth what is held.   *)
LEMMA ReservedForNow ==
  ASSUME LimitsInv, NEW now \in Day, now \notin rewound,
         now < day => FALSE
  PROVE  (IF day = now THEN reserved ELSE 0) = Estimate * Cardinality(Holders(call, now))
<1>1. CASE day = now
  BY <1>1 DEF LimitsInv, CountersAreTrue
<1>2. CASE day # now
  <2>1. day < now
    BY <1>2 DEF LimitsInv, LimitsTypeOK, Day, NoDay
  <2>2. Holders(call, now) = {}
    BY <2>1 DEF Holders, LimitsInv, CallInv, LimitsTypeOK, Day, NoDay
  <2>3. Estimate * Cardinality(Holders(call, now)) = 0
    BY <2>2, FS_EmptySet, Times
  <2>. QED
    BY <1>2, <2>3
<1>. QED
  BY <1>1, <1>2

LEMMA ReserveStep ==
  ASSUME LimitsInv, NEW p \in Caller, Reserve(p)
  PROVE  LimitsInv'
<1>1. LimitsTypeOK /\ today \in Day /\ today \in Nat /\ call[p] \in Call
  BY DEF LimitsInv, LimitsTypeOK, Day
<1>2. /\ call[p].at = "reserving" /\ call[p].held = NoDay
      /\ UNCHANGED <<clock, rate, recorded, covered, leaked>>
  BY DEF Reserve, At, LimitsInv, CallInv
<1>. DEFINE b == [call[p] EXCEPT !.since = today]
<1>3. PICK now \in Now(p) :
        LET r == IF day = now THEN reserved ELSE 0
            c == [call[p] EXCEPT !.since = today]
        IN
        /\ day' = now
        /\ rewound' = IF day > now THEN rewound \cup now .. day ELSE rewound
        /\ \/ /\ WithinDailyLimit(r)
              /\ reserved' = r + Estimate
              /\ SetCall(p, [c EXCEPT !.at = "acquiring", !.held = now])
           \/ /\ ~WithinDailyLimit(r)
              /\ reserved' = r
              /\ SetCall(p, [c EXCEPT !.at = "freeing", !.result = "limit"])
           \/ /\ reserved' = r
              /\ SetCall(p, [c EXCEPT !.at = "freeing", !.result = "error"])
  BY DEF Reserve
<1>. DEFINE r == IF day = now THEN reserved ELSE 0
            c == [b EXCEPT !.at = "acquiring", !.held = now]
            e == [b EXCEPT !.at = "freeing", !.result = "limit"]
            f == [b EXCEPT !.at = "freeing", !.result = "error"]
<1>4. /\ day' = now
      /\ rewound' = IF day > now THEN rewound \cup now .. day ELSE rewound
      /\ \/ WithinDailyLimit(r) /\ reserved' = r + Estimate /\ SetCall(p, c)
         \/ reserved' = r /\ (SetCall(p, e) \/ SetCall(p, f))
  BY <1>3
<1>5. b \in Call /\ b.since = today /\ b.held = NoDay /\ b.at = "reserving"
  BY <1>1, <1>2 DEF Call
<1>6. now \in Day /\ now <= today
  BY <1>1, NowIsDay
<1>7. r \in Nat
  BY <1>1 DEF LimitsTypeOK
<1>. HIDE DEF b, c, e, f
<1>8. /\ c \in Call /\ c.at = "acquiring" /\ c.held = now /\ c.since = today
  <2>1. c = [b EXCEPT !.at = "acquiring", !.held = now]
    BY DEF c
  <2>. QED
    BY <1>5, <1>6, <2>1 DEF Call, Step
<1>9. /\ e \in Call /\ e.at = "freeing" /\ e.held = NoDay /\ e.since = today
      /\ f \in Call /\ f.at = "freeing" /\ f.held = NoDay /\ f.since = today
  <2>1. /\ e = [b EXCEPT !.at = "freeing", !.result = "limit"]
        /\ f = [b EXCEPT !.at = "freeing", !.result = "error"]
    BY DEF e, f
  <2>. QED
    BY <1>5, <2>1 DEF Call, Step, Result
<1>10. PICK g \in Call :
         /\ SetCall(p, g) /\ g.since = today
         /\ \/ /\ WithinDailyLimit(r) /\ reserved' = r + Estimate
               /\ g.at = "acquiring" /\ g.held = now
            \/ reserved' = r /\ g.at = "freeing" /\ g.held = NoDay
  BY <1>4, <1>8, <1>9
<1>. HIDE DEF r
<1>11. /\ call' \in [Caller -> Call]
       /\ \A q \in Caller : call'[q] = IF q = p THEN g ELSE call[q]
       /\ Cardinality(UnderWay(call')) + One(call[p].at \in {"calling", "settling"})
            = Cardinality(UnderWay(call)) + One(g.at \in {"calling", "settling"})
       /\ \A d \in Day : Cardinality(Holders(call', d)) + One(call[p].held = d)
            = Cardinality(Holders(call, d)) + One(g.held = d)
       /\ \A d \in Day : Cardinality(Waiting(call', d)) + One(Waits(call[p], d))
            = Cardinality(Waiting(call, d)) + One(Waits(g, d))
  BY <1>1, <1>10, OneCall
<1>12. UNCHANGED <<today, inFlight, window, windowTokens, recorded, covered, leaked>>
  BY <1>2 DEF clock, rate
<1>13. rewound' \subseteq Day /\ rewound \subseteq rewound'
  <2>1. day > now => now .. day \subseteq Day
    BY <1>1, <1>6, LimitAssumption DEF LimitsTypeOK, Day, NoDay
  <2>. QED
    BY <1>1, <1>4, <2>1 DEF LimitsTypeOK
<1>14. LimitsTypeOK'
  <2>1. reserved' \in Nat
    BY <1>7, <1>10, LimitAssumption
  <2>. QED
    BY <1>1, <1>4, <1>6, <1>11, <1>12, <1>13, <2>1 DEF LimitsTypeOK
<1>15. CallInv'
  <2>. SUFFICES ASSUME NEW q \in Caller
                PROVE  /\ call'[q].since <= today
                       /\ call'[q].at \in {"none", "reserving"} => call'[q].held = NoDay
                       /\ call'[q].at = "acquiring" => call'[q].held <= call'[q].since
                       /\ call'[q].at \in {"calling", "settling", "recording"} =>
                            call'[q].start \in Day
                       /\ call'[q].held # NoDay /\ call'[q].held \notin rewound' =>
                            call'[q].held <= now
    BY <1>4, <1>12 DEF CallInv
  <2>1. CASE q = p
    BY <1>1, <1>6, <1>10, <1>11, <2>1 DEF Day
  <2>2. CASE q # p
    <3>1. call'[q] = call[q] /\ call[q] \in Call
      BY <1>1, <1>11, <2>2 DEF LimitsTypeOK
    <3>2. call[q].held # NoDay /\ call[q].held \notin rewound' => call[q].held <= now
      BY <1>1, <1>4, <1>6, <3>1 DEF LimitsInv, CallInv, LimitsTypeOK, Day, NoDay, Call
    <3>. QED
      BY <3>1, <3>2 DEF LimitsInv, CallInv
  <2>. QED
    BY <2>1, <2>2
<1>16. ASSUME now \notin rewound'
       PROVE  r = Estimate * Cardinality(Holders(call, now))
  <2>1. now \notin rewound /\ ~(now < day)
    BY <1>1, <1>4, <1>6, <1>13, <1>16 DEF LimitsTypeOK, Day, NoDay
  <2>. QED
    BY <1>6, <2>1, ReservedForNow DEF r
<1>17. CountersAreTrue'
  <2>1. inFlight' = Cardinality(UnderWay(call')) + leaked'
    BY <1>2, <1>10, <1>11, <1>12, FiniteSets DEF LimitsInv, CountersAreTrue, One
  <2>2. ASSUME now \notin rewound'
        PROVE  reserved' = Estimate * Cardinality(Holders(call', now))
    <3>. DEFINE m == Cardinality(Holders(call', now))
                n == Cardinality(Holders(call, now))
    <3>1. m \in Nat /\ n \in Nat /\ r = Estimate * n
      BY <1>16, <2>2, FiniteSets
    <3>2. m = IF g.held = now THEN n + 1 ELSE n
      BY <1>2, <1>6, <1>11, <3>1 DEF One, Day, NoDay
    <3>. HIDE DEF m, n
    <3>3. Estimate * (n + 1) = Estimate * n + Estimate
      BY <3>1, Times
    <3>4. reserved' = IF g.held = now THEN r + Estimate ELSE r
      BY <1>6, <1>10 DEF Day, NoDay
    <3>5. reserved' = Estimate * m
      BY <3>1, <3>2, <3>3, <3>4
    <3>. QED
      BY <3>5 DEF m
  <2>. QED
    BY <1>4, <2>1, <2>2 DEF CountersAreTrue
<1>18. CoverInv'
  <2>. SUFFICES ASSUME NEW d \in Day, d \notin rewound'
                PROVE  covered[d] + Estimate * Cardinality(Waiting(call', d)) <= DailyLimit
    BY <1>12 DEF LimitsInv, CoverInv
  <2>. DEFINE m == Cardinality(Waiting(call', d))
              n == Cardinality(Waiting(call, d))
  <2>1. /\ covered[d] \in Nat /\ recorded[d] \in Nat /\ covered[d] <= recorded[d]
        /\ covered[d] + Estimate * n <= DailyLimit
    BY <1>1, <1>13 DEF LimitsTypeOK, LimitsInv, CoverInv
  <2>2. m \in Nat /\ n \in Nat
    BY FiniteSets
  <2>3. ~Waits(call[p], d)
    BY <1>2 DEF Waits
  <2>4. CASE Waits(g, d)
    <3>1. /\ WithinDailyLimit(r) /\ now = d /\ today = d
      BY <1>10, <2>4 DEF Waits, Day, NoDay
    <3>2. m = n + 1
      BY <1>11, <2>2, <2>3, <2>4 DEF One
    <3>. DEFINE h == Cardinality(Holders(call, d))
    <3>3. h \in Nat /\ n <= h /\ r = Estimate * h
      <4>1. h \in Nat /\ n <= h
        BY WaitingHold
      <4>2. r = Estimate * h
        BY <1>16, <3>1
      <4>. QED
        BY <4>1, <4>2
    <3>. HIDE DEF m, n, h
    <3>4. /\ Estimate * m = Estimate * n + Estimate /\ Estimate * n <= Estimate * h
          /\ Estimate * n \in Nat /\ Estimate * h \in Nat
      BY <2>2, <3>2, <3>3, Times
    <3>5. recorded[d] + r + Estimate <= DailyLimit
      BY <3>1 DEF WithinDailyLimit
    <3>. DEFINE x == Estimate * n  y == Estimate * m
    <3>6. x \in Nat /\ x <= r /\ y = x + Estimate
      BY <3>3, <3>4
    <3>. HIDE DEF x, y
    <3>7. covered[d] + y <= DailyLimit
      BY <1>7, <2>1, <3>5, <3>6, LimitAssumption
    <3>. QED
      BY <3>7 DEF y, m
  <2>5. CASE ~Waits(g, d)
    <3>1. m = n
      BY <1>11, <2>2, <2>3, <2>5 DEF One
    <3>. QED
      BY <2>1, <3>1
  <2>. QED
    BY <2>4, <2>5
<1>. QED
  BY <1>14, <1>15, <1>17, <1>18 DEF LimitsInv

LEMMA NextDayStep ==
  ASSUME LimitsInv, NextDay
  PROVE  LimitsInv'
<1>1. /\ today' = today + 1 /\ today < MaxDay
      /\ UNCHANGED <<day, reserved, inFlight, window, windowTokens, recorded, call,
                     covered, rewound, leaked>>
  BY DEF NextDay, daily, rate
<1>2. LimitsTypeOK'
  BY <1>1, LimitAssumption DEF LimitsInv, LimitsTypeOK, Day, NoDay
<1>3. CallInv'
  BY <1>1 DEF LimitsInv, CallInv, LimitsTypeOK, Day, Call
<1>4. CountersAreTrue' /\ CoverInv'
  BY <1>1 DEF LimitsInv, CountersAreTrue, CoverInv
<1>. QED
  BY <1>2, <1>3, <1>4 DEF LimitsInv

(* Nothing is held when no call is under way.                              *)
LEMMA NobodyCalls ==
  ASSUME NEW f, f = [p \in Caller |-> NoCall]
  PROVE  /\ Cardinality(UnderWay(f)) = 0
         /\ \A d : Cardinality(Holders(f, d)) = 0
         /\ \A d \in Day : Cardinality(Waiting(f, d)) = 0
<1>1. /\ UnderWay(f) = {}
      /\ \A d : Holders(f, d) = {}
      /\ \A d \in Day : Waiting(f, d) = {}
  BY DEF UnderWay, Holders, Waiting, Waits, NoCall
<1>. QED
  BY <1>1, FS_EmptySet

LEMMA LoseCallsStep ==
  ASSUME LimitsInv, LoseCalls
  PROVE  LimitsInv'
<1>1. /\ call' = [p \in Caller |-> NoCall] /\ leaked' = 0
      /\ day' = NoDay /\ reserved' = 0
      /\ inFlight' = 0 /\ window' = NoDay /\ windowTokens' = 0
      /\ UNCHANGED <<today, recorded, covered, rewound>>
  BY DEF LoseCalls, clock
<1>2. NoCall \in Call /\ NoCall.held = NoDay /\ NoCall.at = "none" /\ NoCall.since = 1
  BY NoCallIsCall DEF NoCall
<1>3. LimitsTypeOK'
  BY <1>1, <1>2 DEF LimitsInv, LimitsTypeOK, NoDay
<1>4. CallInv'
  BY <1>1, <1>2 DEF LimitsInv, CallInv, LimitsTypeOK, Day
<1>5. CountersAreTrue'
  BY <1>1, NobodyCalls, Times DEF CountersAreTrue
<1>6. CoverInv'
  <2>. SUFFICES ASSUME NEW d \in Day, d \notin rewound
                PROVE  covered[d] + Estimate * Cardinality(Waiting(call', d)) <= DailyLimit
    BY <1>1 DEF LimitsInv, CoverInv
  <2>1. Estimate * Cardinality(Waiting(call', d)) = 0
    BY <1>1, NobodyCalls, Times
  <2>. DEFINE x == Estimate * Cardinality(Waiting(call, d))
  <2>2. x \in Nat
    BY FiniteSets, Times
  <2>3. covered[d] \in Nat /\ covered[d] + x <= DailyLimit
    BY DEF LimitsInv, LimitsTypeOK, CoverInv
  <2>. HIDE DEF x
  <2>. QED
    BY <2>1, <2>2, <2>3, LimitAssumption
<1>. QED
  BY <1>3, <1>4, <1>5, <1>6 DEF LimitsInv

LEMMA LimitsBegin == LimitsInit => LimitsInv
<1>. SUFFICES ASSUME LimitsInit PROVE LimitsInv
  OBVIOUS
<1>1. NoCall \in Call /\ NoCall.held = NoDay /\ NoCall.at = "none" /\ NoCall.since = 1
  BY NoCallIsCall DEF NoCall
<1>2. LimitsTypeOK
  BY <1>1, LimitAssumption DEF LimitsInit, LimitsTypeOK, Day, NoDay
<1>3. CallInv
  BY <1>1 DEF LimitsInit, CallInv
<1>4. CountersAreTrue
  BY NobodyCalls, Times DEF LimitsInit, CountersAreTrue
<1>5. CoverInv
  <2>. SUFFICES ASSUME NEW d \in Day
                PROVE  Estimate * Cardinality(Waiting(call, d)) = 0
    BY LimitAssumption DEF LimitsInit, CoverInv
  <2>. QED
    BY NobodyCalls, Times DEF LimitsInit
<1>. QED
  BY <1>2, <1>3, <1>4, <1>5 DEF LimitsInv

-----------------------------------------------------------------------------
(* Steps of a request.                                                     *)

LEMMA RunTurnStep ==
  ASSUME TurnsInv, NEW r \in Request, RunTurn(r)
  PROVE  TurnsInv'
<1>1. TurnsTypeOK'
  BY RequestAssumption, TurnBoundAssumption
     DEF RunTurn, TurnsInv, TurnsTypeOK, Go, Stage, Outcome
<1>2. OwnerInv'
  BY RequestAssumption
     DEF RunTurn, TurnsInv, TurnsTypeOK, OwnerInv, EntriesExpire, Go, Stage
<1>3. EntriesExpire'
  BY RequestAssumption
     DEF RunTurn, TurnsInv, TurnsTypeOK, OwnerInv, EntriesExpire, Go, Stage
<1>. QED
  BY <1>1, <1>2, <1>3 DEF TurnsInv

LEMMA JoinedStep ==
  ASSUME TurnsInv, NEW r \in Request, Joined(r)
  PROVE  TurnsInv'
<1>1. TurnsTypeOK'
  BY RequestAssumption, TurnBoundAssumption
     DEF Joined, TurnsInv, TurnsTypeOK, Go, Stage, Outcome
<1>2. OwnerInv'
  BY RequestAssumption
     DEF Joined, TurnsInv, TurnsTypeOK, OwnerInv, EntriesExpire, Go, Stage
<1>3. EntriesExpire'
  BY RequestAssumption
     DEF Joined, TurnsInv, TurnsTypeOK, OwnerInv, EntriesExpire, Go, Stage
<1>. QED
  BY <1>1, <1>2, <1>3 DEF TurnsInv

LEMMA JoinedLeavesStep ==
  ASSUME TurnsInv, NEW r \in Request, JoinedLeaves(r)
  PROVE  TurnsInv'
<1>1. TurnsTypeOK'
  BY RequestAssumption, TurnBoundAssumption
     DEF JoinedLeaves, TurnsInv, TurnsTypeOK, Go, Stage, Outcome
<1>2. OwnerInv'
  BY RequestAssumption
     DEF JoinedLeaves, TurnsInv, TurnsTypeOK, OwnerInv, EntriesExpire, Go, Stage
<1>3. EntriesExpire'
  BY RequestAssumption
     DEF JoinedLeaves, TurnsInv, TurnsTypeOK, OwnerInv, EntriesExpire, Go, Stage
<1>. QED
  BY <1>1, <1>2, <1>3 DEF TurnsInv

LEMMA AdmitStep ==
  ASSUME TurnsInv, NEW r \in Request, Admit(r)
  PROVE  TurnsInv'
<1>1. TurnsTypeOK'
  BY RequestAssumption, TurnBoundAssumption
     DEF Admit, TurnsInv, TurnsTypeOK, Go, Stage, Outcome
<1>2. OwnerInv'
  BY RequestAssumption
     DEF Admit, TurnsInv, TurnsTypeOK, OwnerInv, EntriesExpire, Go, Stage
<1>3. EntriesExpire'
  BY RequestAssumption
     DEF Admit, TurnsInv, TurnsTypeOK, OwnerInv, EntriesExpire, Go, Stage
<1>. QED
  BY <1>1, <1>2, <1>3 DEF TurnsInv

LEMMA NotAdmittedStep ==
  ASSUME TurnsInv, NEW r \in Request, NotAdmitted(r)
  PROVE  TurnsInv'
<1>1. TurnsTypeOK'
  BY RequestAssumption, TurnBoundAssumption
     DEF NotAdmitted, Ends, TurnsInv, TurnsTypeOK, Go, Stage, Outcome
<1>2. OwnerInv'
  BY RequestAssumption
     DEF NotAdmitted, Ends, TurnsInv, TurnsTypeOK, OwnerInv, EntriesExpire, Go, Stage
<1>3. EntriesExpire'
  BY RequestAssumption
     DEF NotAdmitted, Ends, TurnsInv, TurnsTypeOK, OwnerInv, EntriesExpire, Go, Stage
<1>. QED
  BY <1>1, <1>2, <1>3 DEF TurnsInv

LEMMA CallModelStep ==
  ASSUME TurnsInv, NEW r \in Request, CallModel(r)
  PROVE  TurnsInv'
<1>1. TurnsTypeOK'
  BY RequestAssumption, TurnBoundAssumption
     DEF CallModel, TurnsInv, TurnsTypeOK, Go, Stage, Outcome
<1>2. OwnerInv'
  BY RequestAssumption
     DEF CallModel, TurnsInv, TurnsTypeOK, OwnerInv, EntriesExpire, Go, Stage
<1>3. EntriesExpire'
  BY RequestAssumption
     DEF CallModel, TurnsInv, TurnsTypeOK, OwnerInv, EntriesExpire, Go, Stage
<1>. QED
  BY <1>1, <1>2, <1>3 DEF TurnsInv

LEMMA ModelReturnsStep ==
  ASSUME TurnsInv, NEW r \in Request, ModelReturns(r)
  PROVE  TurnsInv'
<1>1. TurnsTypeOK'
  BY RequestAssumption, TurnBoundAssumption
     DEF ModelReturns, Ends, TurnsInv, TurnsTypeOK, Go, Stage, Outcome
<1>2. OwnerInv'
  BY RequestAssumption
     DEF ModelReturns, Ends, TurnsInv, TurnsTypeOK, OwnerInv, EntriesExpire, Go, Stage
<1>3. EntriesExpire'
  BY RequestAssumption
     DEF ModelReturns, Ends, TurnsInv, TurnsTypeOK, OwnerInv, EntriesExpire, Go, Stage
<1>. QED
  BY <1>1, <1>2, <1>3 DEF TurnsInv

LEMMA RunReturnsStep ==
  ASSUME TurnsInv, NEW r \in Request, RunReturns(r)
  PROVE  TurnsInv'
<1>1. TurnsTypeOK'
  BY RequestAssumption, TurnBoundAssumption
     DEF RunReturns, Ends, TurnsInv, TurnsTypeOK, Go, Stage, Outcome
<1>2. OwnerInv'
  BY RequestAssumption
     DEF RunReturns, Ends, TurnsInv, TurnsTypeOK, OwnerInv, EntriesExpire, Go, Stage
<1>3. EntriesExpire'
  BY RequestAssumption
     DEF RunReturns, Ends, TurnsInv, TurnsTypeOK, OwnerInv, EntriesExpire, Go, Stage
<1>. QED
  BY <1>1, <1>2, <1>3 DEF TurnsInv

LEMMA CloseDoneStep ==
  ASSUME TurnsInv, NEW r \in Request, CloseDone(r)
  PROVE  TurnsInv'
<1>1. TurnsTypeOK'
  BY RequestAssumption, TurnBoundAssumption
     DEF CloseDone, TurnsInv, TurnsTypeOK, Go, Stage, Outcome
<1>2. OwnerInv'
  BY RequestAssumption
     DEF CloseDone, TurnsInv, TurnsTypeOK, OwnerInv, EntriesExpire, Go, Stage
<1>3. EntriesExpire'
  BY RequestAssumption
     DEF CloseDone, TurnsInv, TurnsTypeOK, OwnerInv, EntriesExpire, Go, Stage
<1>. QED
  BY <1>1, <1>2, <1>3 DEF TurnsInv

LEMMA SetTimerStep ==
  ASSUME TurnsInv, NEW r \in Request, SetTimer(r)
  PROVE  TurnsInv'
<1>1. TurnsTypeOK'
  BY RequestAssumption, TurnBoundAssumption
     DEF SetTimer, TurnsInv, TurnsTypeOK, Go, Stage, Outcome
<1>2. OwnerInv'
  BY RequestAssumption
     DEF SetTimer, TurnsInv, TurnsTypeOK, OwnerInv, EntriesExpire, Go, Stage
<1>3. EntriesExpire'
  BY RequestAssumption
     DEF SetTimer, TurnsInv, TurnsTypeOK, OwnerInv, EntriesExpire, Go, Stage
<1>. QED
  BY <1>1, <1>2, <1>3 DEF TurnsInv

LEMMA EvictStep ==
  ASSUME TurnsInv, NEW r \in Request, Evict(r)
  PROVE  TurnsInv'
<1>1. TurnsTypeOK'
  BY RequestAssumption, TurnBoundAssumption
     DEF Evict, DeleteEntry, TurnsInv, TurnsTypeOK, Go, Stage, Outcome
<1>2. OwnerInv'
  BY RequestAssumption
     DEF Evict, DeleteEntry, TurnsInv, TurnsTypeOK, OwnerInv, EntriesExpire, Go, Stage
<1>3. EntriesExpire'
  BY RequestAssumption
     DEF Evict, DeleteEntry, TurnsInv, TurnsTypeOK, OwnerInv, EntriesExpire, Go, Stage
<1>. QED
  BY <1>1, <1>2, <1>3 DEF TurnsInv

LEMMA TimerFiresStep ==
  ASSUME TurnsInv, NEW r \in Request, TimerFires(r)
  PROVE  TurnsInv'
<1>1. TurnsTypeOK'
  BY RequestAssumption, TurnBoundAssumption
     DEF TimerFires, DeleteEntry, TurnsInv, TurnsTypeOK, Go, Stage, Outcome
<1>2. OwnerInv'
  BY RequestAssumption
     DEF TimerFires, DeleteEntry, TurnsInv, TurnsTypeOK, OwnerInv, EntriesExpire, Go, Stage
<1>3. EntriesExpire'
  BY RequestAssumption
     DEF TimerFires, DeleteEntry, TurnsInv, TurnsTypeOK, OwnerInv, EntriesExpire, Go, Stage
<1>. QED
  BY <1>1, <1>2, <1>3 DEF TurnsInv

LEMMA TurnsStay ==
  ASSUME TurnsInv, UNCHANGED turns, mishaps' \in 0 .. MaxMishap
  PROVE  TurnsInv'
BY DEF TurnsInv, TurnsTypeOK, OwnerInv, EntriesExpire, turns

LEMMA LimitsStay ==
  ASSUME LimitsInv, UNCHANGED limits
  PROVE  LimitsInv'
BY DEF LimitsInv, LimitsTypeOK, CallInv, CountersAreTrue, CoverInv, limits, clock,
       daily, rate

LEMMA RestartStep ==
  ASSUME LimitsInv, TurnsInv, Restart
  PROVE  LimitsInv' /\ TurnsInv'
<1>1. LimitsInv'
  BY LoseCallsStep DEF Restart
<1>2. TurnsTypeOK'
  BY TurnBoundAssumption DEF Restart, Mishap, TurnsInv, TurnsTypeOK, Stage, Outcome
<1>3. OwnerInv' /\ EntriesExpire'
  BY RequestAssumption DEF Restart, OwnerInv, EntriesExpire
<1>. QED
  BY <1>1, <1>2, <1>3 DEF TurnsInv

-----------------------------------------------------------------------------
(* The invariant of the composition.                                       *)

Inv == LimitsInv /\ TurnsInv

LEMMA Initially == Init => Inv
<1>. SUFFICES ASSUME Init PROVE Inv
  OBVIOUS
<1>1. LimitsInv
  BY LimitsBegin DEF Init
<1>2. TurnsInv
  BY RequestAssumption, TurnBoundAssumption
     DEF Init, TurnsInv, TurnsTypeOK, OwnerInv, EntriesExpire, Stage, Outcome
<1>. QED
  BY <1>1, <1>2 DEF Inv

LEMMA CallGoesOnStep ==
  ASSUME Inv, NEW p \in Caller, CallGoesOn(p)
  PROVE  Inv'
<1>1. LimitsInv'
  BY ReserveStep, AcquireStep, ContextEndedStep, AnswerStep, PanicStep, SettleStep,
     RecordStep DEF Inv, CallGoesOn, CallStep
<1>2. mishaps' \in 0 .. MaxMishap
  BY TurnBoundAssumption
     DEF CallGoesOn, Mishap, NoMishap, Inv, TurnsInv, TurnsTypeOK
<1>3. TurnsInv'
  BY <1>2, TurnsStay DEF CallGoesOn, Inv
<1>. QED
  BY <1>1, <1>3 DEF Inv

LEMMA RequestGoesOn ==
  ASSUME Inv, NEW r \in Request, RequestStep(r)
  PROVE  Inv'
<1>1. TurnsInv'
  BY RunTurnStep, JoinedStep, JoinedLeavesStep, AdmitStep, NotAdmittedStep,
     CallModelStep, ModelReturnsStep, RunReturnsStep, CloseDoneStep, SetTimerStep,
     EvictStep, TimerFiresStep DEF Inv, RequestStep
<1>2. r \in Caller
  BY RequestAssumption
<1>3. ASSUME CallModel(r)
      PROVE  LimitsInv'
  BY <1>2, <1>3, BeginCallStep DEF Inv, CallModel
<1>4. ASSUME ModelReturns(r)
      PROVE  LimitsInv'
  BY <1>2, <1>4, FreeStep DEF Inv, ModelReturns
<1>5. ASSUME UNCHANGED limits
      PROVE  LimitsInv'
  BY <1>5, LimitsStay DEF Inv
<1>6. CallModel(r) \/ ModelReturns(r) \/ UNCHANGED limits
  BY DEF RequestStep, RunTurn, Joined, JoinedLeaves, Admit, NotAdmitted, RunReturns,
         CloseDone, SetTimer, Evict, TimerFires
<1>7. LimitsInv'
  BY <1>3, <1>4, <1>5, <1>6
<1>. QED
  BY <1>1, <1>7 DEF Inv

LEMMA EveryStep == Inv /\ [Next]_vars => Inv'
<1>. SUFFICES ASSUME Inv, [Next]_vars
              PROVE  Inv'
  OBVIOUS
<1>1. ASSUME NEW r \in Request, RequestStep(r)
      PROVE  Inv'
  BY <1>1, RequestGoesOn
<1>2. ASSUME NEW p \in Caller, CallGoesOn(p)
      PROVE  Inv'
  BY <1>2, CallGoesOnStep
<1>3. ASSUME NEW p \in Caller, OtherCall(p)
      PROVE  Inv'
  <2>1. LimitsInv'
    BY <1>3, BeginCallStep, FreeStep DEF Inv, OtherCall
  <2>2. TurnsInv'
    BY <1>3, TurnsStay DEF Inv, OtherCall, TurnsInv, TurnsTypeOK
  <2>. QED
    BY <2>1, <2>2 DEF Inv
<1>4. ASSUME Midnight
      PROVE  Inv'
  <2>1. LimitsInv'
    BY <1>4, NextDayStep DEF Inv, Midnight
  <2>2. TurnsInv'
    BY <1>4, TurnsStay DEF Inv, Midnight, TurnsInv, TurnsTypeOK
  <2>. QED
    BY <2>1, <2>2 DEF Inv
<1>5. ASSUME Restart
      PROVE  Inv'
  BY <1>5, RestartStep DEF Inv
<1>6. ASSUME UNCHANGED vars
      PROVE  Inv'
  <2>1. LimitsInv'
    BY <1>6, LimitsStay DEF Inv, vars
  <2>2. TurnsInv'
    BY <1>6, TurnsStay DEF Inv, vars, TurnsInv, TurnsTypeOK
  <2>. QED
    BY <2>1, <2>2 DEF Inv
<1>. QED
  BY <1>1, <1>2, <1>3, <1>4, <1>5, <1>6 DEF Next

LEMMA Always == Spec => []Inv
BY Initially, EveryStep, PTL DEF Spec

(* The variables of the limits and of the shared turns keep their types, in *)
(* particular no counter goes below zero (llm_rate_limit.go settle, llm_daily*)
(* _token_limit.go settle).                                                *)
THEOREM TypeCorrect == Spec => []TypeOK
<1>1. Inv => TypeOK
  BY DEF Inv, LimitsInv, TurnsInv, TypeOK
<1>. QED
  BY <1>1, Always, PTL

(* The slots of the model's limiter and the daily reservations are worth    *)
(* what the calls under way hold, for any callers, errors, panics and days. *)
THEOREM CountersAreTrueThm == Spec => []CountersAreTrue
<1>1. Inv => CountersAreTrue
  BY DEF Inv, LimitsInv
<1>. QED
  BY <1>1, Always, PTL

(* However many calls are under way together, what they use within their    *)
(* reservations stays within the account's tokens of the day.              *)
THEOREM DailyLimitHoldsThm == Spec => []DailyLimitHolds
<1>1. Inv => DailyLimitHolds
  <2>. SUFFICES ASSUME Inv, NEW d \in Day, d \notin rewound
                PROVE  covered[d] <= DailyLimit
    BY DEF DailyLimitHolds
  <2>. DEFINE x == Estimate * Cardinality(Waiting(call, d))
  <2>1. x \in Nat
    BY FiniteSets, Times
  <2>2. covered[d] \in Nat /\ covered[d] + x <= DailyLimit
    BY DEF Inv, LimitsInv, LimitsTypeOK, CoverInv
  <2>. HIDE DEF x
  <2>. QED
    BY <2>1, <2>2, LimitAssumption
<1>. QED
  BY <1>1, Always, PTL

(* Requests with one turn id share one execution (AccountRuntime.RunTurn).  *)
THEOREM OneExecutionThm == Spec => []OneExecution
<1>1. Inv => OneExecution
  BY DEF Inv, TurnsInv, OwnerInv, OneExecution, Executes
<1>. QED
  BY <1>1, Always, PTL

(* No entry of the cache stays for ever, and nobody waits for an execution  *)
(* that is over without being told (runTurnOwner).                         *)
THEOREM EntriesExpireThm == Spec => []EntriesExpire
<1>1. Inv => EntriesExpire
  BY DEF Inv, TurnsInv
<1>. QED
  BY <1>1, Always, PTL

===============================================================================
