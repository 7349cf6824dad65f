------------------------- MODULE ChannelTurnsProofs -------------------------
(***************************************************************************)
(* Proofs about Admission and ChannelTurns for any finite set of turns,    *)
(* any scopes, messages, channels, limits and bounds.                      *)
(*                                                                         *)
(* Admission: the gates count without knowing whom, but every step that    *)
(* changes a count moves one turn into or out of those that are counted.   *)
(* So the counts are cardinalities (AccountInv, ScopeInv, QueueInv), a     *)
(* full gate has holders, and since turns inside others never ask          *)
(* (InnerInv), these holders go on.                                        *)
(*                                                                         *)
(* ChannelTurns: the server sees the gates only through the steps of       *)
(* Admission, so what holds of these holds here.  An answer, once it has a *)
(* row, has been sent or given up ever after when the row is gone          *)
(* (SettledStays); what the two goroutines that answer have come to with   *)
(* theirs is TaskOK, and no two of them have the same (DistinctInv), as    *)
(* answers are numbered by the jobs begun (FreshInv).                      *)
(*                                                                         *)
(* How often a message is handled is a balance (TakesInv): jobs begun,     *)
(* claims on the way in the two Go channels, and the one that may still be *)
(* made are at most one more than the reasons there were.  It needs that   *)
(* the table holds a message once (ArrivalInv).                            *)
(***************************************************************************)
EXTENDS ChannelTurns, FiniteSetTheorems, TLAPS

Count(f, H, U) == Cardinality({u \in U : f[u] \in H})
InScope(s) == {u \in Turn : ScopeOf[u] = s}

AccountInv ==
  MaxAccount > 0 =>
    accountUsed = Count(stage, HasAccount, Turn) /\ accountUsed <= MaxAccount

ScopeInv ==
  MaxScope > 0 =>
    \A s \in Scope :
      /\ scopeUsed[s] = Count(stage, HasScope, InScope(s))
      /\ scopeUsed[s] <= MaxScope

QueueInv == queued = Count(stage, HasPlace, Turn) /\ queued <= MaxQueue

(* A turn inside another is out of the gates, and its outer turn is where  *)
(* it was when the inner one started.                                      *)
InnerInv ==
  \A i \in Inner :
    \/ stage[i] = "out"
    \/ stage[i] = "nested" /\ stage[OuterOf[i]] = "running"
    \/ stage[i] = "old" /\ stage[OuterOf[i]] = "old"

IInv == AdmissionTypeOK /\ AccountInv /\ ScopeInv /\ QueueInv /\ InnerInv

-----------------------------------------------------------------------------

(* What the counts are after one turn has moved from a to b.               *)
LEMMA CountAfterMove ==
  ASSUME NEW f, NEW g, NEW H, NEW U, NEW t, IsFiniteSet(U),
         \A u \in U : u # t => g[u] = f[u]
  PROVE  /\ Count(f, H, U) \in Nat
         /\ t \notin U \/ (f[t] \in H <=> g[t] \in H) => Count(g, H, U) = Count(f, H, U)
         /\ t \in U /\ f[t] \notin H /\ g[t] \in H
              => Count(g, H, U) = Count(f, H, U) + 1
         /\ t \in U /\ f[t] \in H /\ g[t] \notin H
              => Count(g, H, U) = Count(f, H, U) - 1
<1>. DEFINE F == {u \in U : f[u] \in H}
            G == {u \in U : g[u] \in H}
<1>1. IsFiniteSet(F) /\ Cardinality(F) \in Nat
  BY FS_Subset, FS_CardinalityType
<1>2. ASSUME t \notin U \/ (f[t] \in H <=> g[t] \in H)
      PROVE  G = F
  BY <1>2
<1>3. ASSUME t \in U, f[t] \notin H, g[t] \in H
      PROVE  Cardinality(G) = Cardinality(F) + 1
  <2>1. t \notin F /\ G = F \cup {t}
    BY <1>3
  <2>. HIDE DEF F, G
  <2>. QED
    BY <1>1, <2>1, FS_AddElement
<1>4. ASSUME t \in U, f[t] \in H, g[t] \notin H
      PROVE  Cardinality(G) = Cardinality(F) - 1
  <2>1. t \in F /\ G = F \ {t}
    BY <1>4
  <2>. HIDE DEF F, G
  <2>. QED
    BY <1>1, <2>1, FS_RemoveElement
<1>. QED
  BY <1>1, <1>2, <1>3, <1>4 DEF Count

(* Nobody is counted when everybody is out.                                *)
LEMMA CountNobody ==
  ASSUME NEW f, NEW H, NEW U, \A u \in U : f[u] \notin H
  PROVE  Count(f, H, U) = 0
<1>. {u \in U : f[u] \in H} = {}
  OBVIOUS
<1>. QED
  BY FS_EmptySet DEF Count

(* What a step of a turn does to the counts.                               *)
AccountMoves(a, b) ==
  \/ (a \in HasAccount <=> b \in HasAccount) /\ accountUsed' = accountUsed
  \/ a \notin HasAccount /\ b \in HasAccount /\ AccountIsFree /\ TakeAccount
  \/ a \in HasAccount /\ b \notin HasAccount /\ FreeAccount

ScopeMoves(t, a, b) ==
  \/ (a \in HasScope <=> b \in HasScope) /\ scopeUsed' = scopeUsed
  \/ a \notin HasScope /\ b \in HasScope /\ ScopeIsFree(t) /\ TakeScope(t)
  \/ a \in HasScope /\ b \notin HasScope /\ FreeScope(t)

QueueMoves(a, b) ==
  \/ (a \in HasPlace <=> b \in HasPlace) /\ queued' = queued
  \/ a \notin HasPlace /\ b \in HasPlace /\ queued < MaxQueue /\ queued' = queued + 1
  \/ a \in HasPlace /\ b \notin HasPlace /\ LeaveQueue

LEMMA AdvanceStep ==
  ASSUME IInv, NEW t \in Turn, NEW a \in Stage, NEW b \in Stage,
         Advance(t, a, b), AccountMoves(a, b), ScopeMoves(t, a, b),
         QueueMoves(a, b)
  PROVE  AdmissionTypeOK' /\ AccountInv' /\ ScopeInv' /\ QueueInv'
<1>. USE LimitAssumption
<1>1. /\ stage \in [Turn -> Stage] /\ stage[t] = a /\ stage'[t] = b
      /\ \A u \in Turn : u # t => stage'[u] = stage[u]
      /\ stage' \in [Turn -> Stage]
  BY DEF IInv, AdmissionTypeOK, Advance
<1>2. AccountInv' /\ accountUsed' \in Nat
  <2>1. CASE MaxAccount = 0
    BY <2>1 DEF AccountMoves, TakeAccount, FreeAccount, AccountInv, IInv,
       AdmissionTypeOK
  <2>2. CASE MaxAccount > 0
    <3>. DEFINE old == Count(stage, HasAccount, Turn)
                new == Count(stage', HasAccount, Turn)
    <3>1. /\ old \in Nat
          /\ (a \in HasAccount <=> b \in HasAccount) => new = old
          /\ a \notin HasAccount /\ b \in HasAccount => new = old + 1
          /\ a \in HasAccount /\ b \notin HasAccount => new = old - 1
      BY <1>1, TurnAssumption, CountAfterMove
    <3>2. new \in Nat
      BY TurnAssumption, CountAfterMove
    <3>3. accountUsed = old /\ old <= MaxAccount
      BY <2>2 DEF IInv, AccountInv
    <3>. HIDE DEF old, new
    <3>4. accountUsed' = new /\ new <= MaxAccount
      BY <2>2, <3>1, <3>3
      DEF AccountMoves, TakeAccount, FreeAccount, AccountIsFree
    <3>. QED
      BY <3>2, <3>4 DEF AccountInv, new
  <2>. QED
    BY <2>1, <2>2
<1>3. ScopeInv' /\ scopeUsed' \in [Scope -> Nat]
  <2>1. scopeUsed \in [Scope -> Nat] /\ ScopeOf[t] \in Scope
    BY TurnAssumption DEF IInv, AdmissionTypeOK
  <2>2. CASE MaxScope = 0
    BY <2>1, <2>2 DEF ScopeMoves, TakeScope, FreeScope, ScopeInv
  <2>3. CASE MaxScope > 0
    <3>1. ASSUME NEW s \in Scope
          PROVE  /\ scopeUsed'[s] = Count(stage', HasScope, InScope(s))
                 /\ scopeUsed'[s] <= MaxScope
                 /\ scopeUsed'[s] \in Nat
      <4>. DEFINE U == InScope(s)
                  old == Count(stage, HasScope, U)
                  new == Count(stage', HasScope, U)
      <4>1. /\ IsFiniteSet(U)
            /\ \A u \in U : u # t => stage'[u] = stage[u]
            /\ t \in U <=> s = ScopeOf[t]
        BY <1>1, TurnAssumption, FS_Subset DEF InScope
      <4>. HIDE DEF U
      <4>2. /\ old \in Nat
            /\ s # ScopeOf[t] \/ (a \in HasScope <=> b \in HasScope) => new = old
            /\ s = ScopeOf[t] /\ a \notin HasScope /\ b \in HasScope
                 => new = old + 1
            /\ s = ScopeOf[t] /\ a \in HasScope /\ b \notin HasScope
                 => new = old - 1
        <5>1. /\ old \in Nat
              /\ t \notin U \/ (stage[t] \in HasScope <=> stage'[t] \in HasScope)
                   => new = old
              /\ t \in U /\ stage[t] \notin HasScope /\ stage'[t] \in HasScope
                   => new = old + 1
              /\ t \in U /\ stage[t] \in HasScope /\ stage'[t] \notin HasScope
                   => new = old - 1
          BY <4>1, CountAfterMove
        <5>. HIDE DEF old, new
        <5>. QED
          BY <1>1, <4>1, <5>1
      <4>3. new \in Nat
        BY <4>1, CountAfterMove
      <4>4. scopeUsed[s] = old /\ old <= MaxScope
        BY <2>3 DEF IInv, ScopeInv, U
      <4>. HIDE DEF old, new
      <4>5. scopeUsed'[s] = new /\ new <= MaxScope
        BY <2>1, <2>3, <4>2, <4>4
        DEF ScopeMoves, TakeScope, FreeScope, ScopeIsFree
      <4>. QED
        BY <4>3, <4>5 DEF new, U
    <3>2. scopeUsed' \in [Scope -> Nat]
      BY <2>1, <3>1 DEF ScopeMoves, TakeScope, FreeScope
    <3>. QED
      BY <3>1, <3>2 DEF ScopeInv
  <2>. QED
    BY <2>2, <2>3
<1>4. QueueInv' /\ queued' \in Nat
  <2>. DEFINE old == Count(stage, HasPlace, Turn)
              new == Count(stage', HasPlace, Turn)
  <2>1. /\ old \in Nat
        /\ (a \in HasPlace <=> b \in HasPlace) => new = old
        /\ a \notin HasPlace /\ b \in HasPlace => new = old + 1
        /\ a \in HasPlace /\ b \notin HasPlace => new = old - 1
    BY <1>1, TurnAssumption, CountAfterMove
  <2>2. new \in Nat
    BY TurnAssumption, CountAfterMove
  <2>3. queued = old /\ old <= MaxQueue
    BY DEF IInv, QueueInv
  <2>. HIDE DEF old, new
  <2>4. queued' = new /\ new <= MaxQueue
    BY <2>1, <2>2, <2>3 DEF QueueMoves, LeaveQueue
  <2>. QED
    BY <2>2, <2>4 DEF QueueInv, new
<1>. QED
  BY <1>1, <1>2, <1>3, <1>4 DEF AdmissionTypeOK

(* Everybody is out, or in the gates of a runtime that was replaced.       *)
LEMMA EmptyGates ==
  ASSUME stage' \in [Turn -> {"out", "old"}],
         accountUsed' = 0, scopeUsed' = [s \in Scope |-> 0], queued' = 0
  PROVE  AdmissionTypeOK' /\ AccountInv' /\ ScopeInv' /\ QueueInv'
<1>. USE LimitAssumption
<1>1. stage' \in [Turn -> Stage]
  BY DEF Stage
<1>2. Count(stage', HasAccount, Turn) = 0 /\ Count(stage', HasPlace, Turn) = 0
  BY CountNobody DEF HasAccount, HasPlace
<1>3. \A s \in Scope : Count(stage', HasScope, InScope(s)) = 0
  BY CountNobody DEF HasScope, InScope
<1>. QED
  BY <1>1, <1>2, <1>3 DEF AdmissionTypeOK, AccountInv, ScopeInv, QueueInv

LEMMA InitIInv == AdmissionInit => IInv
<1> SUFFICES ASSUME AdmissionInit PROVE IInv
  OBVIOUS
<1>. USE LimitAssumption
<1>1. AdmissionTypeOK /\ InnerInv
  BY TurnAssumption DEF AdmissionInit, AdmissionTypeOK, InnerInv, Stage
<1>2. Count(stage, HasAccount, Turn) = 0 /\ Count(stage, HasPlace, Turn) = 0
  BY CountNobody DEF AdmissionInit, HasAccount, HasPlace
<1>3. \A s \in Scope : Count(stage, HasScope, InScope(s)) = 0
  BY CountNobody DEF AdmissionInit, HasScope, InScope
<1>. QED
  BY <1>1, <1>2, <1>3 DEF AdmissionInit, AccountInv, ScopeInv, QueueInv, IInv

(* A turn of its own moves while none runs inside it, or from a stage in   *)
(* which none can.                                                         *)
LEMMA OuterMoves ==
  ASSUME IInv, NEW t \in Turn, t \notin Inner, NEW a \in Stage, NEW b \in Stage,
         Advance(t, a, b),
         a \in {"running", "old"} => NestedAreOut(t)
  PROVE  InnerInv'
BY TurnAssumption DEF IInv, AdmissionTypeOK, InnerInv, Advance, NestedAreOut

LEMMA StepIInv ==
  ASSUME IInv, NEW t \in Turn, TurnStep(t)
  PROVE  IInv'
<1>. USE DEF HasAccount, HasScope, HasPlace, AccountMoves, ScopeMoves,
         QueueMoves, Stage
<1>0. t \in Inner => stage[t] \in {"out", "nested", "old"}
  BY DEF IInv, InnerInv
<1>1. CASE TryAccount(t)
  <2>1. CASE AccountIsFree
    BY <1>1, <2>1, AdvanceStep, OuterMoves DEF TryAccount, IInv
  <2>2. CASE ~ AccountIsFree
    BY <1>1, <2>2, AdvanceStep, OuterMoves DEF TryAccount, IInv
  <2>. QED
    BY <2>1, <2>2
<1>2. CASE TryScope(t)
  <2>0. stage[t] = "trying" /\ t \notin Inner
    BY <1>0, <1>2 DEF TryScope, Advance
  <2>1. CASE ScopeIsFree(t)
    BY <1>2, <2>0, <2>1, AdvanceStep, OuterMoves DEF TryScope, IInv
  <2>2. CASE ~ ScopeIsFree(t)
    BY <1>2, <2>0, <2>2, AdvanceStep, OuterMoves DEF TryScope, IInv
  <2>. QED
    BY <2>1, <2>2
<1>3. CASE Undo(t)
  <2>0. stage[t] = "undoing" /\ t \notin Inner
    BY <1>0, <1>3 DEF Undo, Advance
  <2>. QED
    BY <1>3, <2>0, AdvanceStep, OuterMoves DEF Undo, IInv
<1>4. CASE Reserve(t)
  <2>0. stage[t] = "reserving" /\ t \notin Inner
    BY <1>0, <1>4 DEF Reserve, Advance
  <2>. QED
    BY <1>4, <2>0, AdvanceStep, OuterMoves DEF Reserve, IInv
<1>5. CASE Refuse(t)
  <2>0. stage[t] = "reserving" /\ t \notin Inner
    BY <1>0, <1>5 DEF Refuse, Advance
  <2>. QED
    BY <1>5, <2>0, AdvanceStep, OuterMoves DEF Refuse, IInv
<1>6. CASE AwaitScope(t)
  <2>0. stage[t] = "awaitScope" /\ t \notin Inner
    BY <1>0, <1>6 DEF AwaitScope, Advance
  <2>. QED
    BY <1>6, <2>0, AdvanceStep, OuterMoves DEF AwaitScope, IInv
<1>7. CASE AwaitAccount(t)
  <2>0. stage[t] = "awaitAccount" /\ t \notin Inner
    BY <1>0, <1>7 DEF AwaitAccount, Advance
  <2>. QED
    BY <1>7, <2>0, AdvanceStep, OuterMoves DEF AwaitAccount, IInv
<1>8. CASE Dequeue(t)
  <2>0. stage[t] = "dequeuing" /\ t \notin Inner
    BY <1>0, <1>8 DEF Dequeue, Advance
  <2>. QED
    BY <1>8, <2>0, AdvanceStep, OuterMoves DEF Dequeue, IInv
<1>9. CASE GiveUp(t)
  <2>1. CASE Advance(t, "awaitScope", "out") /\ UNCHANGED scopeUsed
    <3>0. stage[t] = "awaitScope" /\ t \notin Inner
      BY <1>0, <2>1 DEF Advance
    <3>. QED
      BY <1>9, <2>1, <3>0, AdvanceStep, OuterMoves DEF GiveUp, IInv
  <2>2. CASE Advance(t, "awaitAccount", "out") /\ FreeScope(t)
    <3>0. stage[t] = "awaitAccount" /\ t \notin Inner
      BY <1>0, <2>2 DEF Advance
    <3>. QED
      BY <1>9, <2>2, <3>0, AdvanceStep, OuterMoves DEF GiveUp, IInv
  <2>. QED
    BY <1>9, <2>1, <2>2 DEF GiveUp
<1>10. CASE FinishTurn(t)
  <2>0. stage[t] = "running" /\ t \notin Inner
    BY <1>0, <1>10 DEF FinishTurn, Advance
  <2>. QED
    BY <1>10, <2>0, AdvanceStep, OuterMoves DEF FinishTurn, IInv
<1>11. CASE FreeLease(t)
  <2>0. stage[t] = "ending" /\ t \notin Inner
    BY <1>0, <1>11 DEF FreeLease, Advance
  <2>. QED
    BY <1>11, <2>0, AdvanceStep, OuterMoves DEF FreeLease, IInv
<1>12. CASE StartNested(t)
  <2>1. AdmissionTypeOK' /\ AccountInv' /\ ScopeInv' /\ QueueInv'
    BY <1>12, AdvanceStep DEF StartNested
  <2>2. InnerInv'
    BY <1>12, TurnAssumption
    DEF StartNested, Advance, IInv, AdmissionTypeOK, InnerInv
  <2>. QED
    BY <2>1, <2>2 DEF IInv
<1>13. CASE EndNested(t)
  <2>1. AdmissionTypeOK' /\ AccountInv' /\ ScopeInv' /\ QueueInv'
    BY <1>13, AdvanceStep DEF EndNested
  <2>2. InnerInv'
    BY <1>13, TurnAssumption
    DEF EndNested, Advance, IInv, AdmissionTypeOK, InnerInv
  <2>. QED
    BY <2>1, <2>2 DEF IInv
<1>14. CASE AskOld(t)
  BY <1>14, AdvanceStep, OuterMoves DEF AskOld, IInv
<1>15. CASE EndOld(t)
  <2>1. AdmissionTypeOK' /\ AccountInv' /\ ScopeInv' /\ QueueInv'
    BY <1>15, AdvanceStep DEF EndOld
  <2>2. InnerInv'
    BY <1>15, TurnAssumption
    DEF EndOld, NestedAreOut, Advance, IInv, AdmissionTypeOK, InnerInv
  <2>. QED
    BY <2>1, <2>2 DEF IInv
<1>. QED
  BY <1>1, <1>2, <1>3, <1>4, <1>5, <1>6, <1>7, <1>8, <1>9, <1>10, <1>11, <1>12,
     <1>13, <1>14, <1>15 DEF TurnStep, Acquire, Return

LEMMA NextIInv == IInv /\ [AdmissionNext]_admission => IInv'
<1> SUFFICES ASSUME IInv, [AdmissionNext]_admission PROVE IInv'
  OBVIOUS
<1>1. CASE ReplaceRuntime
  <2>1. stage' \in [Turn -> {"out", "old"}]
    BY <1>1 DEF ReplaceRuntime
  <2>2. InnerInv'
    BY <1>1, TurnAssumption DEF ReplaceRuntime, IInv, InnerInv
  <2>. QED
    BY <1>1, <2>1, <2>2, EmptyGates DEF ReplaceRuntime, IInv
<1>2. CASE LoseTurns
  <2>1. stage' \in [Turn -> {"out", "old"}]
    BY <1>2 DEF LoseTurns
  <2>2. InnerInv'
    BY <1>2, TurnAssumption DEF LoseTurns, InnerInv
  <2>. QED
    BY <1>2, <2>1, <2>2, EmptyGates DEF LoseTurns, IInv
<1>3. CASE UNCHANGED admission
  BY <1>3 DEF admission, IInv, AdmissionTypeOK, AccountInv, ScopeInv, QueueInv,
     InnerInv, Count
<1>. QED
  BY <1>1, <1>2, <1>3, StepIInv DEF AdmissionNext

LEMMA Invariance == AdmissionSpec => []IInv
BY InitIInv, NextIInv, PTL DEF AdmissionSpec

-----------------------------------------------------------------------------

LEMMA InvWithinLimits == IInv => TurnsWithinLimits
<1> SUFFICES ASSUME IInv PROVE TurnsWithinLimits
  OBVIOUS
<1>. USE LimitAssumption DEF HasAccount, HasScope, Count
<1>1. ASSUME MaxAccount > 0
      PROVE  Cardinality({t \in Turn : stage[t] = "running"}) <= MaxAccount
  <2>. DEFINE R == {t \in Turn : stage[t] = "running"}
              A == {t \in Turn : stage[t] \in HasAccount}
  <2>1. IsFiniteSet(A) /\ R \in SUBSET A
    BY TurnAssumption, FS_Subset
  <2>2. Cardinality(R) <= Cardinality(A)
    BY <2>1, FS_Subset
  <2>3. Cardinality(R) \in Nat /\ Cardinality(A) \in Nat
    BY <2>1, FS_Subset, FS_CardinalityType
  <2>4. Cardinality(A) <= MaxAccount
    BY <1>1 DEF IInv, AccountInv
  <2>. QED
    BY <2>2, <2>3, <2>4
<1>2. ASSUME MaxScope > 0, NEW s \in Scope
      PROVE  Cardinality({t \in Turn : ScopeOf[t] = s /\ stage[t] = "running"})
               <= MaxScope
  <2>. DEFINE R == {t \in Turn : ScopeOf[t] = s /\ stage[t] = "running"}
              A == {t \in InScope(s) : stage[t] \in HasScope}
  <2>1. IsFiniteSet(A) /\ R \in SUBSET A
    BY TurnAssumption, FS_Subset DEF InScope
  <2>2. Cardinality(R) <= Cardinality(A)
    BY <2>1, FS_Subset
  <2>3. Cardinality(R) \in Nat /\ Cardinality(A) \in Nat
    BY <2>1, FS_Subset, FS_CardinalityType
  <2>4. Cardinality(A) <= MaxScope
    BY <1>2 DEF IInv, ScopeInv
  <2>. QED
    BY <2>2, <2>3, <2>4
<1>3. Cardinality({t \in Turn : stage[t] \in HasPlace}) <= MaxQueue
  BY DEF IInv, QueueInv
<1>. QED
  BY <1>1, <1>2, <1>3 DEF TurnsWithinLimits

LEMMA InvWaitsEnd == IInv => WaitsEnd
<1> SUFFICES ASSUME IInv PROVE WaitsEnd
  OBVIOUS
<1>. USE LimitAssumption
<1>1. ASSUME NEW t \in Turn, stage[t] \notin {"old"}
      PROVE  GoesOn(t)
  BY <1>1, TurnAssumption DEF IInv, InnerInv, GoesOn
<1>2. ASSUME ~ AccountIsFree
      PROVE  \E t \in Turn : stage[t] \in HasAccount /\ GoesOn(t)
  <2>1. accountUsed # 0 /\ accountUsed = Count(stage, HasAccount, Turn)
    BY <1>2 DEF AccountIsFree, IInv, AccountInv, AdmissionTypeOK
  <2>2. PICK t \in Turn : stage[t] \in HasAccount
    BY <2>1, CountNobody
  <2>. QED
    BY <1>1, <2>2 DEF HasAccount
<1>3. ASSUME NEW t \in Turn, ~ ScopeIsFree(t)
      PROVE  \E u \in Turn :
               ScopeOf[u] = ScopeOf[t] /\ stage[u] \in HasScope /\ GoesOn(u)
  <2>. DEFINE s == ScopeOf[t]
  <2>0. s \in Scope
    BY TurnAssumption
  <2>1. scopeUsed[s] # 0 /\ scopeUsed[s] = Count(stage, HasScope, InScope(s))
    BY <1>3, <2>0 DEF ScopeIsFree, IInv, ScopeInv, AdmissionTypeOK
  <2>2. PICK u \in InScope(s) : stage[u] \in HasScope
    BY <2>1, CountNobody
  <2>. QED
    BY <1>1, <2>2 DEF HasScope, InScope
<1>. QED
  BY <1>2, <1>3 DEF WaitsEnd

(* Whatever ends turns, and in whatever order: the runtime never runs more *)
(* of them than its limits allow, nor lets more wait.                      *)
THEOREM TurnsWithinLimitsThm == AdmissionSpec => []TurnsWithinLimits
BY Invariance, InvWithinLimits, PTL

(* A full gate of Acquire always has a holder that does not itself wait    *)
(* for a turn inside it.                                                   *)
THEOREM WaitsEndThm == AdmissionSpec => []WaitsEnd
BY Invariance, InvWaitsEnd, PTL

-----------------------------------------------------------------------------


LEMMA StepIsAdmissionStep == [Next]_vars => [AdmissionNext]_admission
<1> SUFFICES ASSUME [Next]_vars PROVE [AdmissionNext]_admission
  OBVIOUS
<1>0. Chat \in Turn
  BY ChatAssumption
<1>1. CASE \E c \in Instance : ChannelStep(c)
  BY <1>1 DEF ChannelStep, Fetch, PublishEvent, ChannelStarts, ChannelExits
<1>2. CASE InboxStep
  BY <1>2 DEF InboxStep, Claim, LeaseEnds, RefreshLease, Reject, PutBack,
     Dispatch, TurnAway
<1>3. CASE WorkerStep
  <2>1. CASE TakeJob
    BY <1>0, <2>1 DEF TakeJob, AdmissionNext, TurnStep, Acquire
  <2>2. CASE AwaitTurn
    BY <1>0, <2>2 DEF AwaitTurn, AdmissionNext, TurnStep
  <2>3. CASE TurnReturns
    BY <1>0, <2>3 DEF TurnReturns, AdmissionNext, TurnStep, Return
  <2>4. CASE WorkerLeaves
    BY <2>4 DEF WorkerLeaves
  <2>. QED
    BY <1>3, <2>1, <2>2, <2>3, <2>4 DEF WorkerStep
<1>4. CASE \E w \in Actor : AnswerStep(w)
  BY <1>4 DEF AnswerStep, StoreAnswer, NoteAnswer, SendAnswer, StoreUnsent,
     ClearRow, MarkOutcome, SendNotice, ParkNotice, Complete
<1>5. CASE RetryStep
  BY <1>5 DEF RetryStep, ReadRows, Resend, CountFailure, NoteRetry,
     ClearRetried, RetryRow, Expire
<1>6. CASE ServerStep
  <2>1. CASE \E t \in Turn \ {Chat} : OtherTurn(t)
    BY <2>1 DEF OtherTurn, AdmissionNext
  <2>2. CASE Reload
    BY <2>2 DEF Reload, AdmissionNext
  <2>3. CASE Die
    BY <2>3 DEF Die, AdmissionNext
  <2>4. CASE ChannelStops \/ BeginRemoval \/ AbandonRemoval \/ Shutdown \/ Restart
    BY <2>4 DEF ChannelStops, BeginRemoval, AbandonRemoval, Shutdown, Restart
  <2>. QED
    BY <1>6, <2>1, <2>2, <2>3, <2>4 DEF ServerStep
<1>7. CASE UNCHANGED vars
  BY <1>7 DEF vars
<1>. QED
  BY <1>1, <1>2, <1>3, <1>4, <1>5, <1>6, <1>7 DEF Next

(* The runtime's gates see nothing but steps of Admission.                 *)
THEOREM ImplementsAdmission == Spec => AdmissionSpec
BY StepIsAdmissionStep, PTL DEF Spec, Init, AdmissionSpec

-----------------------------------------------------------------------------

SpawnerInv == SpawnerTypeOK /\ NoStrayChannel

LEMMA SpawnerStep == SpawnerInv /\ [Next]_vars => SpawnerInv'
<1> SUFFICES ASSUME SpawnerInv, [Next]_vars PROVE SpawnerInv'
  OBVIOUS
<1>. USE InstanceAssumption DEF SpawnerInv, SpawnerTypeOK, NoStrayChannel
<1>0. ASSUME UNCHANGED spawner PROVE SpawnerInv'
  BY <1>0 DEF spawner
<1>1. CASE \E c \in Instance : ChannelStep(c)
  <2> SUFFICES ASSUME NEW c \in Instance, ChannelStep(c) PROVE SpawnerInv'
    BY <1>1
  <2>1. CASE ChannelStarts(c)
    BY <2>1 DEF ChannelStarts, TrySpawn
  <2>2. CASE ChannelExits(c)
    BY <2>2 DEF ChannelExits, Exit
  <2>3. CASE (\E m \in Message : Fetch(c, m)) \/ PublishEvent(c)
    BY <1>0, <2>3 DEF Fetch, PublishEvent
  <2>. QED
    BY <2>1, <2>2, <2>3 DEF ChannelStep
<1>2. CASE InboxStep
  BY <1>0, <1>2 DEF InboxStep, Claim, LeaseEnds, RefreshLease, Reject, PutBack,
     Dispatch, TurnAway
<1>3. CASE WorkerStep
  BY <1>0, <1>3 DEF WorkerStep, TakeJob, WorkerLeaves, AwaitTurn, TurnReturns
<1>4. CASE \E w \in Actor : AnswerStep(w)
  BY <1>0, <1>4 DEF AnswerStep, StoreAnswer, NoteAnswer, SendAnswer,
     StoreUnsent, ClearRow, MarkOutcome, SendNotice, ParkNotice, Complete
<1>5. CASE RetryStep
  BY <1>0, <1>5 DEF RetryStep, ReadRows, Resend, CountFailure, NoteRetry,
     ClearRetried, RetryRow, Expire
<1>6. CASE ServerStep
  <2>1. CASE ChannelStops
    BY <2>1 DEF ChannelStops, StopChannel
  <2>2. CASE Shutdown
    BY <2>2 DEF Shutdown, StopAll
  <2>3. CASE Die
    BY <2>3 DEF Die, LoseChannels
  <2>4. CASE \/ \E t \in Turn \ {Chat} : OtherTurn(t)
             \/ Reload \/ BeginRemoval \/ AbandonRemoval \/ Restart
    BY <1>0, <2>4 DEF OtherTurn, Reload, BeginRemoval, AbandonRemoval, Restart
  <2>. QED
    BY <1>6, <2>1, <2>2, <2>3, <2>4 DEF ServerStep
<1>7. CASE UNCHANGED vars
  BY <1>0, <1>7 DEF vars
<1>. QED
  BY <1>1, <1>2, <1>3, <1>4, <1>5, <1>6, <1>7 DEF Next

(* The spawner never loses sight of a channel that polls.                  *)
THEOREM NoStrayChannelThm == Spec => []NoStrayChannel
<1>1. Init => SpawnerInv
  BY DEF Init, SpawnerInit, SpawnerInv, SpawnerTypeOK, NoStrayChannel
<1>. QED
  BY <1>1, SpawnerStep, PTL DEF Spec, SpawnerInv

(* A full gate has a holder that goes on, in the server as a whole.        *)
THEOREM GatesOpenAgain == Spec => []WaitsEnd
BY ImplementsAdmission, WaitsEndThm, PTL

(* The account's turns stay within its limits, in the server as a whole.   *)
THEOREM ServerWithinLimits == Spec => []TurnsWithinLimits
BY ImplementsAdmission, TurnsWithinLimitsThm, PTL

-----------------------------------------------------------------------------

LEMMA SetInboxTypes ==
  ASSUME FlowTypeOK, NEW m, NEW s \in {"queued", "done", "failed"}, SetInbox(m, s)
  PROVE  /\ arrival' = arrival
         /\ inbox' \in [Message -> InboxStatus \cup {"absent"}]
         /\ leased' \subseteq {x \in Message : inbox'[x] = "processing"}
BY DEF FlowTypeOK, InboxStatus, SetInbox

LEMMA FlowStep == FlowTypeOK /\ SpawnerTypeOK /\ [Next]_vars => FlowTypeOK'
<1> SUFFICES ASSUME FlowTypeOK, SpawnerTypeOK, [Next]_vars PROVE FlowTypeOK'
  OBVIOUS
<1>. USE MessageAssumption, BoundAssumption, InstanceAssumption
<1>0. Mishap \/ UNCHANGED mishaps => mishaps' \in 0 .. MaxMishap
  BY DEF FlowTypeOK, Mishap
<1>00. ASSUME UNCHANGED <<mode, removing, canceled, hand, seen, arrival, stream,
                          inbox, leased, jobs, again>>,
              Mishap \/ UNCHANGED mishaps
       PROVE  FlowTypeOK'
  BY <1>0, <1>00 DEF FlowTypeOK
<1>1. CASE \E c \in Instance : ChannelStep(c)
  <2> SUFFICES ASSUME NEW c \in Instance, ChannelStep(c) PROVE FlowTypeOK'
    BY <1>1
  <2>1. CASE ChannelStarts(c)
    BY <1>00, <2>1 DEF ChannelStarts, NoMishap, control, source, table, flow,
       counts
  <2>2. CASE ChannelExits(c)
    BY <1>0, <2>2 DEF ChannelExits, FlowTypeOK, NoMishap, control, table,
       flow, counts
  <2>3. CASE \E m \in Message : Fetch(c, m)
    BY <1>0, <2>3 DEF Fetch, FlowTypeOK, NoMishap, control, table, flow, counts
  <2>4. CASE PublishEvent(c)
    <3>1. hand[c] \in Message
      BY <2>4 DEF PublishEvent, FlowTypeOK
    <3>2. CASE inbox[hand[c]] = "absent"
      <4>1. /\ arrival' = Append(arrival, hand[c])
            /\ inbox' = [inbox EXCEPT ![hand[c]] = "queued"]
            /\ seen' = [seen EXCEPT ![c] = @ \cup {hand[c]}]
            /\ hand' = [hand EXCEPT ![c] = NoMessage]
            /\ UNCHANGED <<mode, removing, canceled, stream, leased, jobs, again,
                           mishaps>>
        BY <2>4, <3>2 DEF PublishEvent, AdvanceOffset, NoMishap, control,
           flow, counts
      <4>2. inbox' \in [Message -> InboxStatus \cup {"absent"}]
        BY <4>1 DEF FlowTypeOK, InboxStatus
      <4>3. leased' \subseteq {m \in Message : inbox'[m] = "processing"}
        BY <3>2, <4>1 DEF FlowTypeOK
      <4>. QED
        BY <3>1, <4>1, <4>2, <4>3 DEF FlowTypeOK
    <3>3. CASE inbox[hand[c]] # "absent"
      BY <1>0, <2>4, <3>1, <3>3
      DEF PublishEvent, AdvanceOffset, FlowTypeOK, NoMishap, control, flow,
          counts
    <3>. QED
      BY <3>2, <3>3
  <2>. QED
    BY <2>1, <2>2, <2>3, <2>4 DEF ChannelStep
<1>2. CASE InboxStep
  <2>1. CASE Claim
    <3>. DEFINE due == {m \in Message : Claimable(m)}
    <3>1. PICK n \in 1 .. Len(arrival) : \E s \in [1 .. n -> due] :
                stream' = stream \o s
      BY <2>1 DEF Claim
    <3>2. n \in Nat
      BY <3>1 DEF FlowTypeOK
    <3>3. stream' \in Seq(Message)
      BY <3>1, <3>2 DEF FlowTypeOK
    <3>4. /\ inbox' = [m \in Message |-> IF m \in due THEN "processing" ELSE inbox[m]]
          /\ leased' = leased \cup due
          /\ UNCHANGED <<mode, removing, canceled, hand, seen, arrival, jobs, again,
                         mishaps>>
      BY <2>1 DEF Claim, NoMishap, control, source, counts
    <3>. HIDE DEF due
    <3>5. due \subseteq Message
      BY DEF due
    <3>6. inbox' \in [Message -> InboxStatus \cup {"absent"}]
      BY <3>4 DEF FlowTypeOK, InboxStatus
    <3>7. leased' \subseteq {m \in Message : inbox'[m] = "processing"}
      BY <3>4, <3>5 DEF FlowTypeOK
    <3>. QED
      BY <1>0, <3>3, <3>4, <3>6, <3>7 DEF FlowTypeOK
  <2>2. CASE \E m \in Message : LeaseEnds(m)
    BY <1>0, <2>2 DEF LeaseEnds, FlowTypeOK, NoMishap, control, source, flow
  <2>3. CASE \E m \in Message : RefreshLease(m)
    BY <1>0, <2>3 DEF RefreshLease, FlowTypeOK, NoMishap, control, source, flow,
       counts
  <2>4. CASE Reject
    <3>1. Tail(stream) \in Seq(Message)
      BY <2>4 DEF Reject, Arrived, FlowTypeOK
    <3>. QED
      BY <1>0, <2>4, <3>1, SetInboxTypes
      DEF Reject, CompleteInboundEvent, FailInboundEvent, FlowTypeOK, control,
          source, counts
  <2>5. CASE PutBack
    <3>1. Tail(stream) \in Seq(Message)
      BY <2>5 DEF PutBack, Arrived, FlowTypeOK
    <3>. QED
      BY <1>0, <2>5, <3>1, SetInboxTypes
      DEF PutBack, ReleaseInboundEvent, FlowTypeOK, control, source, counts,
          NoMishap
  <2>6. CASE Dispatch
    <3>1. Tail(stream) \in Seq(Message) /\ Head(stream) \in Message
      BY <2>6 DEF Dispatch, Arrived, FlowTypeOK
    <3>2. jobs' \in Seq(Job) /\ Len(jobs') <= QueueSize
      <4>. DEFINE j == [msg |-> Head(stream), ok |-> entry # NoInstance,
                        old |-> FALSE]
      <4>1. j \in Job
        BY <3>1 DEF Job
      <4>2. jobs' = Append(jobs, j) /\ Len(jobs) < QueueSize
        BY <2>6 DEF Dispatch
      <4>. HIDE DEF j
      <4>. QED
        BY <4>1, <4>2 DEF FlowTypeOK
    <3>. QED
      BY <1>0, <2>6, <3>1, <3>2 DEF Dispatch, FlowTypeOK, NoMishap, control,
         source, table, counts
  <2>7. CASE TurnAway
    <3>1. Tail(stream) \in Seq(Message)
      BY <2>7 DEF TurnAway, Arrived, FlowTypeOK
    <3>. QED
      BY <1>0, <2>7, <3>1 DEF TurnAway, FlowTypeOK, NoMishap, control, source,
         table
  <2>. QED
    BY <1>2, <2>1, <2>2, <2>3, <2>4, <2>5, <2>6, <2>7 DEF InboxStep
<1>3. CASE WorkerStep
  <2>1. CASE TakeJob
    <3>1. Tail(jobs) \in Seq(Job) /\ Len(Tail(jobs)) <= QueueSize
      BY <2>1 DEF TakeJob, FlowTypeOK
    <3>. QED
      BY <1>0, <2>1, <3>1 DEF TakeJob, FlowTypeOK, NoMishap, control, source,
         table
  <2>2. CASE WorkerLeaves
    <3>1. <<>> \in Seq(Job) /\ Len(<<>>) <= QueueSize
      OBVIOUS
    <3>. QED
      BY <1>0, <2>2, <3>1 DEF WorkerLeaves, FlowTypeOK, NoMishap, control,
         source, table, counts
  <2>3. CASE AwaitTurn \/ TurnReturns
    BY <1>00, <2>3 DEF AwaitTurn, TurnReturns, NoMishap, control, source, table,
       flow, counts
  <2>. QED
    BY <1>3, <2>1, <2>2, <2>3 DEF WorkerStep
<1>4. CASE \E w \in Actor : AnswerStep(w)
  <2> SUFFICES ASSUME NEW w \in Actor, AnswerStep(w) PROVE FlowTypeOK'
    BY <1>4
  <2>1. ASSUME HandBack(w), UNCHANGED <<mode, removing, hand, seen, stream, jobs,
                                        canceled>>
        PROVE  FlowTypeOK'
    <3>. DEFINE m == Msg(w)
    <3>1. again' = [again EXCEPT ![m] = @ + 1] /\ SetInbox(m, "queued")
      BY <2>1 DEF HandBack, ReleaseInboundEvent
    <3>. HIDE DEF m
    <3>2. again' \in [Message -> Nat]
      <4>1. CASE m \in Message
        BY <3>1, <4>1 DEF FlowTypeOK
      <4>2. CASE m \notin Message
        BY <3>1, <4>2 DEF FlowTypeOK
      <4>. QED
        BY <4>1, <4>2
    <3>. QED
      BY <1>0, <2>1, <3>1, <3>2, SetInboxTypes DEF HandBack, FlowTypeOK
  <2>2. CASE StoreAnswer(w)
    BY <1>00, <2>1, <2>2 DEF StoreAnswer, NoMishap, control, source, flow, table
  <2>3. CASE StoreUnsent(w)
    BY <1>00, <2>1, <2>3 DEF StoreUnsent, NoMishap, control, source, flow, table
  <2>4. CASE Complete(w)
    <3>1. UNCHANGED <<mode, removing, hand, seen, stream, jobs, canceled, again>>
      BY <2>4 DEF Complete, control, source, flow, counts
    <3>2. CASE UNCHANGED table
      BY <1>00, <2>4, <3>1, <3>2 DEF Complete, table, NoMishap
    <3>3. CASE CompleteInboundEvent(Msg(w))
      BY <1>0, <2>4, <3>1, <3>3, SetInboxTypes DEF Complete,
         CompleteInboundEvent, FlowTypeOK, NoMishap
    <3>. QED
      BY <2>4, <3>2, <3>3 DEF Complete
  <2>5. CASE \/ NoteAnswer(w) \/ SendAnswer(w) \/ ClearRow(w) \/ MarkOutcome(w)
             \/ SendNotice(w) \/ ParkNotice(w)
    BY <1>00, <2>5 DEF NoteAnswer, SendAnswer, ClearRow, MarkOutcome,
       UpdateLedger, SendNotice, ParkNotice, NoMishap, control, source, flow,
       table, counts
  <2>. QED
    BY <2>2, <2>3, <2>4, <2>5 DEF AnswerStep
<1>5. CASE RetryStep
  BY <1>00, <1>5 DEF RetryStep, ReadRows, Resend, CountFailure, NoteRetry,
     ClearRetried, RetryRow, Expire, UpdateLedger, NoMishap, control, source,
     flow, table, counts
<1>6. CASE ServerStep
  <2>1. CASE \E t \in Turn \ {Chat} : OtherTurn(t)
    BY <1>00, <2>1 DEF OtherTurn, NoMishap, control, source, flow, table, counts
  <2>2. CASE ChannelStops
    BY <1>00, <2>2 DEF ChannelStops, NoMishap, control, source, flow, table,
       counts
  <2>3. CASE Reload
    <3>. DEFINE older == [i \in DOMAIN jobs |-> [jobs[i] EXCEPT !.old = TRUE]]
    <3>1. ASSUME NEW i \in DOMAIN jobs
          PROVE  [jobs[i] EXCEPT !.old = TRUE] \in Job
      <4>1. jobs[i] \in Job
        BY DEF FlowTypeOK
      <4>. QED
        BY <4>1 DEF Job
    <3>2. older \in Seq(Job) /\ Len(older) = Len(jobs)
      <4>1. DOMAIN jobs = 1 .. Len(jobs) /\ Len(jobs) \in Nat
        BY DEF FlowTypeOK
      <4>2. older \in [1 .. Len(jobs) -> Job]
        BY <3>1, <4>1
      <4>. HIDE DEF older
      <4>. QED
        BY <4>1, <4>2
    <3>3. jobs' = older
      BY <2>3 DEF Reload
    <3>. HIDE DEF older
    <3>. QED
      BY <1>0, <2>3, <3>2, <3>3 DEF Reload, FlowTypeOK, control, source, table,
         counts
  <2>4. CASE BeginRemoval \/ AbandonRemoval \/ Restart
    BY <1>0, <2>4 DEF BeginRemoval, AbandonRemoval, Restart, FlowTypeOK,
       NoMishap, control, source, table, flow, counts
  <2>5. CASE Shutdown
    <3>1. UNCHANGED <<removing, hand, seen, jobs, again>> /\ mode' = "stopping"
          /\ canceled' = TRUE /\ Mishap
      BY <2>5 DEF Shutdown, source, counts
    <3>2. CASE UNCHANGED <<table, stream>>
      BY <1>0, <3>1, <3>2 DEF FlowTypeOK, table
    <3>3. CASE /\ stream # <<>> /\ ReleaseInboundEvent(stream[Len(stream)])
               /\ stream' = SubSeq(stream, 1, Len(stream) - 1)
      <4>1. stream' \in Seq(Message)
        BY <3>3 DEF FlowTypeOK
      <4>. QED
        BY <1>0, <3>1, <3>3, <4>1, SetInboxTypes DEF FlowTypeOK,
           ReleaseInboundEvent
    <3>. QED
      BY <2>5, <3>2, <3>3 DEF Shutdown
  <2>6. CASE Die
    <3>1. <<>> \in Seq(Job) /\ <<>> \in Seq(Message) /\ Len(<<>>) <= QueueSize
      OBVIOUS
    <3>. QED
      BY <1>0, <2>6, <3>1 DEF Die, FlowTypeOK, NoMishap, table, counts
  <2>. QED
    BY <1>6, <2>1, <2>2, <2>3, <2>4, <2>5, <2>6 DEF ServerStep
<1>7. CASE UNCHANGED vars
  BY <1>00, <1>7 DEF vars, control, source, flow, table, counts
<1>. QED
  BY <1>1, <1>2, <1>3, <1>4, <1>5, <1>6, <1>7 DEF Next

-----------------------------------------------------------------------------

(* The chat has got the answer, or will, or has been given up.             *)
Settled(a) == a \in sent \cup outbox \cup givenUp

(* Nothing has been written down of the answer.                            *)
Fresh(a) == ledger[a] = "none" /\ a \notin outbox \cup givenUp

Unrecorded == {"turn", "answering", "refusing", "parking", "requeueing"}
Stored == {"noteThenSend", "noteThenFail", "noteThenComplete", "undelivered"}

(* What an actor at work has come to with its answer.                      *)
TaskOK(w) ==
  LET a == task[w].answer
      at == task[w].phase
  IN  at # "idle" =>
        /\ a \in Answer /\ a[2] <= takes[a[1]]
        /\ at \in Unrecorded => Fresh(a)
        /\ at = "sending" => task[w].row \/ Fresh(a)
        /\ at = "noteThenSend" => task[w].row
        /\ at \in Stored \/ task[w].row => Settled(a)
        /\ at \in {"clearing", "delivered"} => a \in sent
        /\ at = "completing" => Settled(a) \/ a[1] \in silent

TaskInv == \A w \in Actor : TaskOK(w)

DistinctInv ==
  \A v, w \in Actor :
    v # w /\ task[v].phase # "idle" /\ task[w].phase # "idle" =>
      task[v].answer # task[w].answer

FreshInv == \A a \in Answer : Fresh(a) \/ a[2] <= takes[a[1]]

RetryInv ==
  /\ retry.phase # "idle" => retry.answer \in Answer
  /\ retry.phase \in {"delivered", "clear"} => retry.answer \in sent
  /\ retry.phase = "dropped" => retry.answer \in givenUp \ outbox

AnswerInv ==
  /\ AnswerTypeOK
  /\ TaskInv /\ DistinctInv /\ FreshInv /\ RetryInv
  /\ LedgerIsTrue /\ NoMessageIsLost

-----------------------------------------------------------------------------

(* Nothing is forgotten: what is sent or given up stays so, and rows go    *)
(* only when their answer is.                                              *)
Grows ==
  /\ sent \subseteq sent' /\ givenUp \subseteq givenUp' /\ silent \subseteq silent'
  /\ outbox \subseteq outbox' \cup sent' \cup givenUp'

LEMMA SettledStays ==
  ASSUME Grows, NEW a, Settled(a)
  PROVE  Settled(a)'
BY DEF Grows, Settled

(* An actor is where it was while others work on other answers.            *)
LEMMA TaskStays ==
  ASSUME NEW w \in Actor, TaskOK(w), Grows, task'[w] = task[w],
         \A m \in Message : takes[m] \in Nat /\ takes'[m] \in Nat /\ takes'[m] >= takes[m],
         task[w].phase # "idle" /\ Fresh(task[w].answer) => Fresh(task[w].answer)'
  PROVE  TaskOK(w)'
<1>1. CASE task[w].phase = "idle"
  BY <1>1 DEF TaskOK
<1>2. CASE task[w].phase # "idle"
  <2>. DEFINE a == task[w].answer
  <2>1. a \in Answer /\ a[1] \in Message /\ a[2] \in Nat /\ a[2] <= takes[a[1]]
    BY <1>2 DEF TaskOK, Answer
  <2>2. a[2] <= takes'[a[1]]
    BY <2>1
  <2>3. /\ Settled(a) => Settled(a)'
        /\ a \in sent => a \in sent'
        /\ a[1] \in silent => a[1] \in silent'
    BY SettledStays DEF Grows
  <2>4. Fresh(a) => Fresh(a)'
    BY <1>2
  <2>. HIDE DEF Unrecorded, Stored, Fresh
  <2>. QED
    BY <1>2, <2>1, <2>2, <2>3, <2>4 DEF TaskOK
<1>. QED
  BY <1>1, <1>2

(* What is done has an answer as long as nothing else becomes done.        *)
LEMMA LostStays ==
  ASSUME NoMessageIsLost, Grows,
         \A m \in Message : inbox'[m] = "done" => inbox[m] = "done" \/ m \in silent'
  PROVE  NoMessageIsLost'
BY DEF NoMessageIsLost, Grows

(* Steps that have nothing to do with answers.                             *)
LEMMA QuietStep ==
  ASSUME AnswerInv, UNCHANGED <<task, delivery, retrying, takes, sent, givenUp>>,
         silent \subseteq silent', silent' \subseteq Message,
         \A m \in Message : inbox'[m] = "done" => inbox[m] = "done" \/ m \in silent'
  PROVE  AnswerInv'
<1>1. Grows
  BY DEF Grows, delivery
<1>2. AnswerTypeOK'
  BY DEF AnswerInv, AnswerTypeOK, delivery, retrying
<1>3. TaskInv'
  BY <1>1, TaskStays DEF AnswerInv, TaskInv, AnswerTypeOK, Fresh, delivery
<1>4. DistinctInv' /\ FreshInv' /\ RetryInv' /\ LedgerIsTrue'
  BY DEF AnswerInv, DistinctInv, FreshInv, Fresh, RetryInv, LedgerIsTrue,
     delivery, retrying
<1>5. NoMessageIsLost'
  BY <1>1, LostStays DEF AnswerInv
<1>. QED
  BY <1>2, <1>3, <1>4, <1>5 DEF AnswerInv

(* A new job gets a new answer.                                            *)
LEMMA BeginStep ==
  ASSUME AnswerInv, NEW w \in Actor, task[w].phase = "idle",
         NEW p \in {"turn", "refusing"}, NEW m \in Message, NEW ok \in BOOLEAN,
         Begin(w, p, m, ok),
         UNCHANGED <<delivery, retrying, ends, inbox>>
  PROVE  AnswerInv'
<1>. USE BoundAssumption
<1>. DEFINE new == <<m, takes[m] + 1>>
<1>1. /\ takes \in [Message -> 0 .. MaxTakes] /\ takes[m] < MaxTakes
      /\ takes' = [takes EXCEPT ![m] = @ + 1]
      /\ takes'[m] = takes[m] + 1
      /\ task' = [task EXCEPT ![w] = [phase |-> p, answer |-> new, ok |-> ok,
                                      row |-> FALSE]]
  BY DEF Begin, AnswerInv, AnswerTypeOK
<1>2. /\ takes' \in [Message -> 0 .. MaxTakes]
      /\ \A x \in Message : takes[x] \in Nat /\ takes'[x] \in Nat
                            /\ takes'[x] >= takes[x]
      /\ new \in Answer /\ new[1] = m /\ new[2] = takes[m] + 1
  BY <1>1 DEF Answer
<1>3. Grows
  BY DEF Grows, delivery, ends
<1>4. Fresh(new)
  BY <1>1, <1>2 DEF AnswerInv, FreshInv
<1>. HIDE DEF new
<1>5. /\ task'[w] = [phase |-> p, answer |-> new, ok |-> ok, row |-> FALSE]
      /\ \A v \in Actor : v # w => task'[v] = task[v]
  BY <1>1 DEF AnswerInv, AnswerTypeOK
<1>6. AnswerTypeOK'
  <2>1. [phase |-> p, answer |-> new, ok |-> ok, row |-> FALSE]
          \in [phase : Phase, answer : Answer \cup {NoAnswer}, ok : BOOLEAN,
               row : BOOLEAN]
    BY <1>2 DEF Phase
  <2>. QED
    BY <1>1, <1>2, <2>1 DEF AnswerInv, AnswerTypeOK, delivery, retrying, ends
<1>7. TaskInv'
  <2>1. TaskOK(w)'
    BY <1>1, <1>2, <1>4, <1>5 DEF TaskOK, Fresh, Unrecorded, Stored, delivery,
       ends
  <2>2. ASSUME NEW v \in Actor, v # w
        PROVE  TaskOK(v)'
    BY <1>2, <1>3, <1>5, <2>2, TaskStays DEF AnswerInv, TaskInv, Fresh,
       delivery, ends
  <2>. QED
    BY <2>1, <2>2 DEF TaskInv
<1>8. DistinctInv'
  <2>1. ASSUME NEW v \in Actor, v # w, task[v].phase # "idle"
        PROVE  task[v].answer # new
    <3>1. task[v].answer[2] <= takes[task[v].answer[1]]
      BY <2>1 DEF AnswerInv, TaskInv, TaskOK
    <3>. QED
      BY <1>1, <1>2, <3>1
  <2>. QED
    BY <1>5, <2>1 DEF AnswerInv, DistinctInv
<1>9. FreshInv'
  <2>1. ASSUME NEW a \in Answer, ~Fresh(a)
        PROVE  a[2] <= takes'[a[1]]
    <3>1. a[2] <= takes[a[1]] /\ a[1] \in Message /\ a[2] \in Nat
      BY <2>1 DEF AnswerInv, FreshInv, Answer
    <3>. QED
      BY <1>2, <3>1
  <2>. QED
    BY <2>1 DEF FreshInv, Fresh, delivery, ends
<1>10. RetryInv' /\ LedgerIsTrue' /\ NoMessageIsLost'
  BY DEF AnswerInv, RetryInv, LedgerIsTrue, NoMessageIsLost, delivery,
     retrying, ends
<1>. QED
  BY <1>6, <1>7, <1>8, <1>9, <1>10 DEF AnswerInv

(* The ledger's line of an answer says what has become of it.              *)
LineOK(a) ==
  /\ ledger[a] = "delivered" => a \in sent
  /\ ledger[a] = "dropped" => a \in givenUp \ outbox
  /\ ledger[a] # "none" => Settled(a)

(* An actor goes on with its answer.                                       *)
LEMMA ActorStep ==
  ASSUME AnswerInv, NEW w \in Actor, task[w].phase # "idle",
         NEW own, own = task[w].answer,
         AnswerTypeOK', Grows, UNCHANGED <<retrying, takes, givenUp>>,
         own \in outbox' => own \in outbox \/ Fresh(own),
         \A v \in Actor : v # w => task'[v] = task[v],
         task'[w].phase # "idle" => task'[w].answer = own,
         TaskOK(w)', LineOK(own)',
         \A a \in Answer : a # own =>
           ledger'[a] = ledger[a] /\ (a \in outbox' => a \in outbox),
         \A m \in Message : inbox'[m] = "done" =>
           \/ inbox[m] = "done" \/ m \in silent'
           \/ \E a \in Answer : Settled(a)' /\ a[1] = m
  PROVE  AnswerInv'
<1>0. own \in Answer /\ own[2] <= takes[own[1]]
  BY DEF AnswerInv, TaskInv, TaskOK
<1>1. TaskInv'
  <2>1. ASSUME NEW v \in Actor, v # w
        PROVE  TaskOK(v)'
    <3>1. task[v].phase # "idle" =>
            task[v].answer # own /\ task[v].answer \in Answer
      BY <2>1 DEF AnswerInv, DistinctInv, TaskInv, TaskOK
    <3>2. \A m \in Message : takes[m] \in Nat /\ takes' = takes /\ takes[m] >= takes[m]
      BY BoundAssumption DEF AnswerInv, AnswerTypeOK
    <3>3. TaskOK(v)
      BY DEF AnswerInv, TaskInv
    <3>4. task[v].phase # "idle" /\ Fresh(task[v].answer) => Fresh(task[v].answer)'
      BY <3>1 DEF Fresh
    <3>. QED
      BY <2>1, <3>2, <3>3, <3>4, TaskStays
  <2>. QED
    BY <2>1 DEF TaskInv
<1>2. DistinctInv'
  BY DEF AnswerInv, DistinctInv
<1>3. FreshInv'
  BY <1>0 DEF AnswerInv, FreshInv, Fresh
<1>4. RetryInv'
  BY DEF AnswerInv, RetryInv, Fresh, retrying, Grows
<1>5. LedgerIsTrue'
  <2>1. ASSUME NEW a \in Answer, a # own
        PROVE  LineOK(a)'
    <3>1. ledger'[a] = ledger[a] /\ (a \in outbox' => a \in outbox)
      BY <2>1
    <3>2. Settled(a) => Settled(a)'
      BY SettledStays
    <3>3. LineOK(a)
      BY DEF AnswerInv, LedgerIsTrue, LineOK, Settled
    <3>. QED
      BY <3>1, <3>2, <3>3 DEF LineOK, Grows
  <2>2. \A a \in Answer : LineOK(a)'
    BY <2>1
  <2>. QED
    BY <2>2 DEF LedgerIsTrue, LineOK, Settled
<1>6. NoMessageIsLost'
  <2>1. ASSUME NEW m \in Message, inbox'[m] = "done", m \notin silent'
        PROVE  \E a \in sent' \cup outbox' \cup givenUp' : a[1] = m
    <3>1. CASE inbox[m] = "done"
      BY <2>1, <3>1 DEF AnswerInv, NoMessageIsLost, Grows
    <3>2. CASE \E a \in Answer : Settled(a)' /\ a[1] = m
      BY <3>2 DEF Settled
    <3>. QED
      BY <2>1, <3>1, <3>2
  <2>. QED
    BY <2>1 DEF NoMessageIsLost
<1>. QED
  BY <1>1, <1>2, <1>3, <1>4, <1>5, <1>6 DEF AnswerInv

(* The retry loop goes on.                                                 *)
LEMMA LoopStep ==
  ASSUME AnswerInv, AnswerTypeOK', RetryInv', Grows, UNCHANGED <<task, takes, inbox>>,
         outbox' \cup givenUp' \subseteq outbox \cup givenUp,
         \A a \in Answer : LineOK(a)' /\ (ledger'[a] = "none" <=> ledger[a] = "none")
  PROVE  AnswerInv'
<1>1. TaskInv'
  <2>1. \A m \in Message : takes[m] \in Nat /\ takes[m] >= takes[m]
    BY BoundAssumption DEF AnswerInv, AnswerTypeOK
  <2>2. ASSUME NEW v \in Actor
        PROVE  TaskOK(v)'
    <3>1. TaskOK(v) /\ (task[v].phase # "idle" => task[v].answer \in Answer)
      BY DEF AnswerInv, TaskInv, TaskOK
    <3>2. task[v].phase # "idle" /\ Fresh(task[v].answer) => Fresh(task[v].answer)'
      BY <3>1 DEF Fresh
    <3>. QED
      BY <2>1, <3>1, <3>2, TaskStays
  <2>. QED
    BY <2>2 DEF TaskInv
<1>2. DistinctInv' /\ FreshInv'
  BY DEF AnswerInv, DistinctInv, FreshInv, Fresh
<1>3. LedgerIsTrue'
  BY DEF LedgerIsTrue, LineOK, Settled
<1>4. NoMessageIsLost'
  BY LostStays DEF AnswerInv
<1>. QED
  BY <1>1, <1>2, <1>3, <1>4 DEF AnswerInv

-----------------------------------------------------------------------------

TaskTypeOK ==
  task \in [Actor -> [phase : Phase, answer : Answer \cup {NoAnswer},
                      ok : BOOLEAN, row : BOOLEAN]]

LEMMA GoMeans ==
  ASSUME TaskTypeOK, NEW w \in Actor, NEW p \in Phase, Go(w, p)
  PROVE  /\ TaskTypeOK'
         /\ task'[w].phase = p /\ task'[w].answer = task[w].answer
         /\ task'[w].row = task[w].row
         /\ \A v \in Actor : v # w => task'[v] = task[v]
BY DEF TaskTypeOK, Go

LEMMA RestMeans ==
  ASSUME TaskTypeOK, NEW w \in Actor, Rest(w)
  PROVE  /\ TaskTypeOK'
         /\ task'[w].phase = "idle"
         /\ \A v \in Actor : v # w => task'[v] = task[v]
BY DEF TaskTypeOK, Rest, Idle, Phase

(* What is known of an actor at work before its step.                      *)
LEMMA AtWork ==
  ASSUME AnswerInv, NEW w \in Actor, task[w].phase # "idle"
  PROVE  /\ TaskTypeOK /\ TaskOK(w) /\ LineOK(task[w].answer)
         /\ task[w].answer \in Answer /\ Msg(w) = task[w].answer[1]
         /\ Msg(w) \in Message
         /\ \A m \in Message : takes[m] \in Nat
<1>1. TaskTypeOK /\ TaskOK(w)
  BY DEF AnswerInv, AnswerTypeOK, TaskTypeOK, TaskInv
<1>2. task[w].answer \in Answer
  BY <1>1 DEF TaskOK
<1>3. LineOK(task[w].answer)
  BY <1>2 DEF AnswerInv, LedgerIsTrue, LineOK, Settled
<1>. QED
  BY <1>1, <1>2, <1>3, BoundAssumption DEF Msg, Answer, AnswerInv, AnswerTypeOK

LEMMA NoteAnswerStep ==
  ASSUME AnswerInv, NEW w \in Actor, NoteAnswer(w)
  PROVE  AnswerInv'
<1>. PICK a : a = task[w].answer
  OBVIOUS
<1>. DEFINE p == AfterNote[task[w].phase]
<1>1. /\ task[w].phase \in {"noteThenSend", "noteThenFail", "noteThenComplete"}
      /\ p \in {"sending", "undelivered", "completing"}
      /\ task[w].phase = "noteThenSend" <=> p = "sending"
      /\ p \in Phase /\ Go(w, p)
      /\ UNCHANGED <<outbox, tries, retrying, takes, ends, inbox>>
      /\ Note(a, "queued") \/ UNCHANGED ledger
  BY DEF NoteAnswer, AfterNote, Phase, table, counts
<1>2. /\ TaskTypeOK /\ TaskOK(w) /\ LineOK(a) /\ a \in Answer
      /\ task[w].phase # "idle"
  BY <1>1, AtWork
<1>. HIDE DEF p
<1>3. /\ TaskTypeOK'
      /\ task'[w].phase = p /\ task'[w].answer = a /\ task'[w].row = task[w].row
      /\ \A v \in Actor : v # w => task'[v] = task[v]
  BY <1>1, <1>2, GoMeans
<1>4. /\ ledger' \in [Answer -> DeliveryStatus \cup {"none"}]
      /\ ledger'[a] = "queued" \/ ledger'[a] = ledger[a]
      /\ \A x \in Answer : x # a => ledger'[x] = ledger[x]
  BY <1>1, <1>2 DEF Note, AnswerInv, AnswerTypeOK, DeliveryStatus
<1>5. Settled(a) /\ Settled(a)' /\ (p = "sending" => task[w].row)
  BY <1>1, <1>2 DEF TaskOK, Stored, Settled, ends
<1>6. AnswerTypeOK'
  BY <1>1, <1>3, <1>4 DEF AnswerInv, AnswerTypeOK, TaskTypeOK, retrying, ends
<1>7. TaskOK(w)' /\ LineOK(a)'
  BY <1>1, <1>2, <1>3, <1>4, <1>5
  DEF TaskOK, LineOK, Fresh, Unrecorded, Stored, Settled, ends
<1>8. Grows
  BY <1>1 DEF Grows, ends
<1>. QED
  BY <1>1, <1>2, <1>3, <1>4, <1>6, <1>7, <1>8, ActorStep DEF retrying, ends

LEMMA SendAnswerStep ==
  ASSUME AnswerInv, NEW w \in Actor, SendAnswer(w)
  PROVE  AnswerInv'
<1>. PICK a : a = task[w].answer
  OBVIOUS
<1>1. /\ task[w].phase = "sending"
      /\ UNCHANGED <<outbox, tries, ledger, retrying, takes, givenUp, silent, inbox>>
  BY DEF SendAnswer, At, table, delivery, counts
<1>2. PICK p \in {"clearing", "completing", "undelivered", "requeueing"} :
        /\ Go(w, p)
        /\ \/ /\ sent' = sent \cup {a}
              /\ p \in {"clearing", "completing"}
           \/ /\ sent' = sent
              /\ p = IF task[w].row THEN "undelivered" ELSE "requeueing"
  <2>1. CASE task[w].row
    BY <1>1, <2>1 DEF SendAnswer
  <2>2. CASE ~task[w].row
    BY <1>1, <2>2 DEF SendAnswer
  <2>. QED
    BY <2>1, <2>2
<1>3. /\ TaskTypeOK /\ TaskOK(w) /\ LineOK(a) /\ a \in Answer
      /\ task[w].phase # "idle" /\ p \in Phase
  BY <1>1, AtWork DEF Phase
<1>4. /\ TaskTypeOK'
      /\ task'[w].phase = p /\ task'[w].answer = a /\ task'[w].row = task[w].row
      /\ \A v \in Actor : v # w => task'[v] = task[v]
  BY <1>2, <1>3, GoMeans
<1>5. AnswerTypeOK'
  BY <1>1, <1>2, <1>3, <1>4 DEF AnswerInv, AnswerTypeOK, TaskTypeOK, retrying
<1>6. TaskOK(w)' /\ LineOK(a)'
  BY <1>1, <1>2, <1>3, <1>4 DEF TaskOK, LineOK, Fresh, Unrecorded, Stored,
     Settled
<1>7. Grows
  BY <1>1, <1>2 DEF Grows
<1>. QED
  BY <1>1, <1>3, <1>4, <1>5, <1>6, <1>7, ActorStep

LEMMA HandBackStep ==
  ASSUME AnswerInv, NEW w \in Actor, HandBack(w), task[w].phase # "idle",
         UNCHANGED <<ledger, retrying, takes, ends>>
  PROVE  AnswerInv'
<1>. PICK a : a = task[w].answer
  OBVIOUS
<1>1. /\ Rest(w) /\ SetInbox(Msg(w), "queued")
      /\ UNCHANGED <<outbox, tries>>
  BY DEF HandBack, ReleaseInboundEvent
<1>2. TaskTypeOK /\ LineOK(a) /\ a \in Answer
  BY AtWork
<1>3. /\ TaskTypeOK' /\ task'[w].phase = "idle"
      /\ \A v \in Actor : v # w => task'[v] = task[v]
  BY <1>1, <1>2, RestMeans
<1>4. AnswerTypeOK'
  BY <1>1, <1>3 DEF AnswerInv, AnswerTypeOK, TaskTypeOK, retrying, ends
<1>5. TaskOK(w)' /\ LineOK(a)'
  BY <1>1, <1>2, <1>3 DEF TaskOK, LineOK, Settled, ends
<1>6. \A m \in Message : inbox'[m] = "done" => inbox[m] = "done"
  <2>. PICK x : x = Msg(w)
    OBVIOUS
  <2>1. inbox' = [inbox EXCEPT ![x] = "queued"]
    BY <1>1 DEF SetInbox
  <2>. QED
    BY <2>1
<1>7. Grows
  BY <1>1 DEF Grows, ends
<1>. QED
  BY <1>1, <1>2, <1>3, <1>4, <1>5, <1>6, <1>7, ActorStep DEF retrying, ends

(* Storing an answer that has no line in the ledger yet.                   *)
LEMMA EnqueueStep ==
  ASSUME AnswerInv, NEW w \in Actor, task[w].phase \in Unrecorded,
         NEW a, a = task[w].answer, EnqueueResponse(a),
         NEW p \in {"noteThenSend", "noteThenFail", "noteThenComplete"},
         TaskTypeOK', task'[w].phase = p, task'[w].answer = a,
         p = "noteThenSend" => task'[w].row,
         \A v \in Actor : v # w => task'[v] = task[v],
         UNCHANGED <<ledger, retrying, takes, ends, inbox>>
  PROVE  AnswerInv'
<1>1. /\ TaskTypeOK /\ TaskOK(w) /\ LineOK(a) /\ a \in Answer
      /\ task[w].phase # "idle"
  BY AtWork DEF Unrecorded
<1>2. Fresh(a)
  BY <1>1 DEF TaskOK
<1>3. AnswerTypeOK'
  BY <1>1 DEF AnswerInv, AnswerTypeOK, TaskTypeOK, EnqueueResponse, retrying,
     ends
<1>4. TaskOK(w)' /\ LineOK(a)'
  BY <1>1, <1>2
  DEF TaskOK, LineOK, Fresh, Unrecorded, Stored, Settled, EnqueueResponse
<1>5. Grows
  BY DEF Grows, EnqueueResponse, ends
<1>. QED
  BY <1>1, <1>2, <1>3, <1>4, <1>5, ActorStep DEF EnqueueResponse, retrying, ends

(* Going on without a row, a line or a send.                               *)
LEMMA PlainStep ==
  ASSUME AnswerInv, NEW w \in Actor, task[w].phase # "idle",
         NEW a, a = task[w].answer,
         NEW p \in Phase, Go(w, p), p # "idle",
         UNCHANGED <<delivery, retrying, takes, sent, givenUp, inbox>>,
         silent \subseteq silent', silent' \subseteq Message,
         \/ p \in Unrecorded \cup {"sending"} /\ task[w].phase \in Unrecorded
         \/ p = "completing" /\ (Settled(a) \/ a[1] \in silent')
  PROVE  AnswerInv'
<1>1. TaskTypeOK /\ TaskOK(w) /\ LineOK(a) /\ a \in Answer
  BY AtWork
<1>2. /\ TaskTypeOK'
      /\ task'[w].phase = p /\ task'[w].answer = a /\ task'[w].row = task[w].row
      /\ \A v \in Actor : v # w => task'[v] = task[v]
  BY <1>1, GoMeans
<1>3. AnswerTypeOK'
  BY <1>2 DEF AnswerInv, AnswerTypeOK, TaskTypeOK, delivery, retrying
<1>4. TaskOK(w)' /\ LineOK(a)'
  BY <1>1, <1>2 DEF TaskOK, LineOK, Fresh, Unrecorded, Stored, Settled, delivery
<1>5. Grows
  BY DEF Grows, delivery
<1>. QED
  BY <1>1, <1>2, <1>3, <1>4, <1>5, ActorStep DEF delivery, retrying

LEMMA StoreAnswerStep ==
  ASSUME AnswerInv, NEW w \in Actor, StoreAnswer(w)
  PROVE  AnswerInv'
<1>. PICK a : a = task[w].answer
  OBVIOUS
<1>1. /\ task[w].phase = "answering" /\ task[w].phase \in Unrecorded
      /\ UNCHANGED <<ledger, retrying, takes, ends>>
  BY DEF StoreAnswer, At, Unrecorded
<1>2. ASSUME EnqueueResponse(a), UNCHANGED table,
             task' = [task EXCEPT ![w].row = TRUE,
                        ![w].phase = IF task[w].ok THEN "noteThenSend"
                                                   ELSE "noteThenComplete"]
      PROVE  AnswerInv'
  <2>1. TaskTypeOK
    BY <1>1, AtWork
  <2>2. PICK p \in {"noteThenSend", "noteThenComplete"} :
          task' = [task EXCEPT ![w].row = TRUE, ![w].phase = p]
    BY <1>2
  <2>3. /\ TaskTypeOK' /\ task'[w].phase = p /\ task'[w].answer = a
        /\ task'[w].row
        /\ \A v \in Actor : v # w => task'[v] = task[v]
    BY <2>1, <2>2 DEF TaskTypeOK, Phase
  <2>. QED
    BY <1>1, <1>2, <2>3, EnqueueStep DEF table
<1>3. CASE Go(w, "sending") /\ UNCHANGED <<table, outbox, tries>>
  BY <1>1, <1>3, PlainStep DEF Phase, table, delivery, ends, AnswerInv,
     AnswerTypeOK
<1>4. CASE HandBack(w)
  BY <1>1, <1>4, HandBackStep
<1>. QED
  BY <1>2, <1>3, <1>4 DEF StoreAnswer

LEMMA StoreUnsentStep ==
  ASSUME AnswerInv, NEW w \in Actor, StoreUnsent(w)
  PROVE  AnswerInv'
<1>. PICK a : a = task[w].answer
  OBVIOUS
<1>1. /\ task[w].phase = "requeueing" /\ task[w].phase \in Unrecorded
      /\ UNCHANGED <<ledger, retrying, takes, ends>>
  BY DEF StoreUnsent, At, Unrecorded
<1>2. CASE EnqueueResponse(a) /\ Go(w, "noteThenFail") /\ UNCHANGED table
  <2>1. TaskTypeOK
    BY <1>1, AtWork
  <2>2. /\ TaskTypeOK' /\ task'[w].phase = "noteThenFail" /\ task'[w].answer = a
        /\ \A v \in Actor : v # w => task'[v] = task[v]
    BY <1>2, <2>1, GoMeans DEF Phase
  <2>. QED
    BY <1>1, <1>2, <2>2, EnqueueStep DEF table
<1>3. CASE HandBack(w)
  BY <1>1, <1>3, HandBackStep
<1>. QED
  BY <1>2, <1>3 DEF StoreUnsent

LEMMA ParkNoticeStep ==
  ASSUME AnswerInv, NEW w \in Actor, ParkNotice(w)
  PROVE  AnswerInv'
<1>. PICK a : a = task[w].answer
  OBVIOUS
<1>1. /\ task[w].phase = "parking" /\ task[w].phase \in Unrecorded
      /\ UNCHANGED <<ledger, retrying, takes, sent, givenUp, inbox>>
  BY DEF ParkNotice, At, Unrecorded, table, counts
<1>2. CASE EnqueueResponse(a) /\ Go(w, "noteThenComplete") /\ UNCHANGED silent
  <2>1. TaskTypeOK
    BY <1>1, AtWork
  <2>2. /\ TaskTypeOK' /\ task'[w].phase = "noteThenComplete" /\ task'[w].answer = a
        /\ \A v \in Actor : v # w => task'[v] = task[v]
    BY <1>2, <2>1, GoMeans DEF Phase
  <2>. QED
    BY <1>1, <1>2, <2>2, EnqueueStep DEF ends
<1>3. CASE /\ Go(w, "completing") /\ silent' = silent \cup {Msg(w)}
           /\ UNCHANGED <<outbox, tries>>
  <2>1. Msg(w) = a[1] /\ Msg(w) \in Message
    BY <1>1, AtWork
  <2>2. silent' \subseteq Message /\ silent \subseteq silent' /\ a[1] \in silent'
    BY <1>3, <2>1 DEF AnswerInv, AnswerTypeOK
  <2>. QED
    BY <1>1, <1>3, <2>2, PlainStep DEF Phase, delivery
<1>. QED
  BY <1>2, <1>3 DEF ParkNotice

LEMMA SendNoticeStep ==
  ASSUME AnswerInv, NEW w \in Actor, SendNotice(w)
  PROVE  AnswerInv'
<1>. PICK a : a = task[w].answer
  OBVIOUS
<1>1. /\ task[w].phase = "refusing" /\ task[w].phase \in Unrecorded
      /\ UNCHANGED <<delivery, retrying, takes, givenUp, silent, inbox>>
  BY DEF SendNotice, At, Unrecorded, table, counts
<1>2. CASE sent' = sent \cup {a} /\ Go(w, "completing")
  <2>1. /\ TaskTypeOK /\ TaskOK(w) /\ LineOK(a) /\ a \in Answer
        /\ task[w].phase # "idle"
    BY <1>1, AtWork
  <2>2. /\ TaskTypeOK'
        /\ task'[w].phase = "completing" /\ task'[w].answer = a
        /\ \A v \in Actor : v # w => task'[v] = task[v]
    BY <1>2, <2>1, GoMeans DEF Phase
  <2>3. AnswerTypeOK'
    BY <1>1, <1>2, <2>1, <2>2 DEF AnswerInv, AnswerTypeOK, TaskTypeOK, delivery,
       retrying
  <2>4. TaskOK(w)' /\ LineOK(a)'
    BY <1>1, <1>2, <2>1, <2>2 DEF TaskOK, LineOK, Fresh, Unrecorded, Stored,
       Settled, delivery
  <2>5. Grows
    BY <1>1, <1>2 DEF Grows, delivery
  <2>. QED
    BY <1>1, <2>1, <2>2, <2>3, <2>4, <2>5, ActorStep DEF delivery
<1>3. CASE Go(w, "parking") /\ UNCHANGED sent
  BY <1>1, <1>3, PlainStep DEF Phase, Unrecorded, AnswerInv, AnswerTypeOK
<1>. QED
  BY <1>2, <1>3 DEF SendNotice

LEMMA ClearRowStep ==
  ASSUME AnswerInv, NEW w \in Actor, ClearRow(w)
  PROVE  AnswerInv'
<1>. PICK a : a = task[w].answer
  OBVIOUS
<1>1. /\ task[w].phase = "clearing" /\ Go(w, "delivered")
      /\ UNCHANGED <<ledger, retrying, takes, ends, inbox>>
      /\ DropRow(a) \/ UNCHANGED <<outbox, tries>>
  BY DEF ClearRow, At, table, counts
<1>2. /\ TaskTypeOK /\ TaskOK(w) /\ LineOK(a) /\ a \in Answer
      /\ task[w].phase # "idle"
  BY <1>1, AtWork
<1>3. a \in sent
  BY <1>1, <1>2 DEF TaskOK
<1>4. /\ TaskTypeOK'
      /\ task'[w].phase = "delivered" /\ task'[w].answer = a
      /\ \A v \in Actor : v # w => task'[v] = task[v]
  BY <1>1, <1>2, GoMeans DEF Phase
<1>5. AnswerTypeOK'
  BY <1>1, <1>4, BoundAssumption
  DEF AnswerInv, AnswerTypeOK, TaskTypeOK, DropRow, retrying, ends
<1>6. TaskOK(w)' /\ LineOK(a)'
  BY <1>1, <1>2, <1>3, <1>4
  DEF TaskOK, LineOK, Unrecorded, Stored, Settled, DropRow, ends
<1>7. Grows
  BY <1>1, <1>3 DEF Grows, DropRow, ends
<1>. QED
  BY <1>1, <1>2, <1>4, <1>5, <1>6, <1>7, ActorStep DEF DropRow, retrying, ends

(* Mark changes the line of one answer, if there is one.                   *)
LEMMA MarkMeans ==
  ASSUME AnswerTypeOK, NEW a, NEW s \in DeliveryStatus, Mark(a, s)
  PROVE  /\ ledger' \in [Answer -> DeliveryStatus \cup {"none"}]
         /\ \A x \in Answer :
              /\ x # a => ledger'[x] = ledger[x]
              /\ ledger'[x] = "none" <=> ledger[x] = "none"
         /\ a \in Answer => ledger'[a] = IF ledger[a] = "none" THEN "none" ELSE s
BY DEF AnswerTypeOK, DeliveryStatus, Mark

(* So does an update, unless it fails.                                     *)
LEMMA UpdateMeans ==
  ASSUME AnswerTypeOK, NEW a, NEW s \in DeliveryStatus, UpdateLedger(a, s)
  PROVE  /\ ledger' \in [Answer -> DeliveryStatus \cup {"none"}]
         /\ \A x \in Answer :
              /\ x # a => ledger'[x] = ledger[x]
              /\ ledger'[x] = "none" <=> ledger[x] = "none"
              /\ ledger'[x] # ledger[x] => x = a /\ ledger'[x] = s
<1>1. CASE UNCHANGED ledger
  BY <1>1 DEF AnswerTypeOK
<1>2. CASE Mark(a, s)
  BY <1>2, MarkMeans
<1>. QED
  BY <1>1, <1>2 DEF UpdateLedger

LEMMA MarkOutcomeStep ==
  ASSUME AnswerInv, NEW w \in Actor, MarkOutcome(w)
  PROVE  AnswerInv'
<1>. PICK a : a = task[w].answer
  OBVIOUS
<1>1. /\ task[w].phase \in {"delivered", "undelivered"} /\ Go(w, "completing")
      /\ UNCHANGED <<outbox, tries, retrying, takes, ends, inbox>>
  BY DEF MarkOutcome, table, counts
<1>2. PICK s \in {"delivered", "failed"} :
        UpdateLedger(a, s) /\ (s = "delivered" <=> task[w].phase = "delivered")
  <2>1. CASE task[w].phase = "delivered"
    BY <2>1 DEF MarkOutcome
  <2>2. CASE task[w].phase # "delivered"
    BY <2>2 DEF MarkOutcome
  <2>. QED
    BY <2>1, <2>2
<1>3. /\ TaskTypeOK /\ TaskOK(w) /\ LineOK(a) /\ a \in Answer
      /\ task[w].phase # "idle"
  BY <1>1, AtWork
<1>4. Settled(a) /\ (s = "delivered" => a \in sent)
  BY <1>1, <1>2, <1>3 DEF TaskOK, Stored, Settled
<1>5. /\ TaskTypeOK'
      /\ task'[w].phase = "completing" /\ task'[w].answer = a
      /\ \A v \in Actor : v # w => task'[v] = task[v]
  BY <1>1, <1>3, GoMeans DEF Phase
<1>6. /\ ledger' \in [Answer -> DeliveryStatus \cup {"none"}]
      /\ \A x \in Answer : x # a => ledger'[x] = ledger[x]
      /\ ledger'[a] # ledger[a] => ledger'[a] = s /\ ledger[a] # "none"
  <2>1. s \in DeliveryStatus /\ AnswerTypeOK
    BY DEF DeliveryStatus, AnswerInv
  <2>. QED
    BY <1>2, <1>3, <2>1, UpdateMeans DEF DeliveryStatus
<1>7. AnswerTypeOK'
  BY <1>1, <1>5, <1>6 DEF AnswerInv, AnswerTypeOK, TaskTypeOK, retrying, ends
<1>8. TaskOK(w)' /\ LineOK(a)'
  BY <1>1, <1>3, <1>4, <1>5, <1>6
  DEF TaskOK, LineOK, Fresh, Unrecorded, Stored, Settled, ends
<1>9. Grows
  BY <1>1 DEF Grows, ends
<1>. QED
  BY <1>1, <1>3, <1>5, <1>6, <1>7, <1>8, <1>9, ActorStep DEF retrying, ends

LEMMA CompleteStep ==
  ASSUME AnswerInv, NEW w \in Actor, Complete(w)
  PROVE  AnswerInv'
<1>. PICK a : a = task[w].answer
  OBVIOUS
<1>1. /\ task[w].phase = "completing" /\ Rest(w)
      /\ UNCHANGED <<delivery, retrying, takes, ends>>
      /\ SetInbox(Msg(w), "done") \/ UNCHANGED inbox
  BY DEF Complete, At, CompleteInboundEvent, table, counts
<1>2. /\ TaskTypeOK /\ TaskOK(w) /\ LineOK(a) /\ a \in Answer
      /\ task[w].phase # "idle" /\ Msg(w) = a[1] /\ Msg(w) \in Message
  BY <1>1, AtWork
<1>3. Settled(a) \/ a[1] \in silent
  BY <1>1, <1>2 DEF TaskOK
<1>4. /\ TaskTypeOK' /\ task'[w].phase = "idle"
      /\ \A v \in Actor : v # w => task'[v] = task[v]
  BY <1>1, <1>2, RestMeans
<1>5. AnswerTypeOK'
  BY <1>1, <1>4 DEF AnswerInv, AnswerTypeOK, TaskTypeOK, delivery, retrying,
     ends
<1>6. TaskOK(w)' /\ LineOK(a)'
  BY <1>1, <1>2, <1>4 DEF TaskOK, LineOK, Settled, delivery, ends
<1>7. Grows
  BY <1>1 DEF Grows, delivery, ends
<1>8. ASSUME NEW m \in Message, inbox'[m] = "done"
      PROVE  \/ inbox[m] = "done" \/ m \in silent'
             \/ \E x \in Answer : Settled(x)' /\ x[1] = m
  <2>1. inbox'[m] = inbox[m] \/ m = a[1]
    <3>1. CASE UNCHANGED inbox
      BY <3>1
    <3>2. CASE SetInbox(Msg(w), "done")
      <4>1. inbox' = [inbox EXCEPT ![a[1]] = "done"]
        BY <1>2, <3>2 DEF SetInbox
      <4>. QED
        BY <4>1
    <3>. QED
      BY <1>1, <3>1, <3>2
  <2>2. Settled(a) => Settled(a)'
    BY <1>7, SettledStays
  <2>. QED
    BY <1>1, <1>2, <1>3, <1>8, <2>1, <2>2 DEF ends
<1>. QED
  BY <1>1, <1>2, <1>4, <1>5, <1>6, <1>7, <1>8, ActorStep DEF delivery,
     retrying, ends

LEMMA AnswerStepKeeps ==
  ASSUME AnswerInv, NEW w \in Actor, AnswerStep(w)
  PROVE  AnswerInv'
BY StoreAnswerStep, NoteAnswerStep, SendAnswerStep, StoreUnsentStep,
   ClearRowStep, MarkOutcomeStep, SendNoticeStep, ParkNoticeStep, CompleteStep
   DEF AnswerStep

-----------------------------------------------------------------------------

(* Rows and lines in the retry loop.                                       *)
LEMMA DropSettled ==
  ASSUME AnswerTypeOK, NEW a, DropRow(a), sent \subseteq sent',
         givenUp \subseteq givenUp', silent \subseteq silent',
         a \in sent' \cup givenUp'
  PROVE  /\ Grows /\ outbox' \subseteq outbox /\ a \notin outbox'
         /\ outbox' \subseteq Answer
         /\ tries' \in [Answer -> 0 .. MaxTries - 1]
<1>1. outbox' = outbox \ {a} /\ tries' = [tries EXCEPT ![a] = 0]
  BY DEF DropRow
<1>2. tries' \in [Answer -> 0 .. MaxTries - 1]
  <2>1. 0 \in 0 .. MaxTries - 1
    BY BoundAssumption
  <2>2. CASE a \in Answer
    BY <1>1, <2>1, <2>2 DEF AnswerTypeOK
  <2>3. CASE a \notin Answer
    BY <1>1, <2>3 DEF AnswerTypeOK
  <2>. QED
    BY <2>2, <2>3
<1>. QED
  BY <1>1, <1>2 DEF Grows, AnswerTypeOK

LEMMA LinesStay ==
  ASSUME AnswerInv, Grows, NEW a \in Answer, ledger'[a] = ledger[a],
         a \in outbox' => a \in outbox
  PROVE  LineOK(a)'
<1>1. LineOK(a)
  BY DEF AnswerInv, LedgerIsTrue, LineOK, Settled
<1>2. Settled(a) => Settled(a)'
  BY SettledStays
<1>. QED
  BY <1>1, <1>2 DEF LineOK, Grows

LEMMA ReadRowsStep ==
  ASSUME AnswerInv, ReadRows
  PROVE  AnswerInv'
<1>1. /\ batch' \subseteq outbox
      /\ UNCHANGED <<task, delivery, retry, takes, ends, inbox>>
  BY DEF ReadRows, table, counts
<1>2. Grows /\ AnswerTypeOK' /\ RetryInv'
  BY <1>1 DEF Grows, AnswerInv, AnswerTypeOK, RetryInv, delivery, ends
<1>. QED
  BY <1>1, <1>2, LinesStay, LoopStep DEF delivery, ends

LEMMA RetryRowStep ==
  ASSUME AnswerInv, NEW a \in Answer, RetryRow(a)
  PROVE  AnswerInv'
<1>1. /\ batch' = batch \ {a} /\ a \in batch
      /\ UNCHANGED <<task, outbox, tries, takes, ends, inbox>>
      /\ \/ UNCHANGED <<ledger, retry>>
         \/ UpdateLedger(a, "sending") /\ retry' = [phase |-> "send", answer |-> a]
  BY DEF RetryRow, table, counts
<1>2. /\ ledger' \in [Answer -> DeliveryStatus \cup {"none"}]
      /\ \A x \in Answer :
           /\ ledger'[x] = "none" <=> ledger[x] = "none"
           /\ ledger'[x] # ledger[x] => ledger'[x] = "sending"
  BY <1>1, UpdateMeans DEF AnswerInv, AnswerTypeOK, DeliveryStatus
<1>3. Grows /\ AnswerTypeOK' /\ RetryInv'
  BY <1>1, <1>2 DEF Grows, AnswerInv, AnswerTypeOK, RetryInv, RetryPhase, ends
<1>4. ASSUME NEW x \in Answer
      PROVE  LineOK(x)'
  <2>1. CASE ledger'[x] = ledger[x]
    BY <1>1, <1>3, <2>1, LinesStay
  <2>2. CASE ledger'[x] # ledger[x]
    <3>1. ledger'[x] = "sending" /\ ledger[x] # "none"
      BY <1>2, <2>2
    <3>2. LineOK(x)
      BY DEF AnswerInv, LedgerIsTrue, LineOK, Settled
    <3>3. Settled(x)'
      BY <1>3, <3>1, <3>2, SettledStays DEF LineOK
    <3>. QED
      BY <3>1, <3>3 DEF LineOK
  <2>. QED
    BY <2>1, <2>2
<1>. QED
  BY <1>1, <1>2, <1>3, <1>4, LoopStep DEF ends

LEMMA ResendStep ==
  ASSUME AnswerInv, Resend
  PROVE  AnswerInv'
<1>. PICK a : a = retry.answer
  OBVIOUS
<1>1. /\ retry.phase = "send"
      /\ UNCHANGED <<task, delivery, batch, takes, givenUp, silent, inbox>>
      /\ \/ sent' = sent \cup {a} /\ retry' = [retry EXCEPT !.phase = "delivered"]
         \/ sent' = sent /\ retry' = [retry EXCEPT !.phase = "bump"]
  BY DEF Resend, AtRetry, GoRetry, table, counts
<1>2. a \in Answer
  BY <1>1 DEF AnswerInv, RetryInv
<1>3. Grows /\ AnswerTypeOK' /\ RetryInv'
  BY <1>1, <1>2
  DEF Grows, AnswerInv, AnswerTypeOK, RetryInv, RetryPhase, delivery
<1>. QED
  BY <1>1, <1>3, LinesStay, LoopStep DEF delivery

LEMMA CountFailureStep ==
  ASSUME AnswerInv, CountFailure
  PROVE  AnswerInv'
<1>. USE BoundAssumption
<1>. PICK a : a = retry.answer
  OBVIOUS
<1>1. /\ retry.phase = "bump"
      /\ UNCHANGED <<task, ledger, batch, takes, sent, silent, inbox>>
  BY DEF CountFailure, AtRetry, table, counts
<1>2. a \in Answer /\ AnswerTypeOK
  BY <1>1 DEF AnswerInv, RetryInv
<1>3. PICK s \in {"queued", "dropped", "failed"} :
        /\ retry' = [retry EXCEPT !.phase = s]
        /\ \/ /\ s = "queued" /\ tries[a] + 1 < MaxTries
              /\ tries' = [tries EXCEPT ![a] = @ + 1]
              /\ UNCHANGED <<outbox, givenUp>>
           \/ /\ s = "dropped" /\ a \in outbox
              /\ DropRow(a) /\ givenUp' = givenUp \cup {a}
           \/ s = "failed" /\ UNCHANGED <<outbox, tries, givenUp>>
  BY DEF CountFailure, GoRetry
<1>4. /\ Grows /\ outbox' \subseteq outbox
      /\ outbox' \cup givenUp' \subseteq outbox \cup givenUp
      /\ outbox' \subseteq Answer /\ givenUp' \subseteq Answer
      /\ tries' \in [Answer -> 0 .. MaxTries - 1]
      /\ s = "dropped" => a \in givenUp' \ outbox'
  <2>1. CASE s = "queued"
    BY <1>1, <1>2, <1>3, <2>1 DEF Grows, AnswerTypeOK
  <2>2. CASE s = "dropped"
    <3>1. a \in outbox /\ DropRow(a) /\ givenUp' = givenUp \cup {a}
      BY <1>3, <2>2
    <3>. QED
      BY <1>1, <1>2, <3>1, DropSettled DEF AnswerTypeOK
  <2>3. CASE s = "failed"
    BY <1>1, <1>2, <1>3, <2>3 DEF Grows, AnswerTypeOK
  <2>. QED
    BY <2>1, <2>2, <2>3
<1>5. /\ retry' \in [phase : RetryPhase, answer : Answer \cup {NoAnswer}]
      /\ retry'.phase = s /\ retry'.answer = a
  BY <1>1, <1>2, <1>3 DEF AnswerTypeOK, RetryPhase
<1>6. AnswerTypeOK' /\ RetryInv'
  BY <1>1, <1>2, <1>4, <1>5 DEF AnswerTypeOK, RetryInv
<1>7. \A x \in Answer : LineOK(x)'
  BY <1>1, <1>4, LinesStay
<1>. QED
  BY <1>1, <1>4, <1>6, <1>7, LoopStep

LEMMA NoteRetryStep ==
  ASSUME AnswerInv, NoteRetry
  PROVE  AnswerInv'
<1>. PICK a : a = retry.answer
  OBVIOUS
<1>. PICK s : s = retry.phase
  OBVIOUS
<1>1. /\ s \in {"queued", "dropped", "failed", "delivered"}
      /\ UpdateLedger(a, s)
      /\ retry' = NoRetry \/ (s = "delivered" /\ GoRetry("clear"))
      /\ UNCHANGED <<task, outbox, tries, batch, takes, ends, inbox>>
  BY DEF NoteRetry, table, counts
<1>2. /\ a \in Answer /\ AnswerTypeOK
      /\ s = "delivered" => a \in sent
      /\ s = "dropped" => a \in givenUp \ outbox
  BY <1>1 DEF AnswerInv, RetryInv
<1>3. /\ ledger' \in [Answer -> DeliveryStatus \cup {"none"}]
      /\ \A x \in Answer :
           /\ ledger'[x] = "none" <=> ledger[x] = "none"
           /\ ledger'[x] # ledger[x] => x = a /\ ledger'[x] = s
  <2>1. s \in DeliveryStatus
    BY <1>1 DEF DeliveryStatus
  <2>. QED
    BY <1>1, <1>2, <2>1, UpdateMeans
<1>4. Grows
  BY <1>1 DEF Grows, ends
<1>5. AnswerTypeOK' /\ RetryInv'
  BY <1>1, <1>2, <1>3
  DEF AnswerTypeOK, RetryInv, NoRetry, GoRetry, RetryPhase, ends
<1>6. ASSUME NEW x \in Answer
      PROVE  LineOK(x)'
  <2>1. CASE ledger'[x] = ledger[x]
    BY <1>1, <1>4, <2>1, LinesStay
  <2>2. CASE ledger'[x] # ledger[x]
    <3>1. x = a /\ ledger'[x] = s /\ ledger[x] # "none"
      BY <1>1, <1>3, <2>2
    <3>2. LineOK(x)
      BY DEF AnswerInv, LedgerIsTrue, LineOK, Settled
    <3>3. Settled(x)'
      BY <1>4, <3>1, <3>2, SettledStays DEF LineOK
    <3>. QED
      BY <1>1, <1>2, <3>1, <3>3 DEF LineOK, ends
  <2>. QED
    BY <2>1, <2>2
<1>. QED
  BY <1>1, <1>3, <1>4, <1>5, <1>6, LoopStep DEF ends

LEMMA ClearRetriedStep ==
  ASSUME AnswerInv, ClearRetried
  PROVE  AnswerInv'
<1>. PICK a : a = retry.answer
  OBVIOUS
<1>1. /\ retry' = NoRetry /\ retry.phase = "clear"
      /\ DropRow(a) \/ UNCHANGED <<outbox, tries>>
      /\ UNCHANGED <<task, ledger, batch, takes, ends, inbox>>
  BY DEF ClearRetried, AtRetry, table, counts
<1>2. a \in Answer /\ a \in sent /\ AnswerTypeOK
  BY <1>1 DEF AnswerInv, RetryInv
<1>3. /\ Grows /\ outbox' \subseteq outbox
      /\ outbox' \subseteq Answer
      /\ tries' \in [Answer -> 0 .. MaxTries - 1]
  <2>1. CASE DropRow(a)
    BY <1>1, <1>2, <2>1, DropSettled DEF ends
  <2>2. CASE UNCHANGED <<outbox, tries>>
    BY <1>1, <1>2, <2>2 DEF Grows, AnswerTypeOK, ends
  <2>. QED
    BY <1>1, <2>1, <2>2
<1>4. AnswerTypeOK' /\ RetryInv'
  BY <1>1, <1>2, <1>3 DEF AnswerTypeOK, RetryInv, NoRetry, RetryPhase, ends
<1>5. \A x \in Answer : LineOK(x)'
  BY <1>1, <1>3, LinesStay
<1>. QED
  BY <1>1, <1>3, <1>4, <1>5, LoopStep DEF ends

LEMMA ExpireStep ==
  ASSUME AnswerInv, NEW a \in Answer, Expire(a)
  PROVE  AnswerInv'
<1>1. /\ DropRow(a) /\ givenUp' = givenUp \cup {a}
      /\ a \in outbox
      /\ UNCHANGED <<task, ledger, retrying, takes, sent, silent, inbox>>
  BY DEF Expire, table, counts
<1>2. /\ Grows /\ outbox' \subseteq outbox
      /\ outbox' \subseteq Answer
      /\ tries' \in [Answer -> 0 .. MaxTries - 1]
  BY <1>1, DropSettled DEF AnswerInv
<1>3. AnswerTypeOK' /\ RetryInv'
  BY <1>1, <1>2 DEF AnswerInv, AnswerTypeOK, RetryInv, retrying
<1>4. \A x \in Answer : LineOK(x)'
  BY <1>1, <1>2, LinesStay
<1>. QED
  BY <1>1, <1>2, <1>3, <1>4, LoopStep

-----------------------------------------------------------------------------
(* Jobs and claims.                                                        *)

(* How often m is among the first n entries of f.                          *)
Places(f, n, m) == {i \in 1 .. n : f[i] = m}
Copies(f, n, m) == Cardinality(Places(f, n, m))

LEMMA CopiesNat ==
  ASSUME NEW f, NEW n \in Nat, NEW m
  PROVE  IsFiniteSet(Places(f, n, m)) /\ Copies(f, n, m) \in Nat
<1>1. IsFiniteSet(1 .. n) /\ Places(f, n, m) \in SUBSET (1 .. n)
  BY FS_Interval DEF Places
<1>. QED
  BY <1>1, FS_Subset, FS_CardinalityType DEF Copies

LEMMA CopiesSame ==
  ASSUME NEW f, NEW g, NEW n \in Nat, NEW m, \A i \in 1 .. n : g[i] = f[i]
  PROVE  Copies(g, n, m) = Copies(f, n, m)
<1>1. Places(g, n, m) = Places(f, n, m)
  BY DEF Places
<1>. QED
  BY <1>1 DEF Copies

(* Entries added behind, m at most once among them.                        *)
LEMMA CopiesAdded ==
  ASSUME NEW f, NEW g, NEW n \in Nat, NEW k \in Nat, NEW m,
         \A i \in 1 .. n : g[i] = f[i],
         \A i, j \in n + 1 .. n + k : g[i] = m /\ g[j] = m => i = j
  PROVE  /\ Copies(g, n + k, m) <= Copies(f, n, m) + 1
         /\ (\A i \in n + 1 .. n + k : g[i] # m) =>
              Copies(g, n + k, m) <= Copies(f, n, m)
<1>. DEFINE F == Places(f, n, m)
            G == Places(g, n + k, m)
<1>1. IsFiniteSet(F) /\ Cardinality(F) \in Nat
  BY CopiesNat DEF Copies
<1>2. CASE \A i \in n + 1 .. n + k : g[i] # m
  <2>1. G = F
    BY <1>2 DEF Places
  <2>. QED
    BY <1>1, <2>1 DEF Copies
<1>3. ASSUME NEW i \in n + 1 .. n + k, g[i] = m
      PROVE  Copies(g, n + k, m) <= Copies(f, n, m) + 1
  <2>1. G = F \cup {i} /\ i \notin F
    BY <1>3 DEF Places
  <2>. HIDE DEF F, G
  <2>2. Cardinality(G) = Cardinality(F) + 1
    BY <1>1, <2>1, FS_AddElement
  <2>. QED
    BY <1>1, <2>2 DEF Copies, F, G
<1>. QED
  BY <1>1, <1>2, <1>3 DEF Copies

(* The last entry taken away.                                              *)
LEMMA CopiesOfFront ==
  ASSUME NEW f, NEW g, NEW n \in Nat \ {0}, NEW m,
         \A i \in 1 .. n - 1 : g[i] = f[i]
  PROVE  /\ Copies(g, n - 1, m) <= Copies(f, n, m)
         /\ f[n] = m => Copies(g, n - 1, m) + 1 <= Copies(f, n, m)
<1>. DEFINE F == Places(f, n, m)
            G == Places(g, n - 1, m)
<1>1. IsFiniteSet(F) /\ Cardinality(F) \in Nat
  BY CopiesNat DEF Copies
<1>2. G = F \ {n} /\ (n \in F <=> f[n] = m)
  BY DEF Places
<1>. HIDE DEF F, G
<1>3. Cardinality(G) = IF n \in F THEN Cardinality(F) - 1 ELSE Cardinality(F)
  BY <1>1, <1>2, FS_RemoveElement
<1>. QED
  BY <1>1, <1>2, <1>3 DEF Copies, F, G

(* The first entry taken away.                                             *)
LEMMA CopiesOfTail ==
  ASSUME NEW f, NEW g, NEW n \in Nat \ {0}, NEW m,
         \A i \in 1 .. n - 1 : g[i] = f[i + 1]
  PROVE  /\ Copies(g, n - 1, m) <= Copies(f, n, m)
         /\ f[1] = m => Copies(g, n - 1, m) + 1 <= Copies(f, n, m)
<1>. DEFINE F == Places(f, n, m)
            G == Places(g, n - 1, m)
            h == [i \in G |-> i + 1]
<1>1. IsFiniteSet(F) /\ Cardinality(F) \in Nat
  BY CopiesNat DEF Copies
<1>2. IsFiniteSet(F \ {1})
      /\ Cardinality(F \ {1}) = IF 1 \in F THEN Cardinality(F) - 1 ELSE Cardinality(F)
  BY <1>1, FS_RemoveElement
<1>3. 1 \in F <=> f[1] = m
  BY DEF Places
<1>4. h \in Injection(G, F \ {1})
  <2>1. \A i \in G : i \in Int /\ i + 1 \in F \ {1}
    BY DEF Places
  <2>. QED
    BY <2>1 DEF Injection, IsInjective
<1>. HIDE DEF F, G, h
<1>5. Cardinality(G) <= Cardinality(F \ {1}) /\ IsFiniteSet(G)
  BY <1>2, <1>4, FS_Injection
<1>6. Cardinality(G) \in Nat
  BY <1>5, FS_CardinalityType
<1>. QED
  BY <1>1, <1>2, <1>3, <1>5, <1>6 DEF Copies, F, G

(* A message of the table that the drain may claim, or is not there yet.   *)
Open(m) == inbox[m] = "absent" \/ Claimable(m)
Due(m) == IF Open(m) THEN 1 ELSE 0

(* Claims of m that have not become jobs begun.                            *)
JobMessages == [i \in DOMAIN jobs |-> jobs[i].msg]
InStream(m) == Copies(stream, Len(stream), m)
InJobs(m) == Copies(JobMessages, Len(jobs), m)

(* Every job begun, claim under way and claim to come of a message but the *)
(* first has had its reason.                                               *)
TakesInv ==
  \A m \in Message : takes[m] + InStream(m) + InJobs(m) + Due(m) <= 1 + again[m]

(* The table holds a message once.                                         *)
ArrivalInv ==
  /\ \A i, j \in DOMAIN arrival : i # j => arrival[i] # arrival[j]
  /\ \A i \in DOMAIN arrival : inbox[arrival[i]] # "absent"

TInv == TakesInv /\ ArrivalInv
KnownTypes == FlowTypeOK /\ AnswerTypeOK

LEMMA TakesTypes ==
  ASSUME NEW m \in Message
  PROVE  /\ KnownTypes =>
              /\ takes[m] \in Nat /\ again[m] \in Nat
              /\ InStream(m) \in Nat /\ InJobs(m) \in Nat /\ Due(m) \in {0, 1}
         /\ KnownTypes' =>
              /\ takes'[m] \in Nat /\ again'[m] \in Nat
              /\ InStream(m)' \in Nat /\ InJobs(m)' \in Nat /\ Due(m)' \in {0, 1}
<1>1. /\ KnownTypes => takes[m] \in Nat /\ again[m] \in Nat
      /\ KnownTypes' => takes'[m] \in Nat /\ again'[m] \in Nat
  BY BoundAssumption DEF KnownTypes, FlowTypeOK, AnswerTypeOK
<1>2. /\ KnownTypes => Len(stream) \in Nat /\ Len(jobs) \in Nat
      /\ KnownTypes' => Len(stream') \in Nat /\ Len(jobs') \in Nat
  BY DEF KnownTypes, FlowTypeOK
<1>. QED
  BY <1>1, <1>2, CopiesNat DEF InStream, InJobs, Due

(* What a step must not exceed.                                            *)
LEMMA TakesBalance ==
  ASSUME KnownTypes, KnownTypes', TakesInv,
         NEW m \in Message,
         takes'[m] + InStream(m)' + InJobs(m)' + Due(m)' + again[m]
           <= takes[m] + InStream(m) + InJobs(m) + Due(m) + again'[m]
  PROVE  takes'[m] + InStream(m)' + InJobs(m)' + Due(m)' <= 1 + again'[m]
<1>1. /\ takes[m] \in Nat /\ again[m] \in Nat
      /\ InStream(m) \in Nat /\ InJobs(m) \in Nat /\ Due(m) \in {0, 1}
  BY TakesTypes
<1>2. /\ takes'[m] \in Nat /\ again'[m] \in Nat
      /\ InStream(m)' \in Nat /\ InJobs(m)' \in Nat /\ Due(m)' \in {0, 1}
  BY TakesTypes
<1>3. takes[m] + InStream(m) + InJobs(m) + Due(m) <= 1 + again[m]
  BY DEF TakesInv
<1>. QED
  BY <1>1, <1>2, <1>3

LEMMA StillStep ==
  ASSUME TInv, UNCHANGED <<arrival, inbox, leased, stream, jobs, takes, again>>
  PROVE  TInv'
BY DEF TInv, TakesInv, ArrivalInv, InStream, InJobs, JobMessages, Due, Open,
   Claimable

(* A message reopens only when that is counted as a reason.                *)
LEMMA ReopenStep ==
  ASSUME KnownTypes, KnownTypes', TInv, UNCHANGED <<arrival, stream, jobs, takes>>,
         \A m \in Message : inbox[m] # "absent" => inbox'[m] # "absent",
         \A m \in Message : \/ again'[m] = again[m] /\ (Open(m)' => Open(m))
                            \/ again'[m] = again[m] + 1
  PROVE  TInv'
<1>1. ArrivalInv'
  BY DEF TInv, ArrivalInv, KnownTypes, FlowTypeOK
<1>2. ASSUME NEW m \in Message
      PROVE  takes'[m] + InStream(m)' + InJobs(m)' + Due(m)' <= 1 + again'[m]
  <2>1. InStream(m)' = InStream(m) /\ InJobs(m)' = InJobs(m) /\ takes'[m] = takes[m]
    BY DEF InStream, InJobs, JobMessages
  <2>2. /\ takes[m] \in Nat /\ again[m] \in Nat /\ Due(m)' \in {0, 1}
        /\ InStream(m) \in Nat /\ InJobs(m) \in Nat /\ Due(m) \in {0, 1}
    BY TakesTypes
  <2>3. \/ again'[m] = again[m] /\ Due(m)' <= Due(m)
        \/ again'[m] = again[m] + 1
    BY DEF Due
  <2>4. takes'[m] + InStream(m)' + InJobs(m)' + Due(m)' + again[m]
          <= takes[m] + InStream(m) + InJobs(m) + Due(m) + again'[m]
    BY <2>1, <2>2, <2>3
  <2>. QED
    BY <1>2, <2>4, TakesBalance DEF TInv
<1>. QED
  BY <1>1, <1>2 DEF TInv, TakesInv

(* Claims move on; nothing reopens without giving up a claim for it.       *)
LEMMA MoveOnStep ==
  ASSUME KnownTypes, KnownTypes', TInv, UNCHANGED <<arrival, again>>,
         \A m \in Message : inbox[m] # "absent" => inbox'[m] # "absent",
         \A m \in Message :
           takes'[m] + InStream(m)' + InJobs(m)' + Due(m)'
             <= takes[m] + InStream(m) + InJobs(m) + Due(m)
  PROVE  TInv'
<1>1. ArrivalInv'
  BY DEF TInv, ArrivalInv, KnownTypes, FlowTypeOK
<1>2. ASSUME NEW m \in Message
      PROVE  takes'[m] + InStream(m)' + InJobs(m)' + Due(m)' <= 1 + again'[m]
  <2>1. /\ takes[m] \in Nat /\ again[m] \in Nat
        /\ InStream(m) \in Nat /\ InJobs(m) \in Nat /\ Due(m) \in {0, 1}
        /\ takes'[m] \in Nat /\ InStream(m)' \in Nat /\ InJobs(m)' \in Nat
        /\ Due(m)' \in {0, 1} /\ again'[m] = again[m]
    BY TakesTypes
  <2>2. takes'[m] + InStream(m)' + InJobs(m)' + Due(m)' + again[m]
          <= takes[m] + InStream(m) + InJobs(m) + Due(m) + again'[m]
    BY <2>1
  <2>. QED
    BY <1>2, <2>2, TakesBalance DEF TInv
<1>. QED
  BY <1>1, <1>2 DEF TInv, TakesInv

(* The operations on the two Go channels.                                  *)
LEMMA TailOfStream ==
  ASSUME KnownTypes, stream # <<>>, stream' = Tail(stream), NEW m
  PROVE  /\ InStream(m)' <= InStream(m)
         /\ Head(stream) = m => InStream(m)' + 1 <= InStream(m)
<1>1. /\ Len(stream) \in Nat \ {0} /\ Head(stream) = stream[1]
      /\ Len(stream') = Len(stream) - 1
      /\ \A i \in 1 .. Len(stream) - 1 : stream'[i] = stream[i + 1]
  BY DEF KnownTypes, FlowTypeOK
<1>2. /\ Copies(stream', Len(stream) - 1, m) <= Copies(stream, Len(stream), m)
      /\ stream[1] = m =>
           Copies(stream', Len(stream) - 1, m) + 1 <= Copies(stream, Len(stream), m)
  BY <1>1, CopiesOfTail
<1>. QED
  BY <1>1, <1>2 DEF InStream

LEMMA FrontOfStream ==
  ASSUME KnownTypes, stream # <<>>, stream' = SubSeq(stream, 1, Len(stream) - 1),
         NEW m
  PROVE  /\ InStream(m)' <= InStream(m)
         /\ stream[Len(stream)] = m => InStream(m)' + 1 <= InStream(m)
<1>. PICK n : n = Len(stream)
  OBVIOUS
<1>0. stream \in Seq(Message) /\ n \in Nat \ {0}
  BY DEF KnownTypes, FlowTypeOK
<1>1. /\ Len(stream) \in Nat \ {0}
      /\ Len(stream') = Len(stream) - 1
      /\ \A i \in 1 .. Len(stream) - 1 : stream'[i] = stream[i]
  <2>1. stream' = SubSeq(stream, 1, n - 1)
    OBVIOUS
  <2>2. /\ SubSeq(stream, 1, n - 1) = [i \in 1 .. n - 1 |-> stream[i]]
        /\ Len(SubSeq(stream, 1, n - 1)) = n - 1
    BY <1>0
  <2>. QED
    BY <1>0, <2>1, <2>2
<1>2. /\ Copies(stream', Len(stream) - 1, m) <= Copies(stream, Len(stream), m)
      /\ stream[Len(stream)] = m =>
           Copies(stream', Len(stream) - 1, m) + 1 <= Copies(stream, Len(stream), m)
  BY <1>1, CopiesOfFront
<1>. QED
  BY <1>1, <1>2 DEF InStream

LEMMA TailOfJobs ==
  ASSUME KnownTypes, jobs # <<>>, jobs' = Tail(jobs), NEW m
  PROVE  /\ InJobs(m)' <= InJobs(m)
         /\ Head(jobs).msg = m => InJobs(m)' + 1 <= InJobs(m)
<1>1. /\ Len(jobs) \in Nat \ {0} /\ Head(jobs) = jobs[1]
      /\ Len(jobs') = Len(jobs) - 1
      /\ DOMAIN jobs = 1 .. Len(jobs) /\ DOMAIN jobs' = 1 .. Len(jobs) - 1
      /\ \A i \in 1 .. Len(jobs) - 1 : jobs'[i] = jobs[i + 1]
  BY DEF KnownTypes, FlowTypeOK
<1>2. /\ \A i \in 1 .. Len(jobs) - 1 : JobMessages'[i] = JobMessages[i + 1]
      /\ JobMessages[1] = Head(jobs).msg
  BY <1>1 DEF JobMessages
<1>3. /\ Copies(JobMessages', Len(jobs) - 1, m) <= Copies(JobMessages, Len(jobs), m)
      /\ JobMessages[1] = m =>
           Copies(JobMessages', Len(jobs) - 1, m) + 1 <= Copies(JobMessages, Len(jobs), m)
  BY <1>1, <1>2, CopiesOfTail
<1>. QED
  BY <1>1, <1>2, <1>3 DEF InJobs

LEMMA JobAdded ==
  ASSUME KnownTypes, NEW j, jobs' = Append(jobs, j), NEW m
  PROVE  /\ InJobs(m)' <= InJobs(m) + 1
         /\ j.msg # m => InJobs(m)' <= InJobs(m)
<1>1. /\ Len(jobs) \in Nat /\ Len(jobs') = Len(jobs) + 1
      /\ DOMAIN jobs = 1 .. Len(jobs) /\ DOMAIN jobs' = 1 .. Len(jobs) + 1
      /\ \A i \in 1 .. Len(jobs) : jobs'[i] = jobs[i]
      /\ jobs'[Len(jobs) + 1] = j
  BY DEF KnownTypes, FlowTypeOK
<1>2. /\ \A i \in 1 .. Len(jobs) : JobMessages'[i] = JobMessages[i]
      /\ JobMessages'[Len(jobs) + 1] = j.msg
  BY <1>1 DEF JobMessages
<1>3. \A i \in Len(jobs) + 1 .. Len(jobs) + 1 : i = Len(jobs) + 1
  BY <1>1
<1>4. /\ Copies(JobMessages', Len(jobs) + 1, m) <= Copies(JobMessages, Len(jobs), m) + 1
      /\ j.msg # m =>
           Copies(JobMessages', Len(jobs) + 1, m) <= Copies(JobMessages, Len(jobs), m)
  BY <1>1, <1>2, <1>3, CopiesAdded
<1>. QED
  BY <1>1, <1>4 DEF InJobs

(* Releasing a message opens it, no other statement does.                  *)
LEMMA SetInboxOpens ==
  ASSUME KnownTypes, NEW x \in Message, NEW s \in {"queued", "done", "failed"},
         SetInbox(x, s), NEW m \in Message
  PROVE  /\ inbox'[m] # "absent" \/ inbox[m] = "absent"
         /\ m # x \/ s # "queued" => Due(m)' <= Due(m)
         /\ Due(m)' <= Due(m) + 1
<1>1. /\ inbox'[m] = IF m = x THEN s ELSE inbox[m]
      /\ m # x => (m \in leased' <=> m \in leased)
  BY DEF SetInbox, KnownTypes, FlowTypeOK
<1>. QED
  BY <1>1 DEF Due, Open, Claimable

LEMMA PublishTakes ==
  ASSUME KnownTypes, KnownTypes', TInv, NEW c \in Instance, PublishEvent(c)
  PROVE  TInv'
<1>. PICK x : x = hand[c]
  OBVIOUS
<1>1. /\ UNCHANGED <<leased, stream, jobs, takes, again>> /\ x \in Message
      /\ arrival \in Seq(Message)
      /\ inbox \in [Message -> InboxStatus \cup {"absent"}]
  BY DEF PublishEvent, flow, counts, KnownTypes, FlowTypeOK
<1>2. CASE inbox[x] # "absent"
  BY <1>1, <1>2, StillStep DEF PublishEvent
<1>3. CASE inbox[x] = "absent"
  <2>1. /\ arrival' = Append(arrival, x)
        /\ inbox' = [inbox EXCEPT ![x] = "queued"]
    BY <1>3 DEF PublishEvent
  <2>2. /\ Len(arrival) \in Nat /\ DOMAIN arrival = 1 .. Len(arrival)
        /\ DOMAIN arrival' = 1 .. Len(arrival) + 1
        /\ arrival'[Len(arrival) + 1] = x
        /\ \A i \in DOMAIN arrival : arrival'[i] = arrival[i] /\ arrival[i] \in Message
    BY <1>1, <2>1
  <2>3. \A i \in DOMAIN arrival : arrival[i] # x /\ inbox[arrival[i]] # "absent"
    BY <1>3 DEF TInv, ArrivalInv
  <2>4. \A i \in DOMAIN arrival' : i \in DOMAIN arrival \/ i = Len(arrival) + 1
    BY <2>2
  <2>5. ArrivalInv'
    <3>1. ASSUME NEW i \in DOMAIN arrival', NEW j \in DOMAIN arrival', i # j
          PROVE  arrival'[i] # arrival'[j]
      BY <2>2, <2>3, <2>4, <3>1 DEF TInv, ArrivalInv
    <3>2. ASSUME NEW i \in DOMAIN arrival'
          PROVE  inbox'[arrival'[i]] # "absent"
      BY <1>1, <2>1, <2>2, <2>3, <2>4, <3>2
    <3>. QED
      BY <3>1, <3>2 DEF ArrivalInv
  <2>6. ASSUME NEW m \in Message
        PROVE  Due(m)' = Due(m) /\ InStream(m)' = InStream(m) /\ InJobs(m)' = InJobs(m)
    BY <1>1, <1>3, <2>1 DEF Due, Open, Claimable, InStream, InJobs, JobMessages
  <2>. QED
    BY <1>1, <2>5, <2>6 DEF TInv, TakesInv
<1>. QED
  BY <1>2, <1>3

(* The drain claims every open message once, as the table has it once.     *)
LEMMA ClaimTakes ==
  ASSUME KnownTypes, KnownTypes', TInv, Claim
  PROVE  TInv'
<1>. DEFINE due == {m \in Message : Claimable(m)}
<1>1. PICK n \in 1 .. Len(arrival) : \E f \in [1 .. n -> due] :
             Range(f) = due /\ InOrder(f) /\ stream' = stream \o f
  BY DEF Claim
<1>2. PICK f \in [1 .. n -> due] :
             Range(f) = due /\ InOrder(f) /\ stream' = stream \o f
  BY <1>1
<1>3. /\ UNCHANGED <<arrival, jobs, takes, again>>
      /\ inbox' = [m \in Message |-> IF m \in due THEN "processing" ELSE inbox[m]]
      /\ leased' = leased \cup due
  BY DEF Claim, counts
<1>4. /\ Len(stream) \in Nat /\ n \in Nat /\ stream \in Seq(Message)
      /\ \A m \in due : m \in Message
      /\ f \in Seq(Message) /\ Len(f) = n /\ DOMAIN f = 1 .. n
  <2>1. Len(stream) \in Nat /\ stream \in Seq(Message) /\ n \in Nat
    BY <1>1 DEF KnownTypes, FlowTypeOK
  <2>2. \A m \in due : m \in Message
    OBVIOUS
  <2>. HIDE DEF due
  <2>3. DOMAIN f = 1 .. n /\ f \in [1 .. n -> Message]
    BY <2>2
  <2>4. f \in Seq(Message)
    BY <2>1, <2>3
  <2>5. Len(f) = n
    BY <2>1, <2>3, <2>4
  <2>. QED
    BY <2>1, <2>2, <2>3, <2>4, <2>5
<1>5. ASSUME NEW m \in Message
      PROVE  /\ m \in due => Due(m)' = 0 /\ Due(m) = 1
             /\ m \notin due => Due(m)' = Due(m)
             /\ inbox[m] # "absent" => inbox'[m] # "absent"
  <2>1. m \in due <=> Claimable(m)
    OBVIOUS
  <2>2. CASE m \in due
    BY <1>3, <2>1, <2>2 DEF Due, Open, Claimable
  <2>3. CASE m \notin due
    <3>1. inbox'[m] = inbox[m] /\ (m \in leased' <=> m \in leased)
      BY <1>3, <2>3
    <3>. QED
      BY <2>3, <3>1 DEF Due, Open, Claimable
  <2>. QED
    BY <2>2, <2>3
<1>. HIDE DEF due
<1>6. \A i, j \in 1 .. n : f[i] = f[j] => i = j
  <2>1. ASSUME NEW i \in 1 .. n, NEW j \in 1 .. n, i < j
        PROVE  f[i] # f[j]
    <3>1. PICK k, l \in DOMAIN arrival :
                 k < l /\ arrival[k] = f[i] /\ arrival[l] = f[j]
      <4>1. i \in DOMAIN f /\ j \in DOMAIN f
        BY <1>4
      <4>. QED
        BY <1>2, <2>1, <4>1, Zenon DEF InOrder
    <3>2. k # l
      BY <3>1 DEF KnownTypes, FlowTypeOK
    <3>. QED
      BY <3>1, <3>2 DEF TInv, ArrivalInv
  <2>. QED
    BY <1>4, <2>1
<1>7. /\ Len(stream') = Len(stream) + n
      /\ \A i \in 1 .. Len(stream) : stream'[i] = stream[i]
      /\ \A i \in Len(stream) + 1 .. Len(stream) + n :
           stream'[i] = f[i - Len(stream)] /\ i - Len(stream) \in 1 .. n
  BY <1>2, <1>4
<1>8. ASSUME NEW m \in Message
      PROVE  /\ InStream(m)' <= InStream(m) + 1
             /\ m \notin due => InStream(m)' <= InStream(m)
  <2>1. \A i, j \in Len(stream) + 1 .. Len(stream) + n :
          stream'[i] = m /\ stream'[j] = m => i = j
    <3>1. ASSUME NEW i \in Len(stream) + 1 .. Len(stream) + n,
                 NEW j \in Len(stream) + 1 .. Len(stream) + n,
                 stream'[i] = m, stream'[j] = m
          PROVE  i = j
      <4>1. i - Len(stream) = j - Len(stream)
        BY <1>6, <1>7, <3>1
      <4>. QED
        BY <1>4, <4>1
    <3>. QED
      BY <3>1
  <2>2. m \notin due => \A i \in Len(stream) + 1 .. Len(stream) + n : stream'[i] # m
    BY <1>2, <1>7
  <2>3. /\ Copies(stream', Len(stream) + n, m) <= Copies(stream, Len(stream), m) + 1
        /\ m \notin due =>
             Copies(stream', Len(stream) + n, m) <= Copies(stream, Len(stream), m)
    BY <1>4, <1>7, <2>1, <2>2, CopiesAdded
  <2>. QED
    BY <1>7, <2>3 DEF InStream
<1>9. ASSUME NEW m \in Message
      PROVE  takes'[m] + InStream(m)' + InJobs(m)' + Due(m)'
               <= takes[m] + InStream(m) + InJobs(m) + Due(m)
  <2>1. InJobs(m)' = InJobs(m) /\ takes'[m] = takes[m]
    BY <1>3 DEF InJobs, JobMessages
  <2>2. /\ takes[m] \in Nat /\ InStream(m) \in Nat /\ InJobs(m) \in Nat
        /\ Due(m) \in {0, 1} /\ InStream(m)' \in Nat
    BY TakesTypes
  <2>3. InStream(m)' + Due(m)' <= InStream(m) + Due(m)
    <3>1. CASE m \in due
      BY <1>5, <1>8, <2>2, <3>1
    <3>2. CASE m \notin due
      BY <1>5, <1>8, <2>2, <3>2
    <3>. QED
      BY <3>1, <3>2
  <2>4. Due(m)' \in {0, 1}
    BY TakesTypes
  <2>. QED
    BY <2>1, <2>2, <2>3, <2>4
<1>. QED
  BY <1>3, <1>5, <1>9, MoveOnStep

(* A message leaves the stream and, at most, opens again or begins a job   *)
(* or waits for the worker.                                                *)
LEMMA StreamTakes ==
  ASSUME KnownTypes, KnownTypes', TInv,
         Reject \/ PutBack \/ Dispatch \/ TurnAway
  PROVE  TInv'
<1>. PICK x : x = Head(stream)
  OBVIOUS
<1>1. /\ stream # <<>> /\ stream' = Tail(stream) /\ again' = again
      /\ stream \in Seq(Message)
  BY DEF Reject, PutBack, Dispatch, TurnAway, Arrived, counts, KnownTypes,
     FlowTypeOK
<1>2. x \in Message
  BY <1>1
<1>3. ASSUME NEW m \in Message
      PROVE  /\ InStream(m)' <= InStream(m)
             /\ x = m => InStream(m)' + 1 <= InStream(m)
  BY <1>1, TailOfStream
<1>4. CASE Reject \/ PutBack
  <2>1. PICK s \in {"queued", "done", "failed"} : SetInbox(x, s)
    BY <1>4 DEF Reject, PutBack, CompleteInboundEvent, FailInboundEvent,
       ReleaseInboundEvent
  <2>2. UNCHANGED <<arrival, jobs, takes>>
    BY <1>4, <2>1 DEF Reject, PutBack, SetInbox, counts
  <2>3. ASSUME NEW m \in Message
        PROVE  /\ inbox[m] # "absent" => inbox'[m] # "absent"
               /\ takes'[m] + InStream(m)' + InJobs(m)' + Due(m)'
                    <= takes[m] + InStream(m) + InJobs(m) + Due(m)
    <3>1. InJobs(m)' = InJobs(m) /\ takes'[m] = takes[m]
      BY <2>2 DEF InJobs, JobMessages
    <3>2. /\ takes[m] \in Nat /\ InStream(m) \in Nat /\ InJobs(m) \in Nat
          /\ Due(m) \in {0, 1} /\ InStream(m)' \in Nat /\ Due(m)' \in {0, 1}
      BY TakesTypes
    <3>3. /\ inbox'[m] # "absent" \/ inbox[m] = "absent"
          /\ m # x => Due(m)' <= Due(m)
          /\ Due(m)' <= Due(m) + 1
      BY <1>2, <2>1, SetInboxOpens
    <3>. QED
      BY <1>3, <3>1, <3>2, <3>3
  <2>. QED
    BY <1>1, <2>2, <2>3, MoveOnStep
<1>5. CASE Dispatch
  <2>1. /\ UNCHANGED <<arrival, inbox, leased, takes>>
        /\ \E j : jobs' = Append(jobs, j) /\ j.msg = x
    BY <1>5 DEF Dispatch, table, counts
  <2>2. PICK j : jobs' = Append(jobs, j) /\ j.msg = x
    BY <2>1
  <2>3. ASSUME NEW m \in Message
        PROVE  takes'[m] + InStream(m)' + InJobs(m)' + Due(m)'
                 <= takes[m] + InStream(m) + InJobs(m) + Due(m)
    <3>1. Due(m)' = Due(m) /\ takes'[m] = takes[m]
      BY <2>1 DEF Due, Open, Claimable
    <3>2. /\ takes[m] \in Nat /\ InStream(m) \in Nat /\ InJobs(m) \in Nat
          /\ Due(m) \in {0, 1} /\ InStream(m)' \in Nat /\ InJobs(m)' \in Nat
      BY TakesTypes
    <3>3. /\ InJobs(m)' <= InJobs(m) + 1
          /\ x # m => InJobs(m)' <= InJobs(m)
      BY <2>2, JobAdded
    <3>. QED
      BY <1>3, <3>1, <3>2, <3>3
  <2>. QED
    BY <1>1, <2>1, <2>3, MoveOnStep
<1>6. CASE TurnAway
  <2>1. /\ UNCHANGED <<arrival, inbox, leased, jobs>>
        /\ takes' = [takes EXCEPT ![x] = @ + 1]
        /\ takes \in [Message -> Nat]
    BY <1>6, BoundAssumption DEF TurnAway, Begin, table, KnownTypes,
       AnswerTypeOK
  <2>3. ASSUME NEW m \in Message
        PROVE  takes'[m] + InStream(m)' + InJobs(m)' + Due(m)'
                 <= takes[m] + InStream(m) + InJobs(m) + Due(m)
    <3>1. Due(m)' = Due(m) /\ InJobs(m)' = InJobs(m)
      BY <2>1 DEF Due, Open, Claimable, InJobs, JobMessages
    <3>2. /\ takes[m] \in Nat /\ InStream(m) \in Nat /\ InJobs(m) \in Nat
          /\ Due(m) \in {0, 1} /\ InStream(m)' \in Nat
      BY TakesTypes
    <3>3. takes'[m] = IF x = m THEN takes[m] + 1 ELSE takes[m]
      BY <2>1
    <3>. QED
      BY <1>3, <3>1, <3>2, <3>3
  <2>. QED
    BY <1>1, <2>1, <2>3, MoveOnStep
<1>. QED
  BY <1>4, <1>5, <1>6

(* Of what goes with a worker, a daemon or a reload nothing is left over.  *)
LEMMA FlowTakes ==
  ASSUME KnownTypes, KnownTypes', TInv,
         TakeJob \/ WorkerLeaves \/ Reload \/ Shutdown \/ Die
  PROVE  TInv'
<1>1. CASE TakeJob
  <2>. PICK x : x = Head(jobs).msg
    OBVIOUS
  <2>1. /\ UNCHANGED <<arrival, inbox, leased, stream, again>>
        /\ jobs # <<>> /\ jobs' = Tail(jobs)
        /\ takes' = [takes EXCEPT ![x] = @ + 1]
        /\ takes \in [Message -> Nat]
    BY <1>1, BoundAssumption DEF TakeJob, Begin, table, KnownTypes, AnswerTypeOK
  <2>2. ASSUME NEW m \in Message
        PROVE  takes'[m] + InStream(m)' + InJobs(m)' + Due(m)'
                 <= takes[m] + InStream(m) + InJobs(m) + Due(m)
    <3>1. Due(m)' = Due(m) /\ InStream(m)' = InStream(m)
      BY <2>1 DEF Due, Open, Claimable, InStream
    <3>2. /\ takes[m] \in Nat /\ InStream(m) \in Nat /\ InJobs(m) \in Nat
          /\ Due(m) \in {0, 1} /\ InJobs(m)' \in Nat
      BY TakesTypes
    <3>3. takes'[m] = IF x = m THEN takes[m] + 1 ELSE takes[m]
      BY <2>1
    <3>4. /\ InJobs(m)' <= InJobs(m)
          /\ x = m => InJobs(m)' + 1 <= InJobs(m)
      BY <2>1, TailOfJobs
    <3>. QED
      BY <3>1, <3>2, <3>3, <3>4
  <2>. QED
    BY <2>1, <2>2, MoveOnStep
<1>2. CASE WorkerLeaves \/ Reload \/ Die
  <2>1. UNCHANGED <<arrival, inbox, leased, takes, again>>
    BY <1>2 DEF WorkerLeaves, Reload, Die, table, counts
  <2>2. ASSUME NEW m \in Message
        PROVE  InStream(m)' <= InStream(m) /\ InJobs(m)' <= InJobs(m)
    <3>1. InStream(m) \in Nat /\ InJobs(m) \in Nat
      BY TakesTypes
    <3>2. ASSUME NEW f PROVE Copies(f, Len(<<>>), m) = 0
      <4>1. Places(f, Len(<<>>), m) = {}
        BY DEF Places
      <4>. QED
        BY <4>1, FS_EmptySet DEF Copies
    <3>3. stream' = stream \/ InStream(m)' = 0
      BY <1>2, <3>2 DEF WorkerLeaves, Reload, Die, InStream
    <3>4. stream' = stream => InStream(m)' = InStream(m)
      BY DEF InStream
    <3>5. CASE WorkerLeaves \/ Die
      <4>1. jobs' = <<>>
        BY <3>5 DEF WorkerLeaves, Die
      <4>2. InJobs(m)' = 0
        BY <3>2, <4>1 DEF InJobs
      <4>. QED
        BY <3>1, <3>3, <3>4, <4>2
    <3>6. CASE Reload
      <4>1. jobs' = [i \in DOMAIN jobs |-> [jobs[i] EXCEPT !.old = TRUE]]
        BY <3>6 DEF Reload
      <4>2. /\ jobs \in Seq(Job) /\ jobs' \in Seq(Job) /\ Len(jobs) \in Nat
            /\ DOMAIN jobs = 1 .. Len(jobs)
        BY DEF KnownTypes, FlowTypeOK
      <4>3. DOMAIN jobs' = DOMAIN jobs
        BY <4>1
      <4>4. Len(jobs') = Len(jobs)
        BY <4>2, <4>3
      <4>5. \A i \in 1 .. Len(jobs) : JobMessages'[i] = JobMessages[i]
        BY <4>1, <4>2, <4>3 DEF JobMessages, Job
      <4>6. InJobs(m)' = InJobs(m)
        BY <4>2, <4>4, <4>5, CopiesSame DEF InJobs
      <4>. QED
        BY <3>1, <3>3, <3>4, <4>6
    <3>. QED
      BY <1>2, <3>5, <3>6
  <2>3. ASSUME NEW m \in Message
        PROVE  takes'[m] + InStream(m)' + InJobs(m)' + Due(m)'
                 <= takes[m] + InStream(m) + InJobs(m) + Due(m)
    <3>1. Due(m)' = Due(m) /\ takes'[m] = takes[m]
      BY <2>1 DEF Due, Open, Claimable
    <3>2. /\ takes[m] \in Nat /\ InStream(m) \in Nat /\ InJobs(m) \in Nat
          /\ Due(m) \in {0, 1} /\ InStream(m)' \in Nat /\ InJobs(m)' \in Nat
      BY TakesTypes
    <3>. QED
      BY <2>2, <3>1, <3>2
  <2>. QED
    BY <2>1, <2>3, MoveOnStep
<1>3. CASE Shutdown
  <2>1. UNCHANGED <<jobs, takes, again>>
    BY <1>3 DEF Shutdown, counts
  <2>2. CASE UNCHANGED <<table, stream>>
    BY <2>1, <2>2, StillStep DEF table
  <2>3. CASE ~ UNCHANGED <<table, stream>>
    <3>. PICK x : x = stream[Len(stream)]
      OBVIOUS
    <3>1. /\ stream # <<>> /\ stream' = SubSeq(stream, 1, Len(stream) - 1)
          /\ SetInbox(x, "queued")
      BY <1>3, <2>3 DEF Shutdown, ReleaseInboundEvent
    <3>2. x \in Message
      BY <3>1 DEF KnownTypes, FlowTypeOK
    <3>3. ASSUME NEW m \in Message
          PROVE  /\ inbox[m] # "absent" => inbox'[m] # "absent"
                 /\ takes'[m] + InStream(m)' + InJobs(m)' + Due(m)'
                      <= takes[m] + InStream(m) + InJobs(m) + Due(m)
      <4>1. InJobs(m)' = InJobs(m) /\ takes'[m] = takes[m]
        BY <2>1 DEF InJobs, JobMessages
      <4>2. /\ takes[m] \in Nat /\ InStream(m) \in Nat /\ InJobs(m) \in Nat
            /\ Due(m) \in {0, 1} /\ InStream(m)' \in Nat /\ Due(m)' \in {0, 1}
        BY TakesTypes
      <4>3. /\ inbox'[m] # "absent" \/ inbox[m] = "absent"
            /\ m # x => Due(m)' <= Due(m)
            /\ Due(m)' <= Due(m) + 1
        BY <3>1, <3>2, SetInboxOpens
      <4>4. /\ InStream(m)' <= InStream(m)
            /\ x = m => InStream(m)' + 1 <= InStream(m)
        BY <3>1, FrontOfStream
      <4>. QED
        BY <4>1, <4>2, <4>3, <4>4
    <3>. QED
      BY <2>1, <3>1, <3>3, MoveOnStep DEF SetInbox
  <2>. QED
    BY <2>2, <2>3
<1>. QED
  BY <1>1, <1>2, <1>3

(* The ends of leases, and the statements of the goroutines that answer.   *)
LEMMA ReasonTakes ==
  ASSUME KnownTypes, KnownTypes', TInv,
         \/ \E m \in Message : LeaseEnds(m) \/ RefreshLease(m)
         \/ \E w \in Actor : AnswerStep(w) /\ AnswerInv
  PROVE  TInv'
<1>0. again \in [Message -> Nat] /\ leased \subseteq Message
  BY DEF KnownTypes, FlowTypeOK
<1>1. ASSUME NEW x \in Message, LeaseEnds(x)
      PROVE  TInv'
  <2>1. /\ UNCHANGED <<arrival, inbox, stream, jobs, takes>>
        /\ leased' = leased \ {x}
        /\ again' = [again EXCEPT ![x] = @ + 1]
    BY <1>1 DEF LeaseEnds, flow
  <2>2. ASSUME NEW m \in Message
        PROVE  \/ again'[m] = again[m] /\ (Open(m)' => Open(m))
               \/ again'[m] = again[m] + 1
    BY <1>0, <2>1 DEF Open, Claimable
  <2>. QED
    BY <2>1, <2>2, ReopenStep
<1>2. ASSUME NEW x \in Message, RefreshLease(x)
      PROVE  TInv'
  <2>1. /\ UNCHANGED <<arrival, inbox, stream, jobs, takes, again>>
        /\ leased' = leased \cup {x}
    BY <1>2 DEF RefreshLease, flow, counts
  <2>2. \A m \in Message : again'[m] = again[m] /\ (Open(m)' => Open(m))
    BY <2>1 DEF Open, Claimable
  <2>. QED
    BY <2>1, <2>2, ReopenStep
<1>3. ASSUME NEW w \in Actor, AnswerStep(w), AnswerInv
      PROVE  TInv'
  <2>. PICK x : x = Msg(w)
    OBVIOUS
  <2>1. UNCHANGED <<stream, jobs, takes>>
    BY <1>3 DEF AnswerStep, StoreAnswer, NoteAnswer, SendAnswer, StoreUnsent,
       ClearRow, MarkOutcome, SendNotice, ParkNotice, Complete, flow, counts
  <2>2. \/ UNCHANGED <<table, again>>
        \/ SetInbox(x, "queued") /\ again' = [again EXCEPT ![x] = @ + 1]
        \/ SetInbox(x, "done") /\ UNCHANGED again
    BY <1>3 DEF AnswerStep, StoreAnswer, NoteAnswer, SendAnswer, StoreUnsent,
       ClearRow, MarkOutcome, SendNotice, ParkNotice, Complete, HandBack,
       ReleaseInboundEvent, CompleteInboundEvent, counts
  <2>3. CASE UNCHANGED <<table, again>>
    BY <2>1, <2>3, StillStep DEF table
  <2>4. CASE ~ UNCHANGED <<table, again>>
    <3>1. task[w].phase # "idle"
      BY <1>3, <2>1, <2>4 DEF AnswerStep, StoreAnswer, NoteAnswer, SendAnswer,
         StoreUnsent, ClearRow, MarkOutcome, SendNotice, ParkNotice, Complete,
         At, counts
    <3>2. x \in Message
      BY <1>3, <3>1, AtWork
    <3>3. PICK s \in {"queued", "done"} :
            /\ SetInbox(x, s)
            /\ again' = IF s = "queued" THEN [again EXCEPT ![x] = @ + 1] ELSE again
      BY <2>2, <2>4
    <3>4. ASSUME NEW m \in Message
          PROVE  /\ inbox[m] # "absent" => inbox'[m] # "absent"
                 /\ \/ again'[m] = again[m] /\ (Open(m)' => Open(m))
                    \/ again'[m] = again[m] + 1
      <4>1. /\ inbox'[m] # "absent" \/ inbox[m] = "absent"
            /\ m # x \/ s # "queued" => Due(m)' <= Due(m)
        BY <3>2, <3>3, SetInboxOpens
      <4>2. m # x \/ s # "queued" => (Open(m)' => Open(m))
        BY <4>1 DEF Due
      <4>3. again'[m] = IF m = x /\ s = "queued" THEN again[m] + 1 ELSE again[m]
        BY <1>0, <3>2, <3>3
      <4>. QED
        BY <4>1, <4>2, <4>3
    <3>. QED
      BY <2>1, <3>3, <3>4, ReopenStep DEF SetInbox
  <2>. QED
    BY <2>3, <2>4
<1>. QED
  BY <1>1, <1>2, <1>3

LEMMA NextTInv ==
  ASSUME KnownTypes, KnownTypes', AnswerInv, TInv, [Next]_vars
  PROVE  TInv'
<1>1. CASE \E c \in Instance : ChannelStep(c)
  <2>1. ASSUME NEW c \in Instance,
               ChannelStarts(c) \/ ChannelExits(c) \/ \E m \in Message : Fetch(c, m)
        PROVE  UNCHANGED <<table, flow, counts>>
    BY <2>1 DEF ChannelStarts, ChannelExits, Fetch
  <2>. QED
    BY <1>1, <2>1, PublishTakes, StillStep DEF ChannelStep, table, flow, counts
<1>2. CASE InboxStep
  BY <1>2, ClaimTakes, StreamTakes, ReasonTakes DEF InboxStep
<1>3. CASE WorkerStep
  <2>1. CASE AwaitTurn \/ TurnReturns
    BY <2>1, StillStep DEF AwaitTurn, TurnReturns, table, flow, counts
  <2>. QED
    BY <1>3, <2>1, FlowTakes DEF WorkerStep
<1>4. CASE \E w \in Actor : AnswerStep(w)
  BY <1>4, ReasonTakes
<1>5. CASE RetryStep
  <2>1. UNCHANGED <<table, flow, counts>>
    BY <1>5 DEF RetryStep, ReadRows, Resend, CountFailure, NoteRetry,
       ClearRetried, RetryRow, Expire
  <2>. QED
    BY <2>1, StillStep DEF table, flow, counts
<1>6. CASE ServerStep
  <2>1. CASE \/ \E t \in Turn \ {Chat} : OtherTurn(t)
             \/ ChannelStops \/ BeginRemoval \/ AbandonRemoval \/ Restart
    BY <2>1, StillStep DEF OtherTurn, ChannelStops, BeginRemoval,
       AbandonRemoval, Restart, table, flow, counts
  <2>. QED
    BY <1>6, <2>1, FlowTakes DEF ServerStep
<1>7. CASE UNCHANGED vars
  BY <1>7, StillStep DEF vars, table, flow, counts
<1>. QED
  BY <1>1, <1>2, <1>3, <1>4, <1>5, <1>6, <1>7 DEF Next

-----------------------------------------------------------------------------

ServerInv == IInv /\ SpawnerInv /\ FlowTypeOK /\ AnswerInv

LEMMA InitServerInv == Init => ServerInv
<1> SUFFICES ASSUME Init PROVE ServerInv
  OBVIOUS
<1>. USE BoundAssumption, MessageAssumption
<1>1. IInv
  BY InitIInv DEF Init
<1>2. SpawnerInv
  BY DEF Init, SpawnerInit, SpawnerInv, SpawnerTypeOK, NoStrayChannel
<1>3. FlowTypeOK
  <2>1. <<>> \in Seq(Message) /\ <<>> \in Seq(Job) /\ Len(<<>>) <= QueueSize
    OBVIOUS
  <2>2. /\ mode \in {"up", "stopping", "down"}
        /\ removing \in BOOLEAN /\ canceled \in BOOLEAN
        /\ hand \in [Instance -> Message \cup {NoMessage}]
        /\ seen \in [Instance -> SUBSET Message]
        /\ again \in [Message -> Nat] /\ mishaps \in 0 .. MaxMishap
    <3>1. mode \in {"up", "stopping", "down"} /\ removing \in BOOLEAN
          /\ canceled \in BOOLEAN
      BY DEF Init
    <3>2. hand \in [Instance -> Message \cup {NoMessage}]
      BY DEF Init
    <3>3. seen \in [Instance -> SUBSET Message]
      BY DEF Init
    <3>4. again \in [Message -> Nat]
      BY DEF Init
    <3>5. mishaps \in 0 .. MaxMishap
      BY DEF Init
    <3>. QED
      BY <3>1, <3>2, <3>3, <3>4, <3>5
  <2>3. /\ arrival = <<>> /\ stream = <<>> /\ jobs = <<>>
        /\ inbox \in [Message -> InboxStatus \cup {"absent"}] /\ leased = {}
    BY DEF Init
  <2>4. /\ arrival \in Seq(Message) /\ stream \in Seq(Message)
        /\ jobs \in Seq(Job) /\ Len(jobs) <= QueueSize
    BY <2>1, <2>3
  <2>5. leased \subseteq {m \in Message : inbox[m] = "processing"}
    BY <2>3
  <2>6. inbox \in [Message -> InboxStatus \cup {"absent"}]
    BY <2>3
  <2>. QED
    BY <2>2, <2>4, <2>5, <2>6 DEF FlowTypeOK
<1>4. AnswerInv
  <2>1. AnswerTypeOK
    BY DEF Init, AnswerTypeOK, Idle, NoRetry, Phase, RetryPhase
  <2>2. TaskInv /\ DistinctInv
    BY DEF Init, TaskInv, TaskOK, DistinctInv, Idle
  <2>3. FreshInv /\ RetryInv /\ LedgerIsTrue /\ NoMessageIsLost
    BY DEF Init, FreshInv, Fresh, RetryInv, LedgerIsTrue, NoMessageIsLost,
       NoRetry
  <2>. QED
    BY <2>1, <2>2, <2>3 DEF AnswerInv
<1>. QED
  BY <1>1, <1>2, <1>3, <1>4 DEF ServerInv

LEMMA TurnReturnsStep ==
  ASSUME AnswerInv, TurnReturns
  PROVE  AnswerInv'
<1>. DEFINE w == "worker"
<1>0. w \in Actor
  BY DEF Actor
<1>. PICK a : a = task[w].answer
  OBVIOUS
<1>1. /\ task[w].phase = "turn" /\ task[w].phase \in Unrecorded
      /\ UNCHANGED <<delivery, retrying, takes, sent, givenUp, inbox>>
  BY DEF TurnReturns, At, Unrecorded, table, counts
<1>2. /\ TaskTypeOK /\ LineOK(a) /\ a \in Answer /\ task[w].phase # "idle"
      /\ Msg(w) = a[1] /\ Msg(w) \in Message
  BY <1>0, <1>1, AtWork
<1>3. CASE Rest(w) /\ UNCHANGED silent
  <2>1. /\ TaskTypeOK' /\ task'[w].phase = "idle"
        /\ \A v \in Actor : v # w => task'[v] = task[v]
    BY <1>0, <1>2, <1>3, RestMeans
  <2>2. AnswerTypeOK'
    BY <1>1, <1>3, <2>1 DEF AnswerInv, AnswerTypeOK, TaskTypeOK, delivery,
       retrying
  <2>3. TaskOK(w)' /\ LineOK(a)'
    BY <1>1, <1>2, <2>1 DEF TaskOK, LineOK, Settled, delivery
  <2>4. Grows
    BY <1>1, <1>3 DEF Grows, delivery
  <2>. QED
    BY <1>0, <1>1, <1>2, <2>1, <2>2, <2>3, <2>4, ActorStep DEF delivery
<1>4. CASE Go(w, "answering") /\ UNCHANGED silent
  BY <1>0, <1>1, <1>2, <1>4, PlainStep DEF Phase, Unrecorded, AnswerInv,
     AnswerTypeOK
<1>5. CASE Go(w, "refusing") /\ UNCHANGED silent
  BY <1>0, <1>1, <1>2, <1>5, PlainStep DEF Phase, Unrecorded, AnswerInv,
     AnswerTypeOK
<1>6. CASE Go(w, "completing") /\ silent' = silent \cup {Msg(w)}
  <2>1. silent' \subseteq Message /\ silent \subseteq silent' /\ a[1] \in silent'
    BY <1>2, <1>6 DEF AnswerInv, AnswerTypeOK
  <2>. QED
    BY <1>0, <1>1, <1>2, <1>6, <2>1, PlainStep DEF Phase
<1>. QED
  BY <1>3, <1>4, <1>5, <1>6 DEF TurnReturns

LEMMA NextServerInv == ServerInv /\ [Next]_vars => ServerInv'
<1> SUFFICES ASSUME ServerInv, [Next]_vars PROVE ServerInv'
  OBVIOUS
<1>0. IInv' /\ SpawnerInv' /\ FlowTypeOK'
  BY NextIInv, StepIsAdmissionStep, SpawnerStep, FlowStep DEF ServerInv,
     SpawnerInv
<1>. SUFFICES AnswerInv'
  BY <1>0 DEF ServerInv
<1>00. AnswerInv /\ FlowTypeOK
  BY DEF ServerInv
<1>000. ASSUME UNCHANGED <<task, delivery, retrying, takes, ends, inbox>>
        PROVE  AnswerInv'
  BY <1>00, <1>000, QuietStep DEF ends, AnswerInv, AnswerTypeOK
<1>1. CASE \E c \in Instance : ChannelStep(c)
  <2> SUFFICES ASSUME NEW c \in Instance, ChannelStep(c) PROVE AnswerInv'
    BY <1>1
  <2>1. CASE PublishEvent(c)
    <3>1. UNCHANGED <<task, delivery, retrying, takes, ends>>
      BY <2>1 DEF PublishEvent, counts
    <3>2. \A m \in Message : inbox'[m] = "done" => inbox[m] = "done"
      BY <1>00, <2>1 DEF PublishEvent, FlowTypeOK
    <3>. QED
      BY <1>00, <3>1, <3>2, QuietStep DEF ends, AnswerInv, AnswerTypeOK
  <2>2. CASE ChannelStarts(c) \/ ChannelExits(c) \/ \E m \in Message : Fetch(c, m)
    BY <1>000, <2>2 DEF ChannelStarts, ChannelExits, Fetch, table, counts
  <2>. QED
    BY <2>1, <2>2 DEF ChannelStep
<1>2. CASE InboxStep
  <2>1. CASE Claim
    <3>1. UNCHANGED <<task, delivery, retrying, takes, ends>>
      BY <2>1 DEF Claim, counts
    <3>2. \A m \in Message : inbox'[m] = "done" => inbox[m] = "done"
      BY <2>1 DEF Claim
    <3>. QED
      BY <1>00, <3>1, <3>2, QuietStep DEF ends, AnswerInv, AnswerTypeOK
  <2>2. CASE \E m \in Message : LeaseEnds(m) \/ RefreshLease(m)
    BY <1>000, <2>2 DEF LeaseEnds, RefreshLease, counts
  <2>3. CASE Reject
    <3>. PICK m : m = Head(stream)
      OBVIOUS
    <3>1. m \in Message
      BY <1>00, <2>3 DEF Reject, Arrived, FlowTypeOK
    <3>2. /\ UNCHANGED <<task, delivery, retrying, takes, sent, givenUp>>
          /\ silent' = silent \cup {m}
          /\ SetInbox(m, "done") \/ SetInbox(m, "failed")
      BY <2>3 DEF Reject, CompleteInboundEvent, FailInboundEvent, counts
    <3>3. \A x \in Message : inbox'[x] = "done" => inbox[x] = "done" \/ x \in silent'
      BY <1>00, <3>2 DEF SetInbox, FlowTypeOK
    <3>. QED
      BY <1>00, <3>1, <3>2, <3>3, QuietStep DEF AnswerInv, AnswerTypeOK
  <2>4. CASE PutBack
    <3>. PICK m : m = Head(stream)
      OBVIOUS
    <3>1. UNCHANGED <<task, delivery, retrying, takes, ends>> /\ SetInbox(m, "queued")
      BY <2>4 DEF PutBack, ReleaseInboundEvent, counts
    <3>2. \A x \in Message : inbox'[x] = "done" => inbox[x] = "done"
      BY <1>00, <3>1 DEF SetInbox, FlowTypeOK
    <3>. QED
      BY <1>00, <3>1, <3>2, QuietStep DEF ends, AnswerInv, AnswerTypeOK
  <2>5. CASE Dispatch
    BY <1>000, <2>5 DEF Dispatch, table, counts
  <2>6. CASE TurnAway
    <3>. PICK m, ok : m = Head(stream) /\ ok = (entry # NoInstance)
      OBVIOUS
    <3>1. m \in Message /\ ok \in BOOLEAN
      BY <1>00, <2>6 DEF TurnAway, Arrived, FlowTypeOK
    <3>2. /\ Begin("dispatcher", "refusing", m, ok)
          /\ task["dispatcher"].phase = "idle"
          /\ UNCHANGED <<delivery, retrying, ends, inbox>>
      BY <2>6 DEF TurnAway, Arrived, table
    <3>. QED
      BY <1>00, <3>1, <3>2, BeginStep DEF Actor
  <2>. QED
    BY <1>2, <2>1, <2>2, <2>3, <2>4, <2>5, <2>6 DEF InboxStep
<1>3. CASE WorkerStep
  <2>1. CASE TakeJob
    <3>. PICK m, ok : m = Head(jobs).msg /\ ok = Head(jobs).ok
      OBVIOUS
    <3>1. m \in Message /\ ok \in BOOLEAN
      <4>1. Head(jobs) \in Job
        BY <1>00, <2>1 DEF TakeJob, FlowTypeOK
      <4>. QED
        BY <4>1 DEF Job
    <3>2. /\ Begin("worker", "turn", m, ok)
          /\ task["worker"].phase = "idle"
          /\ UNCHANGED <<delivery, retrying, ends, inbox>>
      BY <2>1 DEF TakeJob, At, table
    <3>. QED
      BY <1>00, <3>1, <3>2, BeginStep DEF Actor
  <2>2. CASE WorkerLeaves \/ AwaitTurn
    BY <1>000, <2>2 DEF WorkerLeaves, AwaitTurn, table, counts
  <2>3. CASE TurnReturns
    BY <1>00, <2>3, TurnReturnsStep
  <2>. QED
    BY <1>3, <2>1, <2>2, <2>3 DEF WorkerStep
<1>4. CASE \E w \in Actor : AnswerStep(w)
  BY <1>00, <1>4, AnswerStepKeeps
<1>5. CASE RetryStep
  BY <1>00, <1>5, ReadRowsStep, ResendStep, CountFailureStep, NoteRetryStep,
     ClearRetriedStep, RetryRowStep, ExpireStep DEF RetryStep
<1>6. CASE ServerStep
  <2>1. CASE \/ \E t \in Turn \ {Chat} : OtherTurn(t)
             \/ ChannelStops \/ Reload \/ BeginRemoval \/ AbandonRemoval \/ Restart
    BY <1>000, <2>1 DEF OtherTurn, ChannelStops, Reload, BeginRemoval,
       AbandonRemoval, Restart, table, counts
  <2>2. CASE Shutdown
    <3>1. UNCHANGED <<task, delivery, retrying, takes, ends>>
      BY <2>2 DEF Shutdown, counts
    <3>2. UNCHANGED inbox \/ \E m : SetInbox(m, "queued")
      BY <2>2 DEF Shutdown, ReleaseInboundEvent, table
    <3>3. \A x \in Message : inbox'[x] = "done" => inbox[x] = "done"
      BY <1>00, <3>2 DEF SetInbox, FlowTypeOK
    <3>. QED
      BY <1>00, <3>1, <3>3, QuietStep DEF ends, AnswerInv, AnswerTypeOK
  <2>3. CASE Die
    <3>1. /\ task' = [w \in Actor |-> Idle] /\ batch' = {} /\ retry' = NoRetry
          /\ UNCHANGED <<delivery, takes, ends, inbox>>
      BY <2>3 DEF Die, table, counts
    <3>2. AnswerTypeOK'
      BY <1>00, <3>1 DEF AnswerInv, AnswerTypeOK, Idle, NoRetry, Phase,
         RetryPhase, delivery, ends
    <3>3. TaskInv' /\ DistinctInv' /\ RetryInv'
      BY <3>1 DEF TaskInv, TaskOK, DistinctInv, RetryInv, Idle, NoRetry
    <3>4. FreshInv' /\ LedgerIsTrue' /\ NoMessageIsLost'
      BY <1>00, <3>1 DEF AnswerInv, FreshInv, Fresh, LedgerIsTrue,
         NoMessageIsLost, delivery, ends
    <3>. QED
      BY <3>2, <3>3, <3>4 DEF AnswerInv
  <2>. QED
    BY <1>6, <2>1, <2>2, <2>3 DEF ServerStep
<1>7. CASE UNCHANGED vars
  BY <1>000, <1>7 DEF vars, table, counts
<1>. QED
  BY <1>1, <1>2, <1>3, <1>4, <1>5, <1>6, <1>7 DEF Next

LEMMA ServerInvariance == Spec => []ServerInv
BY InitServerInv, NextServerInv, PTL DEF Spec

(* Every variable of the server keeps its type.                            *)
THEOREM TypeCorrect == Spec => []TypeOK
<1>1. ServerInv => TypeOK
  BY DEF ServerInv, IInv, SpawnerInv, AnswerInv, TypeOK
<1>. QED
  BY <1>1, ServerInvariance, PTL

(* A message that is done has been answered, as far as could be.           *)
THEOREM NoMessageIsLostThm == Spec => []NoMessageIsLost
<1>1. ServerInv => NoMessageIsLost
  BY DEF ServerInv, AnswerInv
<1>. QED
  BY <1>1, ServerInvariance, PTL

(* The delivery ledger never calls an answer delivered or dropped that is  *)
(* not, nor forgets one that is still to be sent.                          *)
THEOREM LedgerIsTrueThm == Spec => []LedgerIsTrue
<1>1. ServerInv => LedgerIsTrue
  BY DEF ServerInv, AnswerInv
<1>. QED
  BY <1>1, ServerInvariance, PTL

LEMMA TakesInvariance == Spec => []TInv
<1>1. Init => TInv
  <2>. SUFFICES ASSUME Init PROVE TInv
    OBVIOUS
  <2>1. /\ arrival = <<>> /\ stream = <<>> /\ jobs = <<>>
        /\ inbox = [m \in Message |-> "absent"]
        /\ takes = [m \in Message |-> 0] /\ again = [m \in Message |-> 0]
    BY DEF Init
  <2>2. ASSUME NEW f, NEW m PROVE Copies(f, Len(<<>>), m) = 0
    <3>1. Places(f, Len(<<>>), m) = {}
      BY DEF Places
    <3>. QED
      BY <3>1, FS_EmptySet DEF Copies
  <2>3. ASSUME NEW m \in Message
        PROVE  takes[m] + InStream(m) + InJobs(m) + Due(m) <= 1 + again[m]
    <3>1. InStream(m) = 0 /\ InJobs(m) = 0
      BY <2>1, <2>2 DEF InStream, InJobs
    <3>. QED
      BY <2>1, <3>1 DEF Due
  <2>4. ArrivalInv
    BY <2>1 DEF ArrivalInv
  <2>. QED
    BY <2>3, <2>4 DEF TInv, TakesInv
<1>2. ServerInv /\ ServerInv' /\ TInv /\ [Next]_vars => TInv'
  BY NextTInv DEF ServerInv, KnownTypes, AnswerInv
<1>. QED
  BY <1>1, <1>2, ServerInvariance, PTL DEF Spec

(* A message is handled once, and once more only after its lease has ended *)
(* unattended or its answer could not be stored.                           *)
THEOREM TurnsAreExplainedThm == Spec => []TurnsAreExplained
<1>1. ServerInv /\ TInv => TurnsAreExplained
  <2>. SUFFICES ASSUME ServerInv, TInv, NEW m \in Message
                PROVE  takes[m] <= 1 + again[m]
    BY DEF TurnsAreExplained
  <2>1. /\ takes[m] \in Nat /\ again[m] \in Nat
        /\ InStream(m) \in Nat /\ InJobs(m) \in Nat /\ Due(m) \in {0, 1}
    BY TakesTypes DEF ServerInv, KnownTypes, AnswerInv
  <2>2. takes[m] + InStream(m) + InJobs(m) + Due(m) <= 1 + again[m]
    BY DEF TInv, TakesInv
  <2>. QED
    BY <2>1, <2>2
<1>. QED
  BY <1>1, ServerInvariance, TakesInvariance, PTL

=============================================================================
