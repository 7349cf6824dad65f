--------------------------- MODULE RelayBrokerProofs ---------------------------
(***************************************************************************)
(* Proofs about RelayBroker for any connections, requests and sizes.       *)
(*                                                                         *)
(* The argument: a stream that is open is in the pending map or has one    *)
(* goroutine to end it, never two (EndInv); so nobody sends to or closes a *)
(* closed stream, and a stream is closed after its last frame (FrameInv).  *)
(* A handler has nothing to end when it takes over a pending map (LinkInv), *)
(* so no request is lost there (WaitInv).  What a stream holds is bounded  *)
(* by what the daemon has written (RoomInv).                               *)
(***************************************************************************)
EXTENDS RelayBroker, TLAPS

(* An open stream has one owner.                                           *)
EndInv ==
  /\ \A e, f \in Ender : \A q \in Req :
       q \in ending[e] /\ q \in ending[f] => e = f
  /\ \A e \in Ender : \A q \in ending[e] : q \notin pending /\ q \notin closed
  /\ pending \cap closed = {}
  /\ \A e \in Ender : \A q, r \in written[e] : q = r

LinkInv ==
  \A c \in Conn :
    /\ link[c] \in {"new", "leaving", "gone"} => ending[Link(c)] = {}
    /\ relaying[c] # NoReq =>
         /\ link[c] = "reading" /\ ending[Link(c)] = {}
         /\ via[relaying[c]] = c

(* Nothing has happened to a request that has not been issued.             *)
IdleInv ==
  \A q \in Req :
    caller[q] = "idle" =>
      /\ q \notin pending /\ q \notin closed
      /\ \A e \in Ender : q \notin ending[e]
      /\ via[q] = NoConn

(* The last frame of q has been sent into its stream.                      *)
LastSent(q) == q \in closed \/ \E e \in Ender : q \in written[e]

FrameInv ==
  \A q \in Req :
    /\ caller[q] \in {"sending", "reading"} /\ LastSent(q)
         => \E i \in 1 .. Len(stream[q]) : stream[q][i] = "last"
    /\ caller[q] # "cut"

WaitInv ==
  \A q \in Req :
    /\ caller[q] = "sending" => BeingEnded(q) \/ q \in pending
    /\ caller[q] = "reading" =>
         BeingEnded(q) \/ (q \in pending /\ watcher[q] = "waiting")

RoomInv ==
  \A q \in Req :
    /\ Len(stream[q]) <= spoken[q] + 1
    /\ ~LastSent(q) => Len(stream[q]) <= spoken[q]
    /\ \A c \in Conn :
         relaying[c] = q =>
           /\ Len(stream[q]) <= spoken[q]
           /\ ~LastSent(q) => Len(stream[q]) + 1 <= spoken[q]

IInv ==
  /\ TypeOK
  /\ EndInv /\ LinkInv /\ IdleInv /\ FrameInv /\ WaitInv /\ RoomInv
  /\ EndingNeverPanics
  /\ LatestConnectionServes

-----------------------------------------------------------------------------

LEMMA Enders ==
  /\ \A c \in Conn : Link(c) \in Ender
  /\ \A q \in Req : Caller(q) \in Ender /\ Watcher(q) \in Ender
  /\ \A c, d \in Conn : Link(c) = Link(d) => c = d
  /\ \A c \in Conn : \A q \in Req : Link(c) # Caller(q) /\ Link(c) # Watcher(q)
BY DEF Ender, Link, Caller, Watcher

(* Some of the pending map goes to a goroutine that will end it.           *)
Moves(e, S) ==
  /\ pending' = pending \ S
  /\ ending' = [ending EXCEPT ![e] = @ \cup S]

LEMMA TakeMoves ==
  ASSUME TypeOK, NEW e \in Ender, NEW q \in Req, Take(e, q)
  PROVE  \E S \in SUBSET pending : Moves(e, S) /\ (q \in pending => q \in S)
<1>1. CASE q \in pending
  BY <1>1 DEF Take, Moves
<1>2. CASE q \notin pending
  <2>1. Moves(e, {})
    BY <1>2 DEF Take, Moves, TypeOK
  <2>. QED
    BY <1>2, <2>1
<1>. QED
  BY <1>1, <1>2

LEMMA MovesKeep ==
  ASSUME IInv, NEW e \in Ender, NEW S \in SUBSET pending, Moves(e, S),
         UNCHANGED <<written, closed>>
  PROVE  /\ pending' \in SUBSET Req /\ ending' \in [Ender -> SUBSET Req]
         /\ \A f \in Ender : written'[f] \subseteq ending'[f]
         /\ \A f \in Ender : f # e => ending'[f] = ending[f]
         /\ EndInv'
         /\ \A q \in Req : BeingEnded(q) => BeingEnded(q)'
         /\ \A q \in S : BeingEnded(q)'
         /\ \A q \in Req : LastSent(q)' <=> LastSent(q)
<1>1. /\ pending' = pending \ S /\ pending \in SUBSET Req
      /\ ending \in [Ender -> SUBSET Req]
      /\ ending'[e] = ending[e] \cup S
      /\ \A f \in Ender : f # e => ending'[f] = ending[f]
      /\ ending' \in [Ender -> SUBSET Req]
  BY DEF IInv, TypeOK, Moves
<1>2. EndInv'
  BY <1>1 DEF IInv, EndInv
<1>3. \A f \in Ender : written'[f] \subseteq ending'[f]
  BY <1>1 DEF IInv, TypeOK
<1>. QED
  BY <1>1, <1>2, <1>3 DEF BeingEnded, LastSent

-----------------------------------------------------------------------------

LEMMA InitIInv == Init => IInv
<1> SUFFICES ASSUME Init PROVE IInv
  OBVIOUS
<1>. USE SizeAssumption, ConnAssumption, ReqAssumption
<1>1. TypeOK
  BY DEF Init, TypeOK
<1>2. EndInv /\ LinkInv /\ IdleInv
  BY Enders DEF Init, EndInv, LinkInv, IdleInv
<1>3. FrameInv /\ WaitInv /\ RoomInv
  BY DEF Init, FrameInv, WaitInv, RoomInv, LastSent
<1>4. EndingNeverPanics /\ LatestConnectionServes
  BY DEF Init, EndingNeverPanics, LatestConnectionServes
<1>. QED
  BY <1>1, <1>2, <1>3, <1>4 DEF IInv

(* Register and Unregister take the whole map.                             *)
LEMMA TakeMap ==
  ASSUME IInv, NEW c \in Conn, link[c] \in {"new", "leaving"},
         pending' = {}, ending' = [ending EXCEPT ![Link(c)] = pending]
  PROVE  Moves(Link(c), pending)
<1>1. ending[Link(c)] = {} /\ Link(c) \in Ender
  BY Enders DEF IInv, LinkInv
<1>2. [ending EXCEPT ![Link(c)] = @ \cup pending] = [ending EXCEPT ![Link(c)] = pending]
  BY <1>1
<1>. QED
  BY <1>2 DEF Moves

LEMMA RegisterStep ==
  ASSUME IInv, NEW c \in Conn, Register(c)
  PROVE  IInv'
<1>. USE ConnAssumption, ReqAssumption
<1>1. /\ link[c] = "new" /\ link' = [link EXCEPT ![c] = "registering"]
      /\ device' = c
      /\ replaced' = IF device = NoConn THEN replaced ELSE replaced \cup {device}
      /\ UNCHANGED <<relaying, caller, via, watcher, stream, closed, broken, written,
                     spoken, finished>>
      /\ pending' = {} /\ ending' = [ending EXCEPT ![Link(c)] = pending]
  BY DEF Register, streams, daemon
<1>2. Moves(Link(c), pending)
  BY <1>1, TakeMap
<1>3. /\ pending' \in SUBSET Req /\ ending' \in [Ender -> SUBSET Req]
      /\ \A f \in Ender : written'[f] \subseteq ending'[f]
      /\ \A f \in Ender : f # Link(c) => ending'[f] = ending[f]
      /\ EndInv'
      /\ \A q \in Req : BeingEnded(q) => BeingEnded(q)'
      /\ \A q \in pending : BeingEnded(q)'
      /\ \A q \in Req : LastSent(q)' <=> LastSent(q)
  BY <1>1, <1>2, Enders, MovesKeep
<1>4. TypeOK'
  BY <1>1, <1>3 DEF IInv, TypeOK
<1>5. LinkInv'
  BY <1>1, <1>3, Enders DEF IInv, TypeOK, LinkInv
<1>6. IdleInv'
  BY <1>1, Enders DEF IInv, TypeOK, IdleInv
<1>7. FrameInv' /\ RoomInv'
  BY <1>1, <1>3 DEF IInv, FrameInv, RoomInv
<1>8. WaitInv'
  BY <1>1, <1>3 DEF IInv, WaitInv
<1>9. EndingNeverPanics' /\ LatestConnectionServes'
  BY <1>1 DEF IInv, TypeOK, EndingNeverPanics, LatestConnectionServes
<1>. QED
  BY <1>3, <1>4, <1>5, <1>6, <1>7, <1>8, <1>9 DEF IInv

LEMMA UnregisterStep ==
  ASSUME IInv, NEW c \in Conn, Unregister(c)
  PROVE  IInv'
<1>. USE ConnAssumption, ReqAssumption
<1>1. /\ link[c] = "leaving" /\ link' = [link EXCEPT ![c] = "unregistering"]
      /\ UNCHANGED <<relaying, caller, via, watcher, stream, closed, broken, written,
                     spoken, finished, replaced>>
      /\ IF device = c
           THEN /\ device' = NoConn
                /\ pending' = {} /\ ending' = [ending EXCEPT ![Link(c)] = pending]
           ELSE UNCHANGED <<device, pending, ending>>
  BY DEF Unregister, streams, daemon
<1>2. PICK S \in {{}, pending} :
        /\ Moves(Link(c), S)
        /\ device' = (IF device = c THEN NoConn ELSE device)
        /\ S = pending \/ UNCHANGED <<pending, ending>>
  <2>1. CASE device = c
    BY <1>1, <2>1, TakeMap
  <2>2. CASE device # c
    <3>1. Moves(Link(c), {})
      BY <1>1, <2>2, Enders DEF Moves, IInv, TypeOK
    <3>. QED
      BY <1>1, <2>2, <3>1
  <2>. QED
    BY <2>1, <2>2
<1>3. /\ pending' \in SUBSET Req /\ ending' \in [Ender -> SUBSET Req]
      /\ \A f \in Ender : written'[f] \subseteq ending'[f]
      /\ \A f \in Ender : f # Link(c) => ending'[f] = ending[f]
      /\ EndInv'
      /\ \A q \in Req : BeingEnded(q) => BeingEnded(q)'
      /\ \A q \in S : BeingEnded(q)'
      /\ \A q \in Req : LastSent(q)' <=> LastSent(q)
  BY <1>1, <1>2, Enders, MovesKeep
<1>4. TypeOK'
  BY <1>1, <1>2, <1>3 DEF IInv, TypeOK
<1>5. LinkInv'
  BY <1>1, <1>3, Enders DEF IInv, TypeOK, LinkInv
<1>6. IdleInv'
  <2>1. pending' \subseteq pending
        /\ \A f \in Ender : ending'[f] \subseteq ending[f] \cup pending
    <3>1. CASE S = pending
      BY <1>1, <1>2, <1>3, <3>1, Enders DEF IInv, TypeOK, Moves
    <3>2. CASE UNCHANGED <<pending, ending>>
      BY <3>2
    <3>. QED
      BY <1>2, <3>1, <3>2
  <2>. QED
    BY <1>1, <2>1 DEF IInv, IdleInv
<1>7. FrameInv' /\ RoomInv'
  BY <1>1, <1>3 DEF IInv, FrameInv, RoomInv
<1>8. WaitInv'
  BY <1>1, <1>2, <1>3 DEF IInv, WaitInv
<1>9. EndingNeverPanics' /\ LatestConnectionServes'
  BY <1>1, <1>2 DEF IInv, TypeOK, EndingNeverPanics, LatestConnectionServes
<1>. QED
  BY <1>3, <1>4, <1>5, <1>6, <1>7, <1>8, <1>9 DEF IInv

(* A request is taken out of the map to be ended, for whatever reason.     *)
LEMMA TakeStep ==
  ASSUME IInv, NEW e \in Ender, NEW q \in Req, Take(e, q),
         UNCHANGED <<device, link, relaying, via, streams, written, spoken, replaced>>,
         TypeOK',
         \A c \in Conn : e = Link(c) => link[c] = "reading" /\ relaying[c] = NoReq,
         \A r \in Req :
           /\ caller'[r] = caller[r] \/ (caller[r] # "idle" /\ caller'[r] = "failing")
           /\ watcher'[r] = watcher[r] \/ r = q
  PROVE  IInv'
<1>. USE ConnAssumption, ReqAssumption
<1>1. PICK S \in SUBSET pending : Moves(e, S) /\ (q \in pending => q \in S)
  BY TakeMoves DEF IInv
<1>0. UNCHANGED <<written, closed>> /\ ending \in [Ender -> SUBSET Req]
  BY DEF streams, IInv, TypeOK
<1>00. pending' = pending \ S /\ ending'[e] = ending[e] \cup S
  BY <1>0, <1>1 DEF Moves
<1>2. /\ \A f \in Ender : f # e => ending'[f] = ending[f]
      /\ EndInv'
      /\ \A r \in Req : BeingEnded(r) => BeingEnded(r)'
      /\ \A r \in S : BeingEnded(r)'
      /\ \A r \in Req : LastSent(r)' <=> LastSent(r)
  BY <1>0, <1>1, MovesKeep
<1>3. LinkInv'
  BY <1>00, <1>2, Enders DEF IInv, LinkInv
<1>4. IdleInv'
  BY <1>00, <1>2 DEF IInv, IdleInv, streams
<1>5. FrameInv' /\ RoomInv'
  BY <1>00, <1>2 DEF IInv, FrameInv, RoomInv, streams
<1>6. WaitInv'
  BY <1>00, <1>1, <1>2 DEF IInv, WaitInv
<1>7. EndingNeverPanics' /\ LatestConnectionServes'
  BY DEF IInv, EndingNeverPanics, LatestConnectionServes, streams
<1>. QED
  BY <1>00, <1>2, <1>3, <1>4, <1>5, <1>6, <1>7 DEF IInv

LEMMA DeliverLastStep ==
  ASSUME IInv, NEW c \in Conn, NEW q \in Req, DeliverLast(c, q)
  PROVE  IInv'
<1>1. /\ link[c] = "reading" /\ relaying[c] = NoReq
      /\ Take(Link(c), q) /\ finished' = finished \cup {q}
      /\ UNCHANGED <<device, link, relaying, caller, via, watcher, streams, written,
                     spoken, replaced>>
  BY DEF DeliverLast, Answering, Reading
<1>2. TypeOK'
  <2>1. /\ pending' \in SUBSET Req /\ ending' \in [Ender -> SUBSET Req]
        /\ \A f \in Ender : written'[f] \subseteq ending'[f]
    BY <1>1, Enders, TakeMoves, MovesKeep DEF IInv, streams
  <2>. QED
    BY <1>1, <2>1 DEF IInv, TypeOK, streams
<1>. QED
  BY <1>1, <1>2, Enders, TakeStep

LEMMA SendFailsStep ==
  ASSUME IInv, NEW q \in Req, SendFails(q)
  PROVE  IInv'
<1>1. /\ caller[q] = "sending" /\ caller' = [caller EXCEPT ![q] = "failing"]
      /\ Take(Caller(q), q)
      /\ UNCHANGED <<device, link, relaying, via, watcher, streams, written, spoken,
                     finished, replaced>>
  BY DEF SendFails, daemon
<1>2. TypeOK'
  <2>1. /\ pending' \in SUBSET Req /\ ending' \in [Ender -> SUBSET Req]
        /\ \A f \in Ender : written'[f] \subseteq ending'[f]
    BY <1>1, Enders, TakeMoves, MovesKeep DEF IInv, streams
  <2>. QED
    BY <1>1, <2>1 DEF IInv, TypeOK, streams
<1>3. \A r \in Req : caller'[r] = caller[r] \/ (caller[r] # "idle" /\ caller'[r] = "failing")
  BY <1>1 DEF IInv, TypeOK
<1>. QED
  BY <1>1, <1>2, <1>3, Enders, TakeStep

LEMMA WatcherFiresStep ==
  ASSUME IInv, NEW q \in Req, WatcherFires(q)
  PROVE  IInv'
<1>1. /\ watcher[q] = "waiting" /\ watcher' = [watcher EXCEPT ![q] = "fired"]
      /\ Take(Watcher(q), q)
      /\ UNCHANGED <<device, link, relaying, caller, via, streams, written, spoken,
                     finished, replaced>>
  BY DEF WatcherFires, daemon
<1>2. TypeOK'
  <2>1. /\ pending' \in SUBSET Req /\ ending' \in [Ender -> SUBSET Req]
        /\ \A f \in Ender : written'[f] \subseteq ending'[f]
    BY <1>1, Enders, TakeMoves, MovesKeep DEF IInv, streams
  <2>. QED
    BY <1>1, <2>1 DEF IInv, TypeOK, streams
<1>3. \A r \in Req : watcher'[r] = watcher[r] \/ r = q
  BY <1>1 DEF IInv, TypeOK
<1>. QED
  BY <1>1, <1>2, <1>3, Enders, TakeStep

(* A handler moves on while nothing else changes.                          *)
LEMMA LinkMoves ==
  ASSUME IInv, NEW c \in Conn, NEW s \in {"reading", "leaving", "gone"},
         link' = [link EXCEPT ![c] = s], ending[Link(c)] = {}, relaying[c] = NoReq,
         s = "reading" => link[c] = "registering",
         s = "leaving" => link[c] = "reading",
         UNCHANGED <<broker, relaying, caller, via, watcher, streams, tasks, daemon,
                     replaced>>
  PROVE  IInv'
<1>. USE DEF broker, streams, tasks, daemon
<1>1. TypeOK'
  BY DEF IInv, TypeOK
<1>2. EndInv' /\ IdleInv' /\ FrameInv' /\ WaitInv' /\ RoomInv' /\ EndingNeverPanics'
  BY DEF IInv, EndInv, IdleInv, FrameInv, WaitInv, RoomInv, EndingNeverPanics,
     BeingEnded, LastSent
<1>3. LinkInv'
  BY DEF IInv, TypeOK, LinkInv
<1>4. LatestConnectionServes'
  BY DEF IInv, TypeOK, LatestConnectionServes
<1>. QED
  BY <1>1, <1>2, <1>3, <1>4 DEF IInv

LEMMA LinkMovesSteps ==
  ASSUME IInv, NEW c \in Conn,
         Registered(c) \/ RegisterFails(c) \/ Disconnect(c) \/ Unregistered(c)
  PROVE  IInv'
<1>1. relaying[c] # NoReq => link[c] = "reading"
  BY DEF IInv, LinkInv
<1>2. CASE Registered(c)
  BY <1>1, <1>2, LinkMoves DEF Registered, Idle
<1>3. CASE Disconnect(c)
  BY <1>3, LinkMoves DEF Disconnect, Reading, Idle
<1>4. CASE Unregistered(c)
  BY <1>1, <1>4, LinkMoves DEF Unregistered, Idle
<1>5. CASE RegisterFails(c)
  BY <1>1, <1>5, LinkMoves DEF RegisterFails, Idle
<1>. QED
  BY <1>2, <1>3, <1>4, <1>5

LEMMA DeliverMoreStep ==
  ASSUME IInv, NEW c \in Conn, NEW q \in Req, DeliverMore(c, q)
  PROVE  IInv'
<1>. USE ReqAssumption, SizeAssumption
<1>1. /\ link[c] = "reading" /\ relaying[c] = NoReq /\ ending[Link(c)] = {}
      /\ via[q] = c /\ spoken[q] < MaxMore
      /\ spoken' = [spoken EXCEPT ![q] = @ + 1]
      /\ relaying' = [relaying EXCEPT ![c] = IF q \in pending THEN q ELSE NoReq]
      /\ UNCHANGED <<device, pending, link, caller, via, watcher, stream, closed, broken,
                     ending, written, finished, replaced>>
  BY DEF DeliverMore, Answering, Reading, Idle, broker, streams, tasks
<1>2. TypeOK'
  BY <1>1 DEF IInv, TypeOK
<1>3. EndInv' /\ IdleInv' /\ FrameInv' /\ WaitInv' /\ EndingNeverPanics'
      /\ LatestConnectionServes'
  BY <1>1 DEF IInv, EndInv, IdleInv, FrameInv, WaitInv, EndingNeverPanics,
     LatestConnectionServes, BeingEnded, LastSent
<1>4. LinkInv'
  BY <1>1 DEF IInv, TypeOK, LinkInv
<1>5. RoomInv'
  <2>1. \A r \in Req : /\ Len(stream[r]) \in Nat /\ spoken[r] \in Nat
                       /\ spoken'[r] = IF r = q THEN spoken[r] + 1 ELSE spoken[r]
                       /\ LastSent(r)' <=> LastSent(r)
    BY <1>1 DEF IInv, TypeOK, LastSent
  <2>2. \A d \in Conn : \A r \in Req :
          relaying'[d] = r => (d = c /\ r = q) \/ (relaying[d] = r /\ r # q)
    BY <1>1 DEF IInv, TypeOK, LinkInv
  <2>. QED
    BY <1>1, <2>1, <2>2 DEF IInv, RoomInv
<1>. QED
  BY <1>2, <1>3, <1>4, <1>5 DEF IInv

(* A frame is appended to a stream.                                        *)
LEMMA LastStays ==
  ASSUME NEW s \in Seq({"more", "last"}), NEW f \in {"more", "last"},
         \/ f = "last" \/ \E i \in 1 .. Len(s) : s[i] = "last"
  PROVE  \E i \in 1 .. Len(Append(s, f)) : Append(s, f)[i] = "last"
<1>1. CASE f = "last"
  <2>1. Append(s, f)[Len(s) + 1] = "last" /\ Len(Append(s, f)) = Len(s) + 1
    BY <1>1
  <2>2. Len(s) + 1 \in 1 .. Len(Append(s, f))
    BY <2>1
  <2>. QED
    BY <2>1, <2>2
<1>2. CASE \E i \in 1 .. Len(s) : s[i] = "last"
  <2>1. PICK i \in 1 .. Len(s) : s[i] = "last"
    BY <1>2
  <2>2. Append(s, f)[i] = s[i] /\ i \in 1 .. Len(Append(s, f))
    BY <2>1
  <2>. QED
    BY <2>1, <2>2
<1>. QED
  BY <1>1, <1>2

LEMMA RelayMoreStep ==
  ASSUME IInv, NEW c \in Conn, RelayMore(c)
  PROVE  IInv'
<1>. USE ReqAssumption, SizeAssumption
<1>. PICK q : q = relaying[c]
  OBVIOUS
<1>1. /\ q \in Req /\ relaying[c] # NoReq
      /\ relaying' = [relaying EXCEPT ![c] = NoReq]
      /\ UNCHANGED <<device, pending, caller, via, watcher, closed, broken, ending,
                     written, spoken, finished, replaced>>
      /\ \/ /\ q \notin closed
            /\ stream' = [stream EXCEPT ![q] = Append(@, "more")]
            /\ UNCHANGED link
         \/ /\ link' = [link EXCEPT ![c] = "leaving"]
            /\ UNCHANGED stream
  BY DEF RelayMore, IInv, TypeOK, broker, tasks, daemon
<1>2. /\ link[c] = "reading" /\ ending[Link(c)] = {} /\ via[q] = c
      /\ stream[q] \in Seq({"more", "last"})
  BY <1>1 DEF IInv, LinkInv, TypeOK
<1>3. TypeOK'
  <2>1. stream' \in [Req -> Seq({"more", "last"})]
    <3>1. Append(stream[q], "more") \in Seq({"more", "last"})
      BY <1>2
    <3>2. stream \in [Req -> Seq({"more", "last"})]
      BY DEF IInv, TypeOK
    <3>3. [stream EXCEPT ![q] = Append(@, "more")] \in [Req -> Seq({"more", "last"})]
      BY <3>1, <3>2
    <3>. QED
      BY <1>1, <3>2, <3>3
  <2>. QED
    BY <1>1, <2>1 DEF IInv, TypeOK
<1>4. EndInv' /\ IdleInv' /\ WaitInv' /\ EndingNeverPanics'
  BY <1>1 DEF IInv, EndInv, IdleInv, WaitInv, EndingNeverPanics, BeingEnded
<1>5. LinkInv' /\ LatestConnectionServes'
  BY <1>1, <1>2 DEF IInv, TypeOK, LinkInv, LatestConnectionServes
<1>6. FrameInv'
  <2>1. ASSUME NEW r \in Req, \E i \in 1 .. Len(stream[r]) : stream[r][i] = "last"
        PROVE  \E i \in 1 .. Len(stream'[r]) : stream'[r][i] = "last"
    <3>1. stream'[r] = stream[r] \/ (r = q /\ stream'[r] = Append(stream[q], "more"))
      BY <1>1 DEF IInv, TypeOK
    <3>. QED
      BY <1>2, <2>1, <3>1, LastStays
  <2>. QED
    BY <1>1, <2>1 DEF IInv, FrameInv, LastSent
<1>7. RoomInv'
  <2>1. \A r \in Req : /\ Len(stream[r]) \in Nat /\ spoken[r] \in Nat
                       /\ Len(stream'[r]) \in Nat
                       /\ Len(stream'[r]) <= IF r = q THEN Len(stream[r]) + 1
                                                      ELSE Len(stream[r])
                       /\ LastSent(r)' <=> LastSent(r)
    BY <1>1, <1>2 DEF IInv, TypeOK, LastSent
  <2>2. \A d \in Conn : \A r \in Req :
          relaying'[d] = r => relaying[d] = r /\ r # q
    BY <1>1, <1>2 DEF IInv, TypeOK, LinkInv
  <2>3. /\ Len(stream[q]) <= spoken[q]
        /\ ~LastSent(q) => Len(stream[q]) + 1 <= spoken[q]
    BY <1>1 DEF IInv, RoomInv
  <2>. QED
    BY <1>1, <2>1, <2>2, <2>3 DEF IInv, RoomInv
<1>. QED
  BY <1>3, <1>4, <1>5, <1>6, <1>7 DEF IInv

-----------------------------------------------------------------------------

(* A handler moves on while its stream and the enders stay as they are.    *)
LEMMA CallerMoves ==
  ASSUME IInv, NEW q \in Req,
         NEW s \in {"refused", "reading"}, caller' = [caller EXCEPT ![q] = s],
         caller[q] \in {"idle", "sending", "failing"},
         s = "reading" =>
           caller[q] = "sending" /\ watcher' = [watcher EXCEPT ![q] = "waiting"],
         s # "reading" => UNCHANGED watcher,
         UNCHANGED <<broker, link, relaying, via, streams, tasks, daemon, replaced>>
  PROVE  IInv'
<1>. USE DEF broker, streams, tasks, daemon
<1>1. TypeOK'
  BY DEF IInv, TypeOK
<1>2. EndInv' /\ LinkInv' /\ RoomInv' /\ EndingNeverPanics' /\ LatestConnectionServes'
  BY DEF IInv, EndInv, LinkInv, RoomInv, EndingNeverPanics, LatestConnectionServes,
     LastSent
<1>3. IdleInv' /\ FrameInv'
  BY DEF IInv, TypeOK, IdleInv, FrameInv, LastSent
<1>4. WaitInv'
  <2>1. \A r \in Req : /\ BeingEnded(r)' <=> BeingEnded(r)
                       /\ r # q => caller'[r] = caller[r] /\ watcher'[r] = watcher[r]
    BY DEF IInv, TypeOK, BeingEnded
  <2>2. caller'[q] = s /\ (s = "reading" => watcher'[q] = "waiting")
    BY DEF IInv, TypeOK
  <2>. QED
    BY <2>1, <2>2 DEF IInv, WaitInv
<1>. QED
  BY <1>1, <1>2, <1>3, <1>4 DEF IInv

LEMMA CallerMovesSteps ==
  ASSUME IInv, NEW q \in Req, Refuse(q) \/ Sent(q) \/ RequestFails(q)
  PROVE  IInv'
<1>1. CASE Refuse(q)
  BY <1>1, CallerMoves DEF Refuse
<1>2. CASE Sent(q)
  BY <1>2, CallerMoves DEF Sent
<1>3. CASE RequestFails(q)
  BY <1>3, CallerMoves DEF RequestFails
<1>. QED
  BY <1>1, <1>2, <1>3

LEMMA AcceptStep ==
  ASSUME IInv, NEW q \in Req, Accept(q)
  PROVE  IInv'
<1>. USE ConnAssumption, ReqAssumption
<1>1. /\ caller[q] = "idle" /\ device \in Conn
      /\ pending' = pending \cup {q}
      /\ via' = [via EXCEPT ![q] = device]
      /\ caller' = [caller EXCEPT ![q] = "sending"]
      /\ UNCHANGED <<device, link, relaying, watcher, stream, closed, broken, ending,
                     written, spoken, finished, replaced>>
  BY DEF Accept, IInv, TypeOK, streams, tasks, daemon
<1>2. /\ q \notin pending /\ q \notin closed /\ via[q] = NoConn
      /\ \A e \in Ender : q \notin ending[e] /\ q \notin written[e]
  BY <1>1 DEF IInv, TypeOK, IdleInv
<1>3. TypeOK'
  BY <1>1 DEF IInv, TypeOK
<1>4. EndInv' /\ RoomInv' /\ EndingNeverPanics' /\ LatestConnectionServes'
  BY <1>1, <1>2 DEF IInv, EndInv, RoomInv, EndingNeverPanics, LatestConnectionServes,
     LastSent
<1>5. LinkInv'
  BY <1>1, <1>2 DEF IInv, TypeOK, LinkInv
<1>6. IdleInv' /\ FrameInv'
  BY <1>1, <1>2 DEF IInv, TypeOK, IdleInv, FrameInv, LastSent
<1>7. WaitInv'
  BY <1>1 DEF IInv, TypeOK, WaitInv, BeingEnded
<1>. QED
  BY <1>3, <1>4, <1>5, <1>6, <1>7 DEF IInv

(* A frame other than the last is taken from a stream.                     *)
LEMMA LastLeftBehind ==
  ASSUME NEW s \in Seq({"more", "last"}), s # <<>>, Head(s) # "last",
         \E i \in 1 .. Len(s) : s[i] = "last"
  PROVE  \E i \in 1 .. Len(Tail(s)) : Tail(s)[i] = "last"
<1>1. PICK i \in 1 .. Len(s) : s[i] = "last"
  OBVIOUS
<1>2. i # 1
  BY <1>1
<1>3. /\ i - 1 \in 1 .. Len(Tail(s))
      /\ Tail(s)[i - 1] = s[i]
  BY <1>2
<1>. QED
  BY <1>1, <1>3

LEMMA ReadStep ==
  ASSUME IInv, NEW q \in Req, stream[q] # <<>>, caller[q] = "reading",
         stream' = [stream EXCEPT ![q] = Tail(@)],
         NEW s \in {"reading", "answered", "left"},
         caller' = [caller EXCEPT ![q] = s],
         s = "reading" => Head(stream[q]) # "last",
         UNCHANGED <<broker, link, relaying, via, watcher, closed, broken, tasks,
                     daemon, replaced>>
  PROVE  IInv'
<1>. USE DEF broker, tasks, daemon
<1>1. /\ stream[q] \in Seq({"more", "last"})
      /\ Tail(stream[q]) \in Seq({"more", "last"})
      /\ Len(Tail(stream[q])) <= Len(stream[q])
  BY DEF IInv, TypeOK
<1>2. \A r \in Req :
        /\ stream'[r] = IF r = q THEN Tail(stream[q]) ELSE stream[r]
        /\ caller'[r] = IF r = q THEN s ELSE caller[r]
  BY DEF IInv, TypeOK
<1>3. TypeOK'
  <2>1. stream' \in [Req -> Seq({"more", "last"})]
    BY <1>1 DEF IInv, TypeOK
  <2>. QED
    BY <2>1 DEF IInv, TypeOK
<1>4. EndInv' /\ LinkInv' /\ EndingNeverPanics' /\ LatestConnectionServes'
  BY DEF IInv, EndInv, LinkInv, EndingNeverPanics, LatestConnectionServes
<1>5. IdleInv' /\ WaitInv'
  BY <1>2 DEF IInv, IdleInv, WaitInv, BeingEnded
<1>6. FrameInv'
  <2>1. \A r \in Req : LastSent(r)' <=> LastSent(r)
    BY DEF LastSent
  <2>2. ASSUME NEW r \in Req, caller'[r] \in {"sending", "reading"}, LastSent(r)
        PROVE  \E i \in 1 .. Len(stream'[r]) : stream'[r][i] = "last"
    <3>1. caller[r] \in {"sending", "reading"}
      BY <1>2, <2>2
    <3>2. \E i \in 1 .. Len(stream[r]) : stream[r][i] = "last"
      BY <2>2, <3>1 DEF IInv, FrameInv
    <3>3. CASE r = q
      <4>1. s = "reading" /\ Head(stream[q]) # "last"
        BY <1>2, <2>2, <3>3
      <4>2. \E i \in 1 .. Len(Tail(stream[q])) : Tail(stream[q])[i] = "last"
        BY <1>1, <3>2, <3>3, <4>1, LastLeftBehind
      <4>. QED
        BY <1>2, <3>3, <4>2
    <3>. QED
      BY <1>2, <3>2, <3>3
  <2>. QED
    BY <1>2, <2>1, <2>2 DEF IInv, FrameInv
<1>7. RoomInv'
  <2>1. \A r \in Req : /\ Len(stream[r]) \in Nat /\ Len(stream'[r]) \in Nat
                       /\ Len(stream'[r]) <= Len(stream[r])
                       /\ spoken[r] \in Nat
                       /\ LastSent(r)' <=> LastSent(r)
    BY <1>1, <1>2, SizeAssumption DEF IInv, TypeOK, LastSent
  <2>. QED
    BY <2>1 DEF IInv, RoomInv
<1>. QED
  BY <1>3, <1>4, <1>5, <1>6, <1>7 DEF IInv

LEMMA ConsumeStep ==
  ASSUME IInv, NEW q \in Req, Consume(q)
  PROVE  IInv'
<1>1. CASE stream[q] # <<>>
  <2>1. /\ caller[q] = "reading" /\ stream' = [stream EXCEPT ![q] = Tail(@)]
        /\ UNCHANGED <<broker, link, relaying, via, watcher, closed, broken, tasks,
                       daemon, replaced>>
    BY <1>1 DEF Consume
  <2>2. CASE Head(stream[q]) = "last"
    <3>1. caller' = [caller EXCEPT ![q] = "answered"]
      BY <1>1, <2>2 DEF Consume
    <3>. QED
      BY <1>1, <2>1, <3>1, ReadStep
  <2>3. CASE Head(stream[q]) # "last"
    <3>1. caller' = [caller EXCEPT ![q] = "reading"]
      BY <1>1, <2>1, <2>3 DEF Consume, IInv, TypeOK
    <3>. QED
      BY <1>1, <2>1, <2>3, <3>1, ReadStep
  <2>. QED
    BY <2>2, <2>3
<1>2. CASE stream[q] = <<>>
  <2>1. caller[q] = "reading" /\ q \in closed
    BY <1>2 DEF Consume
  <2>2. \E i \in 1 .. Len(stream[q]) : stream[q][i] = "last"
    BY <2>1 DEF IInv, FrameInv, LastSent
  <2>. QED
    BY <1>2, <2>2
<1>. QED
  BY <1>1, <1>2

LEMMA AbandonStep ==
  ASSUME IInv, NEW q \in Req, Abandon(q)
  PROVE  IInv'
BY ReadStep DEF Abandon

-----------------------------------------------------------------------------

LEMMA SendLastStep ==
  ASSUME IInv, NEW e \in Ender, NEW q \in Req, SendLast(e, q)
  PROVE  IInv'
<1>. USE SizeAssumption
<1>1. q \in ending[e] /\ written[e] = {} /\ q \notin closed
  BY DEF SendLast, IInv, EndInv
<1>2. /\ stream' = [stream EXCEPT ![q] = Append(@, "last")]
      /\ written' = [written EXCEPT ![e] = {q}]
      /\ UNCHANGED <<device, pending, link, relaying, caller, via, watcher, closed,
                     broken, ending, spoken, finished, replaced>>
  BY <1>1 DEF SendLast, broker, daemon
<1>3. /\ stream[q] \in Seq({"more", "last"})
      /\ Append(stream[q], "last") \in Seq({"more", "last"})
      /\ Len(Append(stream[q], "last")) = Len(stream[q]) + 1
  BY DEF IInv, TypeOK
<1>4. /\ \A r \in Req : stream'[r] = IF r = q THEN Append(stream[q], "last")
                                              ELSE stream[r]
      /\ \A f \in Ender : written'[f] = IF f = e THEN {q} ELSE written[f]
  BY <1>2 DEF IInv, TypeOK
<1>5. ~LastSent(q)
  BY <1>1 DEF IInv, TypeOK, EndInv, LastSent
<1>6. LastSent(q)' /\ \A r \in Req : r # q => (LastSent(r)' <=> LastSent(r))
  BY <1>1, <1>2, <1>4 DEF LastSent
<1>7. TypeOK'
  <2>1. stream' \in [Req -> Seq({"more", "last"})]
    BY <1>2, <1>3 DEF IInv, TypeOK
  <2>2. written' \in [Ender -> SUBSET Req]
    BY <1>2 DEF IInv, TypeOK
  <2>3. \A f \in Ender : written'[f] \subseteq ending'[f]
    BY <1>1, <1>2, <1>4 DEF IInv, TypeOK
  <2>. QED
    BY <1>2, <2>1, <2>2, <2>3 DEF IInv, TypeOK
<1>8. EndInv'
  BY <1>2, <1>4 DEF IInv, EndInv
<1>9. LinkInv' /\ IdleInv' /\ WaitInv' /\ EndingNeverPanics' /\ LatestConnectionServes'
  BY <1>2 DEF IInv, LinkInv, IdleInv, WaitInv, EndingNeverPanics,
     LatestConnectionServes, BeingEnded
<1>10. FrameInv'
  <2>1. \E i \in 1 .. Len(stream'[q]) : stream'[q][i] = "last"
    BY <1>3, <1>4, LastStays
  <2>. QED
    BY <1>2, <1>4, <1>6, <2>1 DEF IInv, FrameInv
<1>11. RoomInv'
  <2>1. \A r \in Req : Len(stream[r]) \in Nat /\ spoken[r] \in Nat
    BY DEF IInv, TypeOK
  <2>2. \A r \in Req : Len(stream'[r]) = IF r = q THEN Len(stream[q]) + 1
                                                  ELSE Len(stream[r])
    BY <1>3, <1>4
  <2>. QED
    BY <1>2, <1>5, <1>6, <2>1, <2>2 DEF IInv, RoomInv
<1>. QED
  BY <1>7, <1>8, <1>9, <1>10, <1>11 DEF IInv

LEMMA CloseStreamStep ==
  ASSUME IInv, NEW e \in Ender, NEW q \in Req, CloseStream(e, q)
  PROVE  IInv'
<1>1. /\ q \in written[e] /\ q \in ending[e]
      /\ q \notin closed /\ q \notin pending
      /\ \A f \in Ender : q \in ending[f] => f = e
      /\ written[e] = {q}
  BY DEF CloseStream, IInv, TypeOK, EndInv
<1>2. /\ closed' = closed \cup {q} /\ broken' = broken
      /\ ending' = [ending EXCEPT ![e] = @ \ {q}]
      /\ written' = [written EXCEPT ![e] = {}]
      /\ UNCHANGED <<device, pending, link, relaying, caller, via, watcher, stream,
                     spoken, finished, replaced>>
  BY <1>1 DEF CloseStream, broker, daemon
<1>3. \A f \in Ender : /\ ending'[f] = ending[f] \ {q}
                       /\ written'[f] = written[f] \ {q}
  BY <1>1, <1>2 DEF IInv, TypeOK
<1>4. \A r \in Req : /\ LastSent(r)' <=> LastSent(r)
                     /\ BeingEnded(r)' <=> BeingEnded(r)
  BY <1>1, <1>2, <1>3 DEF LastSent, BeingEnded
<1>5. TypeOK'
  BY <1>2, <1>3 DEF IInv, TypeOK
<1>6. EndInv' /\ LinkInv' /\ EndingNeverPanics' /\ LatestConnectionServes'
  <2>1. EndInv'
    BY <1>1, <1>2, <1>3 DEF IInv, EndInv
  <2>2. LinkInv'
    BY <1>2, <1>3, Enders DEF IInv, LinkInv
  <2>. QED
    BY <1>2, <2>1, <2>2 DEF IInv, EndingNeverPanics, LatestConnectionServes
<1>7. IdleInv'
  BY <1>1, <1>2, <1>3 DEF IInv, IdleInv
<1>8. FrameInv' /\ WaitInv' /\ RoomInv'
  BY <1>2, <1>4 DEF IInv, FrameInv, WaitInv, RoomInv
<1>. QED
  BY <1>5, <1>6, <1>7, <1>8 DEF IInv

-----------------------------------------------------------------------------

LEMMA NextIInv == IInv /\ [Next]_vars => IInv'
<1> SUFFICES ASSUME IInv, [Next]_vars PROVE IInv'
  OBVIOUS
<1>1. ASSUME NEW c \in Conn, LinkStep(c) PROVE IInv'
  <2>1. CASE Register(c)
    BY <2>1, RegisterStep
  <2>2. CASE Registered(c) \/ RegisterFails(c) \/ Disconnect(c) \/ Unregistered(c)
    BY <2>2, LinkMovesSteps
  <2>3. CASE RelayMore(c)
    BY <2>3, RelayMoreStep
  <2>4. CASE Unregister(c)
    BY <2>4, UnregisterStep
  <2>5. ASSUME NEW q \in Req, DeliverMore(c, q) \/ DeliverLast(c, q) PROVE IInv'
    BY <2>5, DeliverMoreStep, DeliverLastStep
  <2>. QED
    BY <1>1, <2>1, <2>2, <2>3, <2>4, <2>5 DEF LinkStep
<1>2. ASSUME NEW q \in Req, RequestStep(q) PROVE IInv'
  <2>1. CASE Refuse(q) \/ Sent(q) \/ RequestFails(q)
    BY <2>1, CallerMovesSteps
  <2>2. CASE Accept(q)
    BY <2>2, AcceptStep
  <2>3. CASE SendFails(q)
    BY <2>3, SendFailsStep
  <2>4. CASE WatcherFires(q)
    BY <2>4, WatcherFiresStep
  <2>5. CASE Consume(q) \/ Abandon(q)
    BY <2>5, ConsumeStep, AbandonStep
  <2>. QED
    BY <1>2, <2>1, <2>2, <2>3, <2>4, <2>5 DEF RequestStep
<1>3. ASSUME NEW e \in Ender, EndStep(e) PROVE IInv'
  BY <1>3, SendLastStep, CloseStreamStep DEF EndStep
<1>4. CASE UNCHANGED vars
  <2>. USE <1>4 DEF vars, broker, streams, tasks, daemon
  <2>1. TypeOK' /\ EndInv' /\ LinkInv' /\ IdleInv'
    BY DEF IInv, TypeOK, EndInv, LinkInv, IdleInv
  <2>2. FrameInv' /\ WaitInv' /\ RoomInv'
    BY DEF IInv, FrameInv, WaitInv, RoomInv, LastSent, BeingEnded
  <2>3. EndingNeverPanics' /\ LatestConnectionServes'
    BY DEF IInv, EndingNeverPanics, LatestConnectionServes
  <2>. QED
    BY <2>1, <2>2, <2>3 DEF IInv
<1>. QED
  BY <1>1, <1>2, <1>3, <1>4 DEF Next

LEMMA SpecIInv == Spec => []IInv
BY InitIInv, NextIInv, PTL DEF Spec

(* Every variable of the broker keeps its type.                            *)
THEOREM TypeCorrect == Spec => []TypeOK
<1>1. IInv => TypeOK
  BY DEF IInv
<1>. QED
  BY <1>1, SpecIInv, PTL

(* No goroutine sends to a closed stream or closes one twice, for any      *)
(* number of connections and requests and any buffer.                      *)
THEOREM EndingNeverPanicsThm == Spec => []EndingNeverPanics
<1>1. IInv => EndingNeverPanics
  BY DEF IInv
<1>. QED
  BY <1>1, SpecIInv, PTL

(* No client sees its answer stop without a last frame.                    *)
THEOREM NoSilentEndThm == Spec => []NoSilentEnd
<1>1. IInv => NoSilentEnd
  BY DEF IInv, FrameInv, NoSilentEnd
<1>. QED
  BY <1>1, SpecIInv, PTL

(* A waiting caller is never out of reach of every goroutine that could    *)
(* end its stream.                                                         *)
THEOREM EveryWaiterCanEndThm == Spec => []EveryWaiterCanEnd
<1>1. IInv => EveryWaiterCanEnd
  BY DEF IInv, WaitInv, EveryWaiterCanEnd
<1>. QED
  BY <1>1, SpecIInv, PTL

(* A connection keeps the device until a later one or its own end.         *)
THEOREM LatestConnectionServesThm == Spec => []LatestConnectionServes
<1>1. IInv => LatestConnectionServes
  BY DEF IInv
<1>. QED
  BY <1>1, SpecIInv, PTL

(* A buffer larger than the most frames the daemon writes before the last  *)
(* is enough for every connection and request: nobody finds it full.       *)
THEOREM NobodyBlocksThm == Spec => []NobodyBlocks
<1>1. IInv => NobodyBlocks
  <2> SUFFICES ASSUME IInv, MaxMore < Buffer
               PROVE  /\ \A e \in Ender : \A q \in ending[e] :
                           written[e] = {} => Len(stream[q]) < Buffer
                      /\ \A c \in Conn :
                           relaying[c] # NoReq => Len(stream[relaying[c]]) < Buffer
    BY DEF NobodyBlocks
  <2>1. \A q \in Req : /\ Len(stream[q]) \in Nat
                       /\ spoken[q] \in Nat /\ spoken[q] <= MaxMore
    BY SizeAssumption DEF IInv, TypeOK
  <2>2. ASSUME NEW e \in Ender, NEW q \in ending[e], written[e] = {}
        PROVE  Len(stream[q]) < Buffer
    <3>1. q \in Req /\ ~LastSent(q)
      BY <2>2 DEF IInv, TypeOK, EndInv, LastSent
    <3>2. Len(stream[q]) <= spoken[q]
      BY <3>1 DEF IInv, RoomInv
    <3>. QED
      BY <2>1, <3>1, <3>2, SizeAssumption
  <2>3. ASSUME NEW c \in Conn, relaying[c] # NoReq
        PROVE  Len(stream[relaying[c]]) < Buffer
    <3>1. relaying[c] \in Req
      BY <2>3 DEF IInv, TypeOK
    <3>2. Len(stream[relaying[c]]) <= spoken[relaying[c]]
      BY <3>1 DEF IInv, RoomInv
    <3>. QED
      BY <2>1, <3>1, <3>2, SizeAssumption
  <2>. QED
    BY <2>2, <2>3
<1>. QED
  BY <1>1, SpecIInv, PTL

=============================================================================
