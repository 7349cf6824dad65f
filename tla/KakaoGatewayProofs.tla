-------------------------- MODULE KakaoGatewayProofs --------------------------
(***************************************************************************)
(* Proofs about KakaoGateway for any messages and connections, a channel   *)
(* of any size, answers of any length and any number of mishaps.           *)
(*                                                                         *)
(* CallbackOnce: the row of a message is taken by one reader, and is not   *)
(* stored again (RowInv).                                                  *)
(*                                                                         *)
(* NoStraySession: a session that joined and is not closed is in the map,  *)
(* or the handler that displaced it has yet to close it (StrayInv).        *)
(*                                                                         *)
(* SilenceIsExplained: a connection over which the peers do not reach each *)
(* other any more, or whose session is closed, is an unreliable one        *)
(* (LinkInv, with SessionInv: who displaces a session has broken or        *)
(* displaces one that has).  So a frame that is lost on the way to the     *)
(* daemon was on such a connection (FrameInv, OutboundInv), a frame that   *)
(* is lost on the way back was too (AnswerInv), and a frame that finds no  *)
(* row comes after one that took it (RowInv).  An answer that is not sent  *)
(* at all needs a connection that is gone (ConnInv, SentInv).              *)
(***************************************************************************)
EXTENDS KakaoGateway, SequenceTheorems, TLAPS

(* Webhooks that have not stored their row, connections without a session. *)
Before == {"none", "refused", "storing"}
Early == {"none", "accepted"}

(* The reader of c is posting an answer to m; frames with an answer to m.  *)
Posts(c, m) == posting[c] # NoFrame /\ posting[c].message = m
Carries(s, m) == \E f \in ToSet(s) : f.message = m

(* The chunk to send next is one of the answer.                            *)
PartInv == \A m \in Message : inbox[m] = "sending" => next[m] <= parts[m]

(* Until its row is stored a message has none, while it has one nobody     *)
(* uses its callback, and one reader does at a time, for the first time.   *)
RowInv ==
  /\ \A m \in Message :
       /\ hook[m] \in Before =>
            m \notin pending /\ called[m] = <<>> /\ \A c \in Conn : ~Posts(c, m)
       /\ m \in pending => called[m] = <<>> /\ \A c \in Conn : ~Posts(c, m)
       /\ hook[m] \in {"sending", "processing"} =>
            \/ m \in pending \/ m \in failed \/ called[m] # <<>>
            \/ \E c \in Conn : Posts(c, m)
  /\ \A c \in Conn : posting[c] # NoFrame =>
       /\ called[posting[c].message] = <<>>
       /\ \A d \in Conn : Posts(d, posting[c].message) => d = c

(* A session that joined and is open is in the map or about to be closed.  *)
StrayInv ==
  \A c \in Conn :
    handler[c] \in {"joined", "open"} /\ c \notin done =>
      session = c \/ \E d \in Conn : handler[d] = "joined" /\ displaced[d] = c

(* Who is in the map, and who was displaced by whom.                       *)
SessionInv ==
  /\ session # NoConn =>
       /\ handler[session] \notin Early
       /\ \A d \in Conn : displaced[d] # session
  /\ \A d \in Conn : displaced[d] # NoConn =>
       /\ handler[d] \notin Early /\ handler[displaced[d]] \notin Early
       /\ d \in broken \/ displaced[d] \in broken

(* Peers that do not reach each other, closed sessions and goroutines that *)
(* ended all have a cause.                                                 *)
LinkInv ==
  /\ \A c \in alive : listening = c
  /\ listening # NoConn => handler[listening] # "none"
  /\ conn # NoConn => handler[conn] # "none"
  /\ \A c \in Conn :
       /\ handler[c] # "none" => c \in alive \cup broken \cup done
       /\ handler[c] \in {"closing", "gone"} => c \in broken \cup done
       /\ c \in done => c \in broken \/ \E d \in Conn : displaced[d] = c
       /\ "ended" \in {writer[c], reader[c]} => c \in broken \cup done
       /\ handler[c] \in {"none", "accepted", "joined"} =>
            writer[c] = "none" /\ reader[c] = "none"

(* A frame in a session's channel or on its way to the daemon is that of a *)
(* message that is being processed, on the connection its handler found.   *)
FrameInv ==
  /\ \A m \in Message, c \in Conn :
       /\ Contains(queue[c], m) \/ Contains(down[c], m) =>
            hook[m] = "processing" /\ route[m] = c
       /\ Carries(up[c], m) => c \in sentOn[m]
  /\ \A m \in Message :
       /\ hook[m] \in {"storing", "sending", "processing"} =>
            route[m] # NoConn /\ handler[route[m]] # "none"
       /\ inbox[m] # "none" => hook[m] = "processing"
       /\ sentOn[m] # {} => inbox[m] # "none"

OutboundInv ==
  \A m \in Message :
    hook[m] = "processing" /\ inbox[m] = "none" =>
      Outbound(m) \/ Unreliable(route[m])

(* A message that waits for an answer of which a chunk was sent.           *)
AnswerInv ==
  \A m \in Message :
    hook[m] = "processing" /\ called[m] = <<>> /\ m \notin failed
        /\ sentOn[m] # {} =>
      Inbound(m) \/ \E c \in sentOn[m] : Unreliable(c)

(* As long as nothing broke, the channel keeps the connection over which   *)
(* the first message came.                                                 *)
ConnInv ==
  broken = {} /\ (\E m \in Message : inbox[m] # "none") =>
    conn # NoConn /\ conn = listening /\ conn \in alive

SentInv ==
  \A m \in Message :
    inbox[m] \in {"sent", "done"} =>
      parts[m] = 0 \/ sentOn[m] # {} \/ broken # {}

(* The invariant that is inductive.                                        *)
IInv ==
  /\ TypeOK /\ PartInv /\ RowInv /\ CallbackOnce
  /\ StrayInv /\ SessionInv /\ LinkInv
  /\ FrameInv /\ OutboundInv /\ AnswerInv /\ ConnInv /\ SentInv

-----------------------------------------------------------------------------
(* Sequences.                                                              *)

LEMMA ContainsAfterAppend ==
  ASSUME NEW S, NEW s \in Seq(S), NEW e \in S, NEW x
  PROVE  Contains(Append(s, e), x) <=> Contains(s, x) \/ x = e
<1>. DEFINE t == Append(s, e)
<1>1. /\ Len(s) \in Nat /\ Len(t) = Len(s) + 1
      /\ \A i \in 1 .. Len(s) : t[i] = s[i]
      /\ t[Len(s) + 1] = e
  BY AppendProperties, LenProperties
<1>2. Contains(t, x) <=> \E i \in 1 .. Len(t) : t[i] = x
  BY DEF Contains
<1>3. Contains(s, x) <=> \E i \in 1 .. Len(s) : s[i] = x
  BY DEF Contains
<1>. HIDE DEF t
<1>4. ASSUME Contains(t, x) PROVE Contains(s, x) \/ x = e
  <2>1. PICK i \in 1 .. Len(t) : t[i] = x
    BY <1>2, <1>4
  <2>2. i \in 1 .. Len(s) \/ i = Len(s) + 1
    BY <1>1
  <2>. QED
    BY <1>1, <1>3, <2>1, <2>2
<1>5. ASSUME Contains(s, x) PROVE Contains(t, x)
  <2>1. PICK i \in 1 .. Len(s) : s[i] = x
    BY <1>3, <1>5
  <2>2. i \in 1 .. Len(t)
    BY <1>1
  <2>. QED
    BY <1>1, <1>2, <2>1, <2>2
<1>6. ASSUME x = e PROVE Contains(t, x)
  BY <1>1, <1>2, <1>6
<1>. QED
  BY <1>4, <1>5, <1>6 DEF t

LEMMA ContainsHeadOrTail ==
  ASSUME NEW S, NEW s \in Seq(S), s # <<>>, NEW x
  PROVE  Contains(s, x) <=> x = Head(s) \/ Contains(Tail(s), x)
<1>. DEFINE t == Tail(s)
<1>1. /\ Len(s) \in Nat \ {0} /\ Len(t) = Len(s) - 1
      /\ \A i \in 1 .. Len(t) : t[i] = s[i + 1]
  BY HeadTailProperties, LenProperties, EmptySeq
<1>2. Head(s) = s[1]
  OBVIOUS
<1>3. Contains(t, x) <=> \E i \in 1 .. Len(t) : t[i] = x
  BY DEF Contains
<1>4. Contains(s, x) <=> \E i \in 1 .. Len(s) : s[i] = x
  BY DEF Contains
<1>. HIDE DEF t
<1>5. ASSUME Contains(s, x) PROVE x = Head(s) \/ Contains(t, x)
  <2>1. PICK i \in 1 .. Len(s) : s[i] = x
    BY <1>4, <1>5
  <2>2. i = 1 \/ (i - 1 \in 1 .. Len(t) /\ t[i - 1] = s[(i - 1) + 1])
    BY <1>1
  <2>3. (i - 1) + 1 = i
    OBVIOUS
  <2>. QED
    BY <1>2, <1>3, <2>1, <2>2, <2>3
<1>6. ASSUME Contains(t, x) PROVE Contains(s, x)
  <2>1. PICK i \in 1 .. Len(t) : t[i] = x
    BY <1>3, <1>6
  <2>2. i + 1 \in 1 .. Len(s) /\ s[i + 1] = x
    BY <1>1, <2>1
  <2>. QED
    BY <1>4, <2>2
<1>7. ASSUME x = Head(s) PROVE Contains(s, x)
  <2>1. 1 \in 1 .. Len(s) /\ s[1] = x
    BY <1>1, <1>2, <1>7
  <2>. QED
    BY <1>4, <2>1
<1>. QED
  BY <1>5, <1>6, <1>7 DEF t

LEMMA ContainsEmpty == \A x : ~Contains(<<>>, x)
BY DEF Contains

(* The same of the frames that carry an answer.                            *)
LEMMA CarriesIsContains ==
  ASSUME NEW S, NEW s \in Seq(S), NEW m
  PROVE  Carries(s, m) <=> \E f : Contains(s, f) /\ f.message = m
<1>1. DOMAIN s = 1 .. Len(s)
  BY LenProperties
<1>2. \A f : f \in ToSet(s) <=> Contains(s, f)
  BY <1>1 DEF ToSet, Contains
<1>. QED
  BY <1>2 DEF Carries

LEMMA CarriesAfterAppend ==
  ASSUME NEW S, NEW s \in Seq(S), NEW e \in S, NEW m
  PROVE  Carries(Append(s, e), m) <=> Carries(s, m) \/ e.message = m
<1>1. Append(s, e) \in Seq(S)
  BY AppendProperties
<1>2. \A f : Contains(Append(s, e), f) <=> Contains(s, f) \/ f = e
  BY ContainsAfterAppend
<1>3. Carries(Append(s, e), m) <=> \E f : Contains(Append(s, e), f) /\ f.message = m
  BY <1>1, CarriesIsContains
<1>. QED
  BY <1>2, <1>3, CarriesIsContains

LEMMA CarriesHeadOrTail ==
  ASSUME NEW S, NEW s \in Seq(S), s # <<>>, NEW m
  PROVE  Carries(s, m) <=> Head(s).message = m \/ Carries(Tail(s), m)
<1>1. Tail(s) \in Seq(S)
  BY HeadTailProperties
<1>2. \A f : Contains(s, f) <=> f = Head(s) \/ Contains(Tail(s), f)
  BY ContainsHeadOrTail
<1>3. Carries(Tail(s), m) <=> \E f : Contains(Tail(s), f) /\ f.message = m
  BY <1>1, CarriesIsContains
<1>. QED
  BY <1>2, <1>3, CarriesIsContains

LEMMA CarriesEmpty == \A m : ~Carries(<<>>, m)
BY DEF Carries, ToSet

-----------------------------------------------------------------------------
(* Types.                                                                  *)

(* Where a webhook may be, in one piece.                                   *)
Hook == {"none", "refused", "storing", "sending", "processing", "offline", "error",
         "cut"}

LEMMA TypeInit == Init => TypeOK /\ PartInv
BY GatewayAssumption DEF Init, TypeOK, PartInv, Part

LEMMA TypeStep == TypeOK /\ PartInv /\ [Next]_vars => TypeOK' /\ PartInv'
<1>. SUFFICES ASSUME TypeOK, PartInv, [Next]_vars PROVE TypeOK' /\ PartInv'
  OBVIOUS
<1>. USE GatewayAssumption DEF TypeOK, PartInv, Part
<1>0. Mishap \/ UNCHANGED mishaps => mishaps' \in 0 .. MaxMishap
  BY DEF Mishap
<1>1. ASSUME NEW m \in Message, Refuse(m) PROVE TypeOK' /\ PartInv'
  BY <1>1 DEF Refuse, sessions, pumps, wires, daemon, turns, history
<1>2. ASSUME NEW m \in Message, FindSession(m) PROVE TypeOK' /\ PartInv'
  BY <1>2 DEF FindSession, sessions, pumps, wires, daemon, turns, history
<1>3. ASSUME NEW m \in Message, PutPending(m) PROVE TypeOK' /\ PartInv'
  <2>1. mishaps' \in 0 .. MaxMishap
    BY <1>0, <1>3 DEF PutPending
  <2>2. pending' \subseteq Message /\ hook' \in [Message -> Hook]
    BY <1>3 DEF PutPending, Hook
  <2>. QED
    BY <1>3, <2>1, <2>2 DEF PutPending, Hook, sessions, pumps, wires, daemon, turns
<1>4. ASSUME NEW m \in Message, SendFrame(m) PROVE TypeOK' /\ PartInv'
  <2>1. route[m] \in Conn /\ Takes(route[m]) =>
          /\ Append(queue[route[m]], m) \in Seq(Message)
          /\ Len(Append(queue[route[m]], m)) <= Buffer
    BY AppendProperties DEF Takes
  <2>2. queue' \in [Conn -> Seq(Message)] /\ \A c \in Conn : Len(queue'[c]) <= Buffer
    BY <1>4, <2>1 DEF SendFrame
  <2>3. hook' \in [Message -> Hook]
    BY <1>4 DEF SendFrame, Hook
  <2>. QED
    BY <1>4, <2>2, <2>3 DEF SendFrame, Hook, sessions, wires, daemon, turns, history
<1>5. ASSUME NEW m \in Message, Sweep(m) PROVE TypeOK' /\ PartInv'
  <2>1. pending' \subseteq Message /\ failed' \subseteq Message /\ mishaps' \in 0 .. MaxMishap
    BY <1>5 DEF Sweep, Mishap
  <2>. QED
    BY <1>5, <2>1 DEF Sweep, sessions, pumps, wires, daemon, turns
<1>6. ASSUME NEW m \in Message, RunTurn(m) PROVE TypeOK' /\ PartInv'
  <2>1. PICK k \in 0 .. MaxParts :
          /\ parts' = [parts EXCEPT ![m] = k]
          /\ inbox' = [inbox EXCEPT ![m] = IF k = 0 THEN "sent" ELSE "sending"]
    BY <1>6 DEF RunTurn
  <2>2. /\ parts' \in [Message -> 0 .. MaxParts]
        /\ inbox' \in [Message -> {"none", "stored", "sending", "sent", "done"}]
        /\ next' \in [Message -> 1 .. MaxParts]
    BY <1>6, <2>1 DEF RunTurn
  <2>3. PartInv'
    BY <1>6, <2>1 DEF RunTurn
  <2>. QED
    BY <1>6, <2>2, <2>3 DEF RunTurn, sessions, pumps, wires, daemon, history
<1>7. ASSUME NEW m \in Message, SendPart(m) PROVE TypeOK' /\ PartInv'
  <2>. DEFINE f == [message |-> m, part |-> next[m]]
  <2>1. f \in Frame
    BY DEF Frame
  <2>2. conn \in Conn /\ Append(up[conn], f) \in Seq(Frame)
    BY <1>7, <2>1, AppendProperties DEF SendPart
  <2>3. up' \in [Conn -> Seq(Frame)]
    BY <1>7, <2>2 DEF SendPart
  <2>4. sentOn' \in [Message -> SUBSET Conn]
    BY <1>7, <2>2 DEF SendPart
  <2>5. /\ inbox' \in [Message -> {"none", "stored", "sending", "sent", "done"}]
        /\ next' \in [Message -> 1 .. MaxParts] /\ delivered' \subseteq Message
    <3>1. next[m] # parts[m] => next[m] + 1 \in 1 .. MaxParts
      <4>1. next[m] <= parts[m] /\ parts[m] \in 0 .. MaxParts /\ next[m] \in 1 .. MaxParts
        BY <1>7 DEF SendPart
      <4>. QED
        BY <4>1
    <3>. HIDE DEF PartInv
    <3>2. next' \in [Message -> 1 .. MaxParts]
      BY <1>7, <3>1 DEF SendPart
    <3>3. inbox' \in {inbox, [inbox EXCEPT ![m] = "sent"]}
      BY <1>7 DEF SendPart
    <3>4. delivered' \in {delivered, delivered \cup {m}}
      BY <1>7 DEF SendPart
    <3>. QED
      BY <3>2, <3>3, <3>4
  <2>6. PartInv'
    BY <1>7 DEF SendPart
  <2>. QED
    BY <1>7, <2>3, <2>4, <2>5, <2>6
       DEF SendPart, sessions, pumps, daemon
<1>8. ASSUME NEW m \in Message, SendFails(m) PROVE TypeOK' /\ PartInv'
  <2>1. inbox' \in [Message -> {"none", "stored", "sending", "sent", "done"}] /\ PartInv'
    BY <1>8 DEF SendFails, turns
  <2>. QED
    BY <1>8, <2>1 DEF SendFails, sessions, pumps, wires, daemon, history
<1>9. ASSUME NEW m \in Message, Complete(m) PROVE TypeOK' /\ PartInv'
  <2>1. inbox' \in [Message -> {"none", "stored", "sending", "sent", "done"}] /\ PartInv'
    BY <1>9 DEF Complete, turns
  <2>. QED
    BY <1>9, <2>1 DEF Complete, sessions, pumps, wires, daemon, history
<1>10. ASSUME NEW c \in Conn, Join(c) PROVE TypeOK' /\ PartInv'
  BY <1>10 DEF Join, pumps, wires, daemon, turns, history
<1>11. ASSUME NEW c \in Conn, Open(c) PROVE TypeOK' /\ PartInv'
  BY <1>11 DEF Open, wires, daemon, turns, history
<1>12. ASSUME NEW c \in Conn, Close(c) PROVE TypeOK' /\ PartInv'
  BY <1>12 DEF Close, pumps, daemon, turns, history
<1>13. ASSUME NEW c \in Conn, RemoveSession(c) PROVE TypeOK' /\ PartInv'
  BY <1>13 DEF RemoveSession, pumps, wires, daemon, turns, history
<1>14. ASSUME NEW c \in Conn, Write(c) PROVE TypeOK' /\ PartInv'
  <2>1. /\ Head(queue[c]) \in Message /\ Tail(queue[c]) \in Seq(Message)
        /\ Len(Tail(queue[c])) = Len(queue[c]) - 1 /\ Len(queue[c]) \in Nat
    BY <1>14, HeadTailProperties, LenProperties DEF Write
  <2>2. queue' \in [Conn -> Seq(Message)]
    BY <1>14, <2>1 DEF Write
  <2>3. \A d \in Conn : Len(queue'[d]) <= Buffer
    BY <1>14, <2>1 DEF Write
  <2>4. Append(down[c], Head(queue[c])) \in Seq(Message)
    BY <2>1, AppendProperties
  <2>5. down' \in [Conn -> Seq(Message)]
    BY <1>14, <2>4 DEF Write
  <2>6. writer' \in [Conn -> {"none", "running", "ended"}]
    BY <1>14 DEF Write
  <2>. QED
    BY <1>14, <2>2, <2>3, <2>5, <2>6 DEF Write, sessions, daemon, turns, history
<1>15. ASSUME NEW c \in Conn, WriterEnds(c) PROVE TypeOK' /\ PartInv'
  BY <1>15 DEF WriterEnds, sessions, wires, daemon, turns, history
<1>16. ASSUME NEW c \in Conn, TakePending(c) PROVE TypeOK' /\ PartInv'
  <2>1. Head(up[c]) \in Frame /\ Tail(up[c]) \in Seq(Frame)
    BY <1>16, HeadTailProperties DEF TakePending
  <2>2. Head(up[c]).message \in Message
    BY <2>1 DEF Frame
  <2>3. up' \in [Conn -> Seq(Frame)]
    BY <1>16, <2>1 DEF TakePending
  <2>4. posting' \in {posting, [posting EXCEPT ![c] = Head(up[c])]}
    BY <1>16 DEF TakePending
  <2>5. posting' \in [Conn -> Frame \cup {NoFrame}]
    BY <2>1, <2>4
  <2>6. pending' \subseteq Message /\ failed' \subseteq Message
    BY <1>16, <2>2 DEF TakePending
  <2>7. mishaps' \in 0 .. MaxMishap
    BY <1>0, <1>16 DEF TakePending
  <2>. QED
    BY <1>16, <2>3, <2>5, <2>6, <2>7 DEF TakePending, sessions, daemon, turns
<1>17. ASSUME NEW c \in Conn, Post(c) PROVE TypeOK' /\ PartInv'
  <2>1. posting[c] \in Frame
    BY <1>17 DEF Post
  <2>2. posting[c].message \in Message /\ posting[c].part \in 1 .. MaxParts
    BY <2>1 DEF Frame
  <2>3. Append(called[posting[c].message], posting[c].part) \in Seq(1 .. MaxParts)
    BY <2>2, AppendProperties
  <2>4. called' \in [Message -> Seq(1 .. MaxParts)]
    BY <1>17, <2>2, <2>3 DEF Post
  <2>5. /\ posting' \in [Conn -> Frame \cup {NoFrame}]
        /\ failed' \subseteq Message
    BY <1>17, <2>2 DEF Post
  <2>6. mishaps' \in 0 .. MaxMishap
    BY <1>0, <1>17 DEF Post
  <2>. QED
    BY <1>17, <2>4, <2>5, <2>6 DEF Post, sessions, wires, daemon, turns
<1>18. ASSUME NEW c \in Conn, ReaderEnds(c) PROVE TypeOK' /\ PartInv'
  BY <1>18 DEF ReaderEnds, sessions, wires, daemon, turns, history
<1>19. ASSUME NEW c \in Conn, Dial(c) PROVE TypeOK' /\ PartInv'
  BY <1>19 DEF Dial, pumps, turns, history
<1>20. ASSUME NEW c \in Conn, Disconnect(c) PROVE TypeOK' /\ PartInv'
  BY <1>20 DEF Disconnect, Mishap, sessions, pumps, daemon, turns
<1>21. ASSUME Connected PROVE TypeOK' /\ PartInv'
  BY <1>21 DEF Connected, sessions, pumps, wires, turns, history
<1>22. ASSUME Publish PROVE TypeOK' /\ PartInv'
  <2>1. /\ listening \in Conn
        /\ Head(down[listening]) \in Message /\ Tail(down[listening]) \in Seq(Message)
    BY <1>22, HeadTailProperties DEF Publish
  <2>2. down' \in [Conn -> Seq(Message)]
    BY <1>22, <2>1 DEF Publish
  <2>3. inbox' \in [Message -> {"none", "stored", "sending", "sent", "done"}] /\ PartInv'
    BY <1>22, <2>1 DEF Publish
  <2>4. /\ listening' \in Conn \cup {NoConn} /\ alive' \subseteq Conn
        /\ broken' \subseteq Conn
    BY <1>22, <2>1 DEF Publish
  <2>5. mishaps' \in 0 .. MaxMishap
    BY <1>0, <1>22 DEF Publish
  <2>. QED
    BY <1>22, <2>2, <2>3, <2>4, <2>5 DEF Publish, sessions, pumps
<1>23. ASSUME ReadFails PROVE TypeOK' /\ PartInv'
  BY <1>23 DEF ReadFails, sessions, pumps, wires, turns, history
<1>24. ASSUME GatewayRestarts PROVE TypeOK' /\ PartInv'
  <2>1. hook' \in [Message -> Hook]
    BY <1>24 DEF GatewayRestarts, Hook
  <2>2. /\ handler' \in [Conn -> {"none", "accepted", "joined", "open", "closing", "gone"}]
        /\ writer' \in [Conn -> {"none", "running", "ended"}]
        /\ reader' \in [Conn -> {"none", "running", "ended"}]
        /\ posting' \in [Conn -> Frame \cup {NoFrame}]
    BY <1>24 DEF GatewayRestarts
  <2>3. \A c \in Conn : posting[c] # NoFrame => posting[c].message \in Message
    BY DEF Frame
  <2>4. failed' \subseteq Message /\ mishaps' \in 0 .. MaxMishap
    BY <1>24, <2>3 DEF GatewayRestarts, Mishap
  <2>5. done' \subseteq Conn /\ alive' \subseteq Conn /\ broken' \subseteq Conn
    BY <1>24 DEF GatewayRestarts
  <2>6. session' \in Conn \cup {NoConn}
    BY <1>24 DEF GatewayRestarts
  <2>. QED
    BY <1>24, <2>1, <2>2, <2>4, <2>5, <2>6 DEF GatewayRestarts, Hook, daemon, turns
<1>25. ASSUME DaemonRestarts PROVE TypeOK' /\ PartInv'
  <2>1. inbox' \in [Message -> {"none", "stored", "sending", "sent", "done"}] /\ PartInv'
    BY <1>25 DEF DaemonRestarts
  <2>2. /\ listening' \in Conn \cup {NoConn} /\ conn' \in Conn \cup {NoConn}
        /\ alive' \subseteq Conn /\ broken' \subseteq Conn /\ mishaps' \in 0 .. MaxMishap
    BY <1>25 DEF DaemonRestarts, Mishap
  <2>. QED
    BY <1>25, <2>1, <2>2 DEF DaemonRestarts, sessions, pumps
<1>30. CASE UNCHANGED vars
  BY <1>30 DEF vars, sessions, pumps, wires, daemon, turns, history
<1>. QED
  BY <1>1, <1>2, <1>3, <1>4, <1>5, <1>6, <1>7, <1>8, <1>9, <1>10, <1>11, <1>12,
     <1>13, <1>14, <1>15, <1>16, <1>17, <1>18, <1>19, <1>20, <1>21, <1>22, <1>23,
     <1>24, <1>25, <1>30
     DEF Next, Webhook, Socket, Turn

-----------------------------------------------------------------------------
(* Rows and callbacks.                                                     *)

LEMMA PostedIsMessage ==
  TypeOK => \A c \in Conn : posting[c] # NoFrame => posting[c].message \in Message
BY DEF TypeOK, Frame

LEMMA HeadIsFrame ==
  ASSUME TypeOK, NEW c \in Conn, up[c] # <<>>
  PROVE  /\ Head(up[c]) \in Frame /\ Head(up[c]) # NoFrame
         /\ Head(up[c]).message \in Message
<1>1. Head(up[c]) \in Frame
  BY HeadTailProperties DEF TypeOK
<1>. QED
  BY <1>1, GatewayAssumption DEF Frame

LEMMA RowStep == TypeOK /\ RowInv /\ [Next]_vars => RowInv'
<1>. SUFFICES ASSUME TypeOK, RowInv, [Next]_vars PROVE RowInv'
  OBVIOUS
<1>0. /\ hook \in [Message -> Hook] /\ posting \in [Conn -> Frame \cup {NoFrame}]
      /\ called \in [Message -> Seq(Part)]
  BY DEF TypeOK, Hook
<1>1. CASE UNCHANGED <<hook, pending, called, posting, failed>>
  BY <1>1 DEF RowInv, Posts
<1>2. ASSUME NEW m \in Message, Refuse(m) \/ FindSession(m) \/ SendFrame(m)
      PROVE  RowInv'
  <2>1. /\ hook[m] \in Before \/ (hook[m] = "sending" /\ hook'[m] \notin Before)
        /\ hook'[m] \in {"sending", "processing"} => hook[m] = "sending"
        /\ \A n \in Message : n # m => hook'[n] = hook[n]
    BY <1>0, <1>2 DEF Refuse, FindSession, SendFrame, Before, Hook
  <2>2. UNCHANGED <<pending, called, posting, failed>>
    BY <1>2 DEF Refuse, FindSession, SendFrame, pumps, history
  <2>. QED
    BY <2>1, <2>2 DEF RowInv, Posts
<1>3. ASSUME NEW m \in Message, PutPending(m) PROVE RowInv'
  <2>1. /\ hook[m] = "storing" /\ hook[m] \in Before
        /\ \/ pending' = pending \cup {m} /\ hook'[m] = "sending"
           \/ pending' = pending /\ hook'[m] = "error"
        /\ \A n \in Message : n # m => hook'[n] = hook[n]
    BY <1>0, <1>3 DEF PutPending, Before
  <2>2. UNCHANGED <<called, posting, failed>>
    BY <1>3 DEF PutPending, pumps
  <2>. QED
    BY <2>1, <2>2 DEF RowInv, Posts, Before
<1>4. ASSUME NEW m \in Message, Sweep(m) PROVE RowInv'
  <2>1. /\ pending' = pending \ {m}
        /\ failed \subseteq failed'
        /\ hook[m] \notin {"offline", "cut"} => m \in failed'
        /\ UNCHANGED <<hook, called, posting>>
    BY <1>4 DEF Sweep, pumps
  <2>. QED
    BY <2>1 DEF RowInv, Posts
<1>5. ASSUME NEW c \in Conn, TakePending(c) PROVE RowInv'
  <2>. DEFINE f == Head(up[c])
  <2>1. f \in Frame /\ f # NoFrame /\ f.message \in Message
    BY <1>5, HeadIsFrame DEF TakePending
  <2>2. posting[c] = NoFrame /\ UNCHANGED <<hook, called>>
    BY <1>5 DEF TakePending
  <2>. HIDE DEF f
  <2>3. CASE /\ f.message \in pending
             /\ pending' = pending \ {f.message} /\ UNCHANGED failed
             /\ posting' = [posting EXCEPT ![c] = f]
    <3>1. /\ \A m \in Message, d \in Conn :
               Posts(d, m)' <=> Posts(d, m) \/ (d = c /\ m = f.message)
          /\ \A d \in Conn : posting'[d] # NoFrame => d = c \/ posting'[d] = posting[d]
          /\ posting'[c] = f
      BY <1>0, <2>1, <2>2, <2>3 DEF Posts
    <3>2. \A d \in Conn : ~Posts(d, f.message)
      BY <2>1, <2>3 DEF RowInv
    <3>3. called[f.message] = <<>> /\ hook[f.message] \notin Before
      BY <2>1, <2>3 DEF RowInv
    <3>4. ASSUME NEW d \in Conn, posting'[d] # NoFrame
          PROVE  (/\ called[posting[d].message] = <<>>
                  /\ \A e \in Conn : Posts(e, posting[d].message) => e = d)'
      <4>1. PICK n \in Message : n = posting'[d].message
        BY <2>1, <3>1, <3>4, PostedIsMessage
      <4>2. SUFFICES called[n] = <<>> /\ \A e \in Conn : Posts(e, n)' => e = d
        BY <2>2, <4>1 DEF Posts
      <4>3. CASE d = c
        BY <2>1, <3>1, <3>2, <3>3, <4>1, <4>3
      <4>4. CASE d # c
        <5>1. posting'[d] = posting[d] /\ n = posting[d].message
          BY <3>1, <3>4, <4>1, <4>4
        <5>2. n # f.message
          BY <3>2, <3>4, <5>1 DEF Posts
        <5>3. called[n] = <<>> /\ \A e \in Conn : Posts(e, n) => e = d
          BY <3>4, <5>1 DEF RowInv
        <5>. QED
          BY <3>1, <5>2, <5>3
      <4>. QED
        BY <4>3, <4>4
    <3>5. ASSUME NEW m \in Message
          PROVE  /\ hook'[m] \in Before =>
                      /\ m \notin pending' /\ called'[m] = <<>>
                      /\ \A d \in Conn : ~Posts(d, m)'
                 /\ m \in pending' => called'[m] = <<>> /\ \A d \in Conn : ~Posts(d, m)'
                 /\ hook'[m] \in {"sending", "processing"} =>
                      \/ m \in pending' \/ m \in failed' \/ called'[m] # <<>>
                      \/ \E d \in Conn : Posts(d, m)'
      BY <2>2, <2>3, <3>1, <3>3 DEF RowInv
    <3>. QED
      BY <2>2, <3>4, <3>5 DEF RowInv
  <2>4. CASE UNCHANGED <<pending, posting>> /\ failed \subseteq failed'
    BY <2>2, <2>4 DEF RowInv, Posts
  <2>5. CASE f.message \notin pending /\ pending' = pending \ {f.message}
             /\ UNCHANGED <<posting, failed>>
    BY <2>2, <2>5 DEF RowInv, Posts
  <2>. QED
    BY <1>5, <2>3, <2>4, <2>5 DEF TakePending, f
<1>6. ASSUME NEW c \in Conn, Post(c) PROVE RowInv'
  <2>. DEFINE m == posting[c].message
  <2>1. posting[c] # NoFrame /\ m \in Message /\ posting[c] \in Frame
    BY <1>0, <1>6, PostedIsMessage DEF Post
  <2>2. /\ posting' = [posting EXCEPT ![c] = NoFrame]
        /\ UNCHANGED <<hook, pending>> /\ failed \subseteq failed'
        /\ \A n \in Message : n # m => called'[n] = called[n]
    BY <1>0, <1>6, <2>1 DEF Post
  <2>3. called'[m] # <<>> \/ (called'[m] = called[m] /\ m \in failed')
    <3>1. Append(called[m], posting[c].part) # <<>>
      BY <1>0, <2>1, AppendProperties DEF Frame
    <3>. QED
      BY <1>0, <1>6, <2>1, <3>1 DEF Post
  <2>4. m \notin pending /\ hook[m] \notin Before /\ called[m] = <<>>
    BY <2>1 DEF RowInv, Posts
  <2>. HIDE DEF m
  <2>5. /\ \A n \in Message, d \in Conn : n # m => (Posts(d, n)' <=> Posts(d, n))
        /\ \A d \in Conn : posting'[d] # NoFrame =>
             d # c /\ posting'[d] = posting[d] /\ posting[d].message # m
    BY <1>0, <2>1, <2>2 DEF Posts, m, RowInv
  <2>6. \A d \in Conn : posting'[d] # NoFrame => posting'[d].message \in Message
    BY <2>5, PostedIsMessage
  <2>. QED
    BY <2>1, <2>2, <2>3, <2>4, <2>5, <2>6 DEF RowInv
<1>7. CASE GatewayRestarts
  <2>1. /\ \A c \in Conn : posting'[c] = NoFrame
        /\ UNCHANGED <<pending, called>> /\ failed \subseteq failed'
        /\ \A m \in Message, c \in Conn : Posts(c, m) => m \in failed'
    BY <1>7 DEF GatewayRestarts, Posts
  <2>2. \A m \in Message :
          /\ hook'[m] \in Before => hook'[m] = hook[m]
          /\ hook'[m] \in {"sending", "processing"} => hook'[m] = hook[m]
    BY <1>7 DEF GatewayRestarts, Before
  <2>. QED
    BY <2>1, <2>2 DEF RowInv, Posts
<1>. QED
  <2>1. ASSUME NEW m \in Message, Turn(m)
        PROVE  UNCHANGED <<hook, pending, called, posting, failed>>
    BY <2>1 DEF Turn, RunTurn, SendPart, SendFails, Complete, pumps, history
  <2>2. ASSUME NEW c \in Conn,
               \/ Join(c) \/ Open(c) \/ Close(c) \/ RemoveSession(c) \/ Write(c)
               \/ WriterEnds(c) \/ ReaderEnds(c) \/ Dial(c) \/ Disconnect(c)
        PROVE  UNCHANGED <<hook, pending, called, posting, failed>>
    BY <2>2 DEF Join, Open, Close, RemoveSession, Write, WriterEnds, ReaderEnds,
       Dial, Disconnect, pumps, history
  <2>3. CASE Connected \/ Publish \/ ReadFails \/ DaemonRestarts
    BY <1>1, <2>3 DEF Connected, Publish, ReadFails, DaemonRestarts, pumps, history
  <2>4. CASE UNCHANGED vars
    BY <1>1, <2>4 DEF vars, pumps, history
  <2>. QED
    BY <1>1, <1>2, <1>3, <1>4, <1>5, <1>6, <1>7, <2>1, <2>2, <2>3, <2>4
       DEF Next, Webhook, Socket

LEMMA CallStep == TypeOK /\ RowInv /\ CallbackOnce /\ [Next]_vars => CallbackOnce'
<1>. SUFFICES ASSUME TypeOK, RowInv, CallbackOnce, [Next]_vars PROVE CallbackOnce'
  OBVIOUS
<1>1. CASE UNCHANGED called
  BY <1>1 DEF CallbackOnce
<1>2. ASSUME NEW c \in Conn, Post(c) PROVE CallbackOnce'
  <2>. DEFINE f == posting[c]
              s == Append(<<>>, f.part)
  <2>1. /\ f # NoFrame /\ f.message \in Message /\ f.part \in Part
        /\ called[f.message] = <<>> /\ called \in [Message -> Seq(Part)]
    BY <1>2 DEF Post, TypeOK, RowInv, Frame
  <2>2. Len(s) = 1
    BY <2>1, EmptySeq, AppendProperties
  <2>3. UNCHANGED called \/ called' = [called EXCEPT ![f.message] = s]
    BY <1>2, <2>1 DEF Post
  <2>. HIDE DEF f, s
  <2>4. ASSUME NEW m \in Message PROVE called'[m] = called[m] \/ called'[m] = s
    BY <2>1, <2>3
  <2>5. ASSUME NEW m \in Message PROVE Len(called'[m]) <= 1
    <3>1. CASE called'[m] = called[m]
      BY <3>1 DEF CallbackOnce
    <3>2. CASE called'[m] = s
      <4>1. Len(called'[m]) = Len(s)
        BY <3>2
      <4>. QED
        BY <2>2, <4>1
    <3>. QED
      BY <2>4, <3>1, <3>2
  <2>. QED
    BY <2>5 DEF CallbackOnce
<1>. QED
  <2>1. ASSUME NEW m \in Message, Webhook(m) \/ Sweep(m) \/ Turn(m)
        PROVE  UNCHANGED called
    BY <2>1 DEF Webhook, Refuse, FindSession, PutPending, SendFrame, Sweep, Turn,
       RunTurn, SendPart, SendFails, Complete
  <2>2. ASSUME NEW c \in Conn, Socket(c) \/ Dial(c) \/ Disconnect(c), ~Post(c)
        PROVE  UNCHANGED called
    BY <2>2 DEF Socket, Join, Open, Close, RemoveSession, Write, WriterEnds,
       TakePending, ReaderEnds, Dial, Disconnect
  <2>3. CASE \/ Connected \/ Publish \/ ReadFails \/ GatewayRestarts \/ DaemonRestarts
             \/ UNCHANGED vars
    BY <1>1, <2>3 DEF Connected, Publish, ReadFails, GatewayRestarts, DaemonRestarts, vars
  <2>. QED
    BY <1>1, <1>2, <2>1, <2>2, <2>3 DEF Next

-----------------------------------------------------------------------------
(* Sessions and connections.                                               *)

LEMMA ConnTypes ==
  TypeOK =>
    /\ session \in Conn \cup {NoConn} /\ NoConn \notin Conn
    /\ listening \in Conn \cup {NoConn} /\ conn \in Conn \cup {NoConn}
    /\ handler \in [Conn -> {"none", "accepted", "joined", "open", "closing", "gone"}]
    /\ displaced \in [Conn -> Conn \cup {NoConn}]
    /\ writer \in [Conn -> {"none", "running", "ended"}]
    /\ reader \in [Conn -> {"none", "running", "ended"}]
    /\ done \subseteq Conn /\ alive \subseteq Conn /\ broken \subseteq Conn
BY GatewayAssumption DEF TypeOK

LEMMA StrayStep == TypeOK /\ StrayInv /\ [Next]_vars => StrayInv'
<1>. SUFFICES ASSUME TypeOK, StrayInv, [Next]_vars PROVE StrayInv'
  OBVIOUS
<1>. USE ConnTypes
<1>1. CASE UNCHANGED sessions
  BY <1>1 DEF sessions, StrayInv
<1>2. ASSUME NEW c \in Conn, Join(c) PROVE StrayInv'
  BY <1>2 DEF Join, StrayInv
<1>3. ASSUME NEW c \in Conn, Open(c) PROVE StrayInv'
  BY <1>3 DEF Open, StrayInv
<1>4. ASSUME NEW c \in Conn, Close(c) PROVE StrayInv'
  BY <1>4 DEF Close, StrayInv
<1>5. ASSUME NEW c \in Conn, RemoveSession(c) PROVE StrayInv'
  BY <1>5 DEF RemoveSession, StrayInv
<1>6. ASSUME NEW c \in Conn, Dial(c) PROVE StrayInv'
  BY <1>6 DEF Dial, StrayInv
<1>7. CASE GatewayRestarts
  BY <1>7 DEF GatewayRestarts, StrayInv
<1>. QED
  <2>1. ASSUME NEW m \in Message, Webhook(m) \/ Sweep(m) \/ Turn(m)
        PROVE  UNCHANGED sessions
    BY <2>1 DEF Webhook, Refuse, FindSession, PutPending, SendFrame, Sweep, Turn,
       RunTurn, SendPart, SendFails, Complete
  <2>2. ASSUME NEW c \in Conn,
               \/ Write(c) \/ WriterEnds(c) \/ TakePending(c) \/ Post(c)
               \/ ReaderEnds(c) \/ Disconnect(c)
        PROVE  UNCHANGED sessions
    BY <2>2 DEF Write, WriterEnds, TakePending, Post, ReaderEnds, Disconnect
  <2>3. CASE Connected \/ Publish \/ ReadFails \/ DaemonRestarts
    BY <1>1, <2>3 DEF Connected, Publish, ReadFails, DaemonRestarts
  <2>4. CASE UNCHANGED vars
    BY <1>1, <2>4 DEF vars
  <2>. QED
    BY <1>1, <1>2, <1>3, <1>4, <1>5, <1>6, <1>7, <2>1, <2>2, <2>3, <2>4
       DEF Next, Socket

(* Who cannot be reached, or has a closed session, has an excuse.          *)
LEMMA CutIsUnreliable ==
  ASSUME TypeOK, SessionInv, LinkInv, NEW c \in Conn,
         c \in done \/ (handler[c] # "none" /\ c \notin alive)
  PROVE  Unreliable(c)
BY ConnTypes DEF SessionInv, LinkInv, Unreliable

LEMMA EndedIsUnreliable ==
  ASSUME TypeOK, SessionInv, LinkInv, NEW c \in Conn,
         \/ handler[c] \in {"closing", "gone"}
         \/ writer[c] = "ended" \/ reader[c] = "ended"
  PROVE  Unreliable(c)
BY ConnTypes DEF SessionInv, LinkInv, Unreliable

LEMMA LinkStep ==
  TypeOK /\ SessionInv /\ LinkInv /\ [Next]_vars => SessionInv' /\ LinkInv'
<1>. SUFFICES ASSUME TypeOK, SessionInv, LinkInv, [Next]_vars
              PROVE  SessionInv' /\ LinkInv'
  OBVIOUS
<1>. USE ConnTypes
<1>1. CASE UNCHANGED <<sessions, writer, reader, alive, daemon, broken>>
  BY <1>1 DEF sessions, daemon, SessionInv, LinkInv
<1>2. ASSUME NEW c \in Conn, Join(c) PROVE SessionInv' /\ LinkInv'
  <2>1. /\ handler[c] = "accepted" /\ displaced[c] = NoConn /\ session # c
        /\ \A d \in Conn : displaced[d] # c
    BY <1>2 DEF Join, SessionInv, Early
  <2>2. session # NoConn => c \in broken \/ session \in broken
    <3>1. SUFFICES ASSUME session \in Conn, c \notin broken
                   PROVE  session \in broken
      OBVIOUS
    <3>2. c \notin done /\ listening = c
      BY <2>1, <3>1 DEF LinkInv
    <3>3. session \notin alive /\ handler[session] # "none"
      BY <2>1, <3>1, <3>2 DEF LinkInv, SessionInv, Early
    <3>. QED
      BY <3>1, <3>3 DEF LinkInv, SessionInv
  <2>3. SessionInv'
    BY <1>2, <2>1, <2>2 DEF Join, SessionInv, Early, history
  <2>4. LinkInv'
    BY <1>2, <2>1 DEF Join, LinkInv, pumps, wires, daemon, history
  <2>. QED
    BY <2>3, <2>4
<1>3. ASSUME NEW c \in Conn, Open(c) PROVE SessionInv' /\ LinkInv'
  <2>1. SessionInv'
    BY <1>3 DEF Open, SessionInv, Early, history
  <2>2. LinkInv'
    BY <1>3 DEF Open, LinkInv, wires, daemon, history
  <2>. QED
    BY <2>1, <2>2
<1>4. ASSUME NEW c \in Conn, Close(c) PROVE SessionInv' /\ LinkInv'
  <2>1. SessionInv'
    BY <1>4 DEF Close, SessionInv, Early, history
  <2>2. c \in broken \/ \E d \in Conn : displaced[d] = c
    BY <1>4 DEF Close, LinkInv
  <2>3. LinkInv'
    BY <1>4, <2>2 DEF Close, LinkInv, pumps, daemon, history
  <2>. QED
    BY <2>1, <2>3
<1>5. ASSUME NEW c \in Conn, RemoveSession(c) PROVE SessionInv' /\ LinkInv'
  BY <1>5 DEF RemoveSession, SessionInv, LinkInv, Early, pumps, wires, daemon, history
<1>6. ASSUME NEW c \in Conn, \/ Write(c) \/ WriterEnds(c) \/ ReaderEnds(c)
      PROVE  SessionInv' /\ LinkInv'
  <2>1. UNCHANGED <<sessions, daemon, alive, broken>>
    BY <1>6 DEF Write, WriterEnds, ReaderEnds, wires, history
  <2>2. /\ c \notin alive \/ c \in done \/ UNCHANGED <<writer, reader>>
        /\ \A d \in Conn : d # c => writer'[d] = writer[d] /\ reader'[d] = reader[d]
    BY <1>6 DEF Write, WriterEnds, ReaderEnds
  <2>3. handler[c] \notin {"none", "accepted", "joined"}
    BY <1>6 DEF Write, WriterEnds, ReaderEnds, LinkInv
  <2>4. SessionInv'
    BY <2>1 DEF SessionInv, sessions
  <2>5. c \notin alive => c \in broken \cup done
    BY <2>3 DEF LinkInv
  <2>6. LinkInv'
    BY <2>1, <2>2, <2>3, <2>5 DEF LinkInv, sessions, daemon
  <2>. QED
    BY <2>4, <2>6
<1>7. ASSUME NEW c \in Conn, Dial(c) PROVE SessionInv' /\ LinkInv'
  BY <1>7 DEF Dial, SessionInv, LinkInv, Early, pumps, history
<1>8. ASSUME NEW c \in Conn, Disconnect(c) PROVE SessionInv' /\ LinkInv'
  BY <1>8 DEF Disconnect, SessionInv, LinkInv, sessions, pumps, daemon
<1>9. CASE Connected
  BY <1>9 DEF Connected, SessionInv, LinkInv, sessions, pumps, wires, history
<1>10. CASE Publish
  BY <1>10 DEF Publish, SessionInv, LinkInv, sessions, pumps
<1>11. CASE ReadFails
  BY <1>11 DEF ReadFails, SessionInv, LinkInv, sessions, pumps, wires, history
<1>12. CASE DaemonRestarts
  BY <1>12 DEF DaemonRestarts, SessionInv, LinkInv, sessions, pumps
<1>13. CASE GatewayRestarts
  <2>1. SessionInv'
    BY <1>13 DEF GatewayRestarts, SessionInv, Early
  <2>2. LinkInv'
    BY <1>13 DEF GatewayRestarts, LinkInv, daemon
  <2>. QED
    BY <2>1, <2>2
<1>. QED
  <2>1. ASSUME NEW m \in Message, Webhook(m) \/ Sweep(m) \/ Turn(m)
        PROVE  UNCHANGED <<sessions, writer, reader, alive, daemon, broken>>
    BY <2>1 DEF Webhook, Refuse, FindSession, PutPending, SendFrame, Sweep, Turn,
       RunTurn, SendPart, SendFails, Complete, pumps, wires, history
  <2>2. ASSUME NEW c \in Conn, TakePending(c) \/ Post(c)
        PROVE  UNCHANGED <<sessions, writer, reader, alive, daemon, broken>>
    BY <2>2 DEF TakePending, Post, wires
  <2>3. CASE UNCHANGED vars
    BY <1>1, <2>3 DEF vars, pumps, wires, history
  <2>. QED
    BY <1>1, <1>2, <1>3, <1>4, <1>5, <1>6, <1>7, <1>8, <1>9, <1>10, <1>11, <1>12,
       <1>13, <2>1, <2>2, <2>3 DEF Next, Socket

-----------------------------------------------------------------------------
(* Frames on their way.                                                    *)

LEMMA FrameTypes ==
  TypeOK =>
    /\ hook \in [Message -> Hook] /\ route \in [Message -> Conn \cup {NoConn}]
    /\ queue \in [Conn -> Seq(Message)] /\ down \in [Conn -> Seq(Message)]
    /\ up \in [Conn -> Seq(Frame)] /\ sentOn \in [Message -> SUBSET Conn]
    /\ inbox \in [Message -> {"none", "stored", "sending", "sent", "done"}]
    /\ parts \in [Message -> 0 .. MaxParts]
    /\ failed \subseteq Message
BY DEF TypeOK, Hook

(* What is in a queue that a frame left or came to.                        *)
LEMMA FramesAfterWrite ==
  ASSUME TypeOK, NEW c \in Conn, Write(c)
  PROVE  /\ Head(queue[c]) \in Message
         /\ \A d \in Conn : \A m : Contains(queue[d], m) <=>
              Contains(queue'[d], m) \/ (d = c /\ m = Head(queue[c]))
         /\ \A d \in Conn : \A m : Contains(down'[d], m) <=>
              \/ Contains(down[d], m)
              \/ d = c /\ m = Head(queue[c]) /\ c \in alive
<1>. USE FrameTypes
<1>1. /\ queue[c] \in Seq(Message) /\ queue[c] # <<>>
      /\ queue' = [queue EXCEPT ![c] = Tail(@)]
  BY DEF Write
<1>2. Head(queue[c]) \in Message
  BY <1>1, HeadTailProperties
<1>3. \A m : Contains(queue[c], m) <=> m = Head(queue[c]) \/ Contains(Tail(queue[c]), m)
  BY <1>1, ContainsHeadOrTail
<1>4. \A m : Contains(Append(down[c], Head(queue[c])), m) <=>
        Contains(down[c], m) \/ m = Head(queue[c])
  BY <1>2, ContainsAfterAppend
<1>5. \/ c \in alive /\ down' = [down EXCEPT ![c] = Append(@, Head(queue[c]))]
      \/ c \notin alive /\ down' = down
  BY DEF Write
<1>. QED
  BY <1>1, <1>2, <1>3, <1>4, <1>5

LEMMA FramesAfterTake ==
  ASSUME TypeOK, NEW c \in Conn, TakePending(c)
  PROVE  \A d \in Conn : \A m : Carries(up[d], m) <=>
           Carries(up'[d], m) \/ (d = c /\ m = Head(up[c]).message)
<1>1. up[c] \in Seq(Frame) /\ up[c] # <<>> /\ up' = [up EXCEPT ![c] = Tail(@)]
  BY FrameTypes DEF TakePending
<1>2. \A m : Carries(up[c], m) <=> Head(up[c]).message = m \/ Carries(Tail(up[c]), m)
  BY <1>1, CarriesHeadOrTail
<1>. QED
  BY <1>1, <1>2, FrameTypes

LEMMA FramesAfterPublish ==
  ASSUME TypeOK, Publish
  PROVE  /\ listening \in Conn /\ Head(down[listening]) \in Message
         /\ \A d \in Conn : \A m : Contains(down[d], m) <=>
              Contains(down'[d], m) \/ (d = listening /\ m = Head(down[listening]))
<1>. DEFINE c == listening
<1>1. /\ c \in Conn /\ down[c] \in Seq(Message) /\ down[c] # <<>>
      /\ down' = [down EXCEPT ![c] = Tail(@)]
  BY FrameTypes, ConnTypes DEF Publish
<1>2. \A m : Contains(down[c], m) <=> m = Head(down[c]) \/ Contains(Tail(down[c]), m)
  BY <1>1, ContainsHeadOrTail
<1>3. Head(down[c]) \in Message
  BY <1>1, HeadTailProperties
<1>. QED
  BY <1>1, <1>2, <1>3, FrameTypes

LEMMA FramesAfterSend ==
  ASSUME TypeOK, NEW n \in Message, SendPart(n)
  PROVE  /\ conn \in Conn
         /\ \A d \in Conn : \A m : Carries(up'[d], m) <=>
              Carries(up[d], m) \/ (d = conn /\ m = n /\ conn \in alive)
         /\ sentOn' = [sentOn EXCEPT ![n] = @ \cup {conn}]
<1>. DEFINE f == [message |-> n, part |-> next[n]]
<1>1. f \in Frame /\ conn \in Conn
  BY ConnTypes DEF SendPart, Frame, TypeOK
<1>2. \A m : Carries(Append(up[conn], f), m) <=> Carries(up[conn], m) \/ m = n
  BY <1>1, FrameTypes, CarriesAfterAppend
<1>3. up' = IF conn \in alive THEN [up EXCEPT ![conn] = Append(@, f)] ELSE up
  BY DEF SendPart
<1>. HIDE DEF f
<1>4. \A d \in Conn : up'[d] = IF d = conn /\ conn \in alive THEN Append(up[conn], f)
                               ELSE up[d]
  BY <1>1, <1>3, FrameTypes
<1>5. \A d \in Conn : \A m : Carries(up'[d], m) <=>
        Carries(up[d], m) \/ (d = conn /\ m = n /\ conn \in alive)
  BY <1>2, <1>4
<1>. QED
  BY <1>1, <1>5 DEF SendPart

LEMMA FramesAfterSendFrame ==
  ASSUME TypeOK, NEW n \in Message, SendFrame(n), route[n] \in Conn
  PROVE  \A d \in Conn : \A m : Contains(queue'[d], m) <=>
           Contains(queue[d], m) \/ (d = route[n] /\ m = n /\ Takes(d))
<1>. DEFINE c == route[n]
<1>1. \A m : Contains(Append(queue[c], n), m) <=> Contains(queue[c], m) \/ m = n
  BY FrameTypes, ContainsAfterAppend
<1>2. queue' = IF Takes(c) THEN [queue EXCEPT ![c] = Append(@, n)] ELSE queue
  BY DEF SendFrame
<1>3. \A d \in Conn : queue'[d] = IF d = c /\ Takes(c) THEN Append(queue[c], n)
                                  ELSE queue[d]
  BY <1>2, FrameTypes
<1>. QED
  BY <1>1, <1>3

LEMMA FrameStep ==
  TypeOK /\ SessionInv /\ FrameInv /\ [Next]_vars => FrameInv'
<1>. SUFFICES ASSUME TypeOK, SessionInv, FrameInv, [Next]_vars PROVE FrameInv'
  OBVIOUS
<1>. USE FrameTypes, ConnTypes
<1>0. ASSUME UNCHANGED <<hook, route, queue, down, up, inbox, sentOn>>,
             \A c \in Conn : handler[c] # "none" => handler'[c] # "none"
      PROVE  FrameInv'
  BY <1>0 DEF FrameInv
<1>1. ASSUME NEW m \in Message, Refuse(m) \/ FindSession(m) \/ PutPending(m)
      PROVE  FrameInv'
  <2>1. UNCHANGED <<queue, down, up, inbox, sentOn, handler>>
    BY <1>1 DEF Refuse, FindSession, PutPending, pumps, wires, turns, sessions, history
  <2>2. /\ hook[m] \in {"none", "storing"} /\ hook'[m] # "processing"
        /\ \A n \in Message : n # m => hook'[n] = hook[n] /\ route'[n] = route[n]
        /\ hook'[m] \in {"storing", "sending"} =>
             route'[m] # NoConn /\ handler[route'[m]] # "none"
    BY <1>1 DEF Refuse, FindSession, PutPending, SessionInv, Early, FrameInv
  <2>3. /\ inbox[m] = "none"
        /\ \A c \in Conn : ~Contains(queue[c], m) /\ ~Contains(down[c], m)
    BY <2>2 DEF FrameInv
  <2>4. \A n \in Message, c \in Conn :
          /\ Contains(queue[c], n) \/ Contains(down[c], n) =>
               hook'[n] = "processing" /\ route'[n] = c
          /\ Carries(up[c], n) => c \in sentOn[n]
    BY <2>2, <2>3 DEF FrameInv
  <2>5. ASSUME NEW n \in Message
        PROVE  /\ hook'[n] \in {"storing", "sending", "processing"} =>
                    route'[n] # NoConn /\ handler[route'[n]] # "none"
               /\ inbox[n] # "none" => hook'[n] = "processing"
               /\ sentOn[n] # {} => inbox[n] # "none"
    <3>1. CASE n = m
      BY <2>2, <2>3, <3>1 DEF FrameInv
    <3>2. CASE n # m
      BY <2>2, <3>2 DEF FrameInv
    <3>. QED
      BY <3>1, <3>2
  <2>. QED
    BY <2>1, <2>4, <2>5 DEF FrameInv
<1>2. ASSUME NEW m \in Message, SendFrame(m) PROVE FrameInv'
  <2>1. /\ hook[m] = "sending" /\ route[m] \in Conn /\ handler[route[m]] # "none"
        /\ hook' = [hook EXCEPT ![m] = IF Takes(route[m]) THEN "processing" ELSE "offline"]
        /\ UNCHANGED <<down, up, inbox, sentOn, handler, route>>
    BY <1>2 DEF SendFrame, FrameInv, wires, turns, sessions, history
  <2>2. \A d \in Conn : \A n : Contains(queue'[d], n) <=>
          Contains(queue[d], n) \/ (d = route[m] /\ n = m /\ Takes(d))
    BY <1>2, <2>1, FramesAfterSendFrame
  <2>3. \A n \in Message :
          hook'[n] = IF n # m THEN hook[n]
                     ELSE IF Takes(route[m]) THEN "processing" ELSE "offline"
    BY <2>1 DEF TypeOK
  <2>4. ASSUME NEW n \in Message, NEW d \in Conn
        PROVE  /\ Contains(queue'[d], n) \/ Contains(down[d], n) =>
                    hook'[n] = "processing" /\ route[n] = d
               /\ Carries(up[d], n) => d \in sentOn[n]
    <3>1. CASE n = m
      BY <2>1, <2>2, <2>3, <3>1 DEF FrameInv
    <3>2. CASE n # m
      BY <2>2, <2>3, <3>2 DEF FrameInv
    <3>. QED
      BY <3>1, <3>2
  <2>5. ASSUME NEW n \in Message
        PROVE  /\ hook'[n] \in {"storing", "sending", "processing"} =>
                    route[n] # NoConn /\ handler[route[n]] # "none"
               /\ inbox[n] # "none" => hook'[n] = "processing"
               /\ sentOn[n] # {} => inbox[n] # "none"
    <3>1. hook[n] \in {"storing", "sending", "processing"} =>
            route[n] # NoConn /\ handler[route[n]] # "none"
      BY DEF FrameInv
    <3>2. inbox[n] # "none" => hook[n] = "processing"
      BY DEF FrameInv
    <3>3. sentOn[n] # {} => inbox[n] # "none"
      BY DEF FrameInv
    <3>. QED
      BY <2>1, <2>3, <3>1, <3>2, <3>3
  <2>. QED
    BY <2>1, <2>4, <2>5 DEF FrameInv
<1>3. ASSUME NEW c \in Conn, Write(c) PROVE FrameInv'
  <2>1. UNCHANGED <<hook, route, up, inbox, sentOn, handler>>
    BY <1>3 DEF Write, turns, sessions, history
  <2>. QED
    BY <1>3, <2>1, FramesAfterWrite DEF FrameInv
<1>4. ASSUME NEW c \in Conn, TakePending(c) PROVE FrameInv'
  <2>1. UNCHANGED <<hook, route, queue, down, inbox, sentOn, handler>>
    BY <1>4 DEF TakePending, turns, sessions
  <2>. QED
    BY <1>4, <2>1, FramesAfterTake DEF FrameInv
<1>5. ASSUME Publish PROVE FrameInv'
  <2>1. UNCHANGED <<hook, route, queue, up, sentOn, handler>>
    BY <1>5 DEF Publish, pumps, sessions
  <2>2. \A m \in Message : inbox'[m] # inbox[m] => m = Head(down[listening])
    BY <1>5, FramesAfterPublish DEF Publish
  <2>3. \A m \in Message : inbox[m] # "none" => inbox'[m] # "none"
    BY <1>5, FramesAfterPublish DEF Publish
  <2>. QED
    BY <1>5, <2>1, <2>2, <2>3, FramesAfterPublish DEF FrameInv
<1>6. ASSUME NEW m \in Message, SendPart(m) PROVE FrameInv'
  <2>1. /\ UNCHANGED <<hook, route, queue, down, handler>>
        /\ inbox[m] # "none"
        /\ \A n \in Message : inbox'[n] # "none" <=> inbox[n] # "none"
    BY <1>6 DEF SendPart, sessions, pumps
  <2>2. \A n \in Message, c \in Conn : Carries(up'[c], n) => c \in sentOn'[n]
    <3>1. \A n \in Message, c \in Conn : c \in sentOn[n] \/ (n = m /\ c = conn) =>
            c \in sentOn'[n]
      BY <1>6, FramesAfterSend
    <3>. QED
      BY <1>6, <3>1, FramesAfterSend DEF FrameInv
  <2>3. \A n \in Message : sentOn'[n] # {} => n = m \/ sentOn[n] # {}
    BY <1>6, FramesAfterSend
  <2>. QED
    BY <2>1, <2>2, <2>3 DEF FrameInv
<1>7. ASSUME NEW m \in Message, RunTurn(m) \/ SendFails(m) \/ Complete(m)
      PROVE  FrameInv'
  <2>1. /\ UNCHANGED <<hook, route, queue, down, up, handler, sentOn>>
        /\ \A n \in Message : inbox'[n] # "none" <=> inbox[n] # "none"
    BY <1>7 DEF RunTurn, SendFails, Complete, sessions, pumps, wires, history
  <2>. QED
    BY <2>1 DEF FrameInv
<1>8. CASE DaemonRestarts
  <2>1. /\ UNCHANGED <<hook, route, queue, down, up, handler, sentOn>>
        /\ \A n \in Message : inbox'[n] # "none" <=> inbox[n] # "none"
    BY <1>8 DEF DaemonRestarts, sessions, pumps
  <2>. QED
    BY <2>1 DEF FrameInv
<1>9. CASE GatewayRestarts
  <2>1. /\ UNCHANGED <<route, queue, down, up, inbox, sentOn>>
        /\ \A n \in Message :
             /\ hook'[n] \in {"storing", "sending", "processing"} => hook'[n] = hook[n]
             /\ hook[n] = "processing" => hook'[n] = hook[n]
        /\ \A c \in Conn : handler[c] # "none" => handler'[c] # "none"
    BY <1>9 DEF GatewayRestarts, turns
  <2>. QED
    BY <2>1 DEF FrameInv
<1>. QED
  <2>1. ASSUME NEW m \in Message, Sweep(m) PROVE FrameInv'
    BY <1>0, <2>1 DEF Sweep, pumps, wires, turns, sessions
  <2>2. ASSUME NEW c \in Conn,
               \/ Join(c) \/ Open(c) \/ Close(c) \/ RemoveSession(c) \/ WriterEnds(c)
               \/ Post(c) \/ ReaderEnds(c) \/ Dial(c) \/ Disconnect(c)
        PROVE  FrameInv'
    <3>1. UNCHANGED <<hook, route, queue, down, up, inbox, sentOn>>
      BY <2>2 DEF Join, Open, Close, RemoveSession, WriterEnds, Post, ReaderEnds,
         Dial, Disconnect, pumps, wires, turns, history
    <3>2. \A d \in Conn : handler[d] # "none" => handler'[d] # "none"
      BY <2>2 DEF Join, Open, Close, RemoveSession, WriterEnds, Post, ReaderEnds,
         Dial, Disconnect, sessions
    <3>. QED
      BY <1>0, <3>1, <3>2
  <2>3. CASE Connected \/ ReadFails
    BY <1>0, <2>3 DEF Connected, ReadFails, sessions, pumps, wires, turns, history
  <2>4. CASE UNCHANGED vars
    BY <1>0, <2>4 DEF vars, sessions, pumps, wires, turns, history
  <2>. QED
    BY <1>1, <1>2, <1>3, <1>4, <1>5, <1>6, <1>7, <1>8, <1>9, <2>1, <2>2, <2>3,
       <2>4 DEF Next, Webhook, Socket, Turn

(* What was unreliable stays so.                                           *)
LEMMA UnreliableStays ==
  ASSUME TypeOK, SessionInv, [Next]_vars
  PROVE  broken \subseteq broken' /\ \A c \in Conn : Unreliable(c) => Unreliable(c)'
<1>1. /\ broken \subseteq broken'
      /\ \A d \in Conn : displaced[d] # NoConn => displaced'[d] = displaced[d]
  <2>1. ASSUME NEW m \in Message, Webhook(m) \/ Sweep(m) \/ Turn(m)
        PROVE  UNCHANGED <<broken, displaced>>
    BY <2>1 DEF Webhook, Refuse, FindSession, PutPending, SendFrame, Sweep, Turn,
       RunTurn, SendPart, SendFails, Complete, sessions, history
  <2>2. ASSUME NEW c \in Conn, Socket(c), ~Join(c) PROVE UNCHANGED <<broken, displaced>>
    BY <2>2 DEF Socket, Open, Close, RemoveSession, Write, WriterEnds, TakePending,
       Post, ReaderEnds, sessions, history
  <2>3. ASSUME NEW c \in Conn, Join(c)
        PROVE  /\ UNCHANGED broken
               /\ \A d \in Conn : displaced[d] # NoConn => displaced'[d] = displaced[d]
    BY <2>3, ConnTypes DEF Join, SessionInv, Early, history
  <2>4. ASSUME NEW c \in Conn, Dial(c) \/ Disconnect(c)
        PROVE  broken \subseteq broken' /\ UNCHANGED displaced
    BY <2>4 DEF Dial, Disconnect, sessions, history
  <2>5. CASE Connected \/ Publish \/ ReadFails \/ GatewayRestarts \/ DaemonRestarts
    BY <2>5 DEF Connected, Publish, ReadFails, GatewayRestarts, DaemonRestarts,
       sessions, history
  <2>6. CASE UNCHANGED vars
    BY <2>6 DEF vars, sessions, history
  <2>. QED
    BY <2>1, <2>2, <2>3, <2>4, <2>5, <2>6 DEF Next
<1>. QED
  BY <1>1, ConnTypes DEF Unreliable

(* Webhooks that wait for their answer.                                    *)
LEMMA HookStep ==
  ASSUME TypeOK, [Next]_vars, NEW n \in Message
  PROVE  /\ hook'[n] = "processing" => hook[n] = "processing" \/ SendFrame(n)
         /\ hook[n] = "processing" => hook'[n] = "processing" /\ route'[n] = route[n]
         /\ inbox[n] # "none" => inbox'[n] # "none"
<1>. USE FrameTypes
<1>1. ASSUME NEW m \in Message, Webhook(m)
      PROVE  /\ inbox' = inbox
             /\ \A k \in Message \ {m} : hook'[k] = hook[k] /\ route'[k] = route[k]
             /\ hook[m] # "processing"
             /\ hook'[m] = "processing" => SendFrame(m)
  BY <1>1 DEF Webhook, Refuse, FindSession, PutPending, SendFrame, turns
<1>2. ASSUME NEW m \in Message, Sweep(m) \/ Turn(m)
      PROVE  /\ UNCHANGED <<hook, route>>
             /\ inbox[n] # "none" => inbox'[n] # "none"
  BY <1>2 DEF Sweep, Turn, RunTurn, SendPart, SendFails, Complete, turns
<1>3. ASSUME NEW c \in Conn, Socket(c) \/ Dial(c) \/ Disconnect(c)
      PROVE  UNCHANGED <<hook, route, inbox>>
  BY <1>3 DEF Socket, Join, Open, Close, RemoveSession, Write, WriterEnds,
     TakePending, Post, ReaderEnds, Dial, Disconnect, turns
<1>4. CASE Connected \/ ReadFails \/ UNCHANGED vars
  BY <1>4 DEF Connected, ReadFails, vars, turns
<1>5. CASE Publish
  BY <1>5 DEF Publish
<1>6. CASE DaemonRestarts
  BY <1>6 DEF DaemonRestarts
<1>7. CASE GatewayRestarts
  BY <1>7 DEF GatewayRestarts, turns
<1>. QED
  BY <1>1, <1>2, <1>3, <1>4, <1>5, <1>6, <1>7 DEF Next

(* A frame on its way to the daemon arrives, or its connection is one of   *)
(* those that lose frames.                                                 *)
LEMMA OutboundGoesOn ==
  ASSUME TypeOK, SessionInv, LinkInv, FrameInv, [Next]_vars,
         NEW n \in Message, hook[n] = "processing", Outbound(n),
         inbox[n] = "none", inbox'[n] = "none"
  PROVE  Outbound(n)' \/ Unreliable(route[n])'
<1>. USE FrameTypes, ConnTypes
<1>1. PICK c \in Conn : \/ Contains(queue[c], n) /\ writer[c] # "ended"
                        \/ Contains(down[c], n) /\ listening = c
  BY DEF Outbound
<1>2. route[n] = c /\ handler[c] # "none"
  BY <1>1 DEF FrameInv
<1>3. Unreliable(c) => Unreliable(c)'
  BY UnreliableStays
<1>4. c \in done \/ c \notin alive => Unreliable(c)
  BY <1>2, CutIsUnreliable
<1>5. route'[n] = c
  BY <1>2, HookStep
<1>6. SUFFICES ASSUME ~Unreliable(c), ~Unreliable(c)' PROVE Outbound(n)'
  BY <1>2, <1>3, <1>5 DEF Unreliable
<1>7. c \in alive /\ c \notin done /\ listening = c /\ c \notin broken'
  BY <1>4, <1>6 DEF LinkInv, Unreliable
<1>10. CASE UNCHANGED <<queue, down, writer, listening>>
  BY <1>1, <1>10 DEF Outbound
<1>11. ASSUME NEW m \in Message, SendFrame(m) PROVE Outbound(n)'
  <2>1. UNCHANGED <<down, writer, listening>>
    BY <1>11 DEF SendFrame, wires, daemon
  <2>2. route[m] \in Conn
    BY <1>11 DEF SendFrame, FrameInv
  <2>. QED
    BY <1>1, <1>11, <2>1, <2>2, FramesAfterSendFrame DEF Outbound
<1>12. ASSUME NEW d \in Conn, Open(d) PROVE Outbound(n)'
  <2>1. UNCHANGED <<down, queue, listening>> /\ writer'[c] \in {"running", writer[c]}
    BY <1>12 DEF Open, wires, daemon
  <2>. QED
    BY <1>1, <2>1 DEF Outbound
<1>13. ASSUME NEW d \in Conn, Write(d) PROVE Outbound(n)'
  <2>1. UNCHANGED listening /\ (writer'[c] = writer[c] \/ (d = c /\ c \notin alive))
    BY <1>13 DEF Write, daemon
  <2>. QED
    BY <1>1, <1>7, <1>13, <2>1, FramesAfterWrite DEF Outbound
<1>14. ASSUME NEW d \in Conn, WriterEnds(d) PROVE Outbound(n)'
  <2>1. d # c /\ UNCHANGED <<queue, down, listening>> /\ writer'[c] = writer[c]
    BY <1>7, <1>14 DEF WriterEnds, wires, daemon
  <2>. QED
    BY <1>1, <2>1 DEF Outbound
<1>15. CASE Publish
  <2>1. /\ UNCHANGED <<queue, writer>>
        /\ listening' = listening \/ c \in broken'
    BY <1>7, <1>15 DEF Publish, pumps
  <2>2. n # Head(down[listening]) \/ c \in broken'
    BY <1>7, <1>15 DEF Publish
  <2>. QED
    BY <1>1, <1>7, <1>15, <2>1, <2>2, FramesAfterPublish DEF Outbound
<1>16. CASE ReadFails
  BY <1>7, <1>16 DEF ReadFails
<1>17. CASE GatewayRestarts
  <2>1. c \in broken' \/ writer'[c] = writer[c]
    BY <1>17 DEF GatewayRestarts
  <2>2. UNCHANGED <<queue, down, listening>>
    BY <1>17 DEF GatewayRestarts, daemon
  <2>. QED
    BY <1>1, <1>7, <2>1, <2>2 DEF Outbound
<1>18. CASE DaemonRestarts
  BY <1>7, <1>18 DEF DaemonRestarts
<1>19. ASSUME NEW d \in Conn, Dial(d) PROVE Outbound(n)'
  BY <1>7, <1>19 DEF Dial
<1>. QED
  <2>1. ASSUME NEW m \in Message,
               Refuse(m) \/ FindSession(m) \/ PutPending(m) \/ Sweep(m) \/ Turn(m)
        PROVE  UNCHANGED <<queue, down, writer, listening>>
    BY <2>1 DEF Refuse, FindSession, PutPending, Sweep, Turn,
       RunTurn, SendPart, SendFails, Complete, pumps, wires, daemon
  <2>2. ASSUME NEW d \in Conn,
               \/ Join(d) \/ Close(d) \/ RemoveSession(d) \/ TakePending(d)
               \/ Post(d) \/ ReaderEnds(d) \/ Disconnect(d)
        PROVE  UNCHANGED <<queue, down, writer, listening>>
    BY <2>2 DEF Join, Close, RemoveSession, TakePending, Post, ReaderEnds,
       Disconnect, pumps, wires, daemon
  <2>3. CASE Connected
    BY <1>10, <2>3 DEF Connected, pumps, wires
  <2>4. CASE UNCHANGED vars
    BY <1>10, <2>4 DEF vars, pumps, wires, daemon
  <2>. QED
    BY <1>10, <1>11, <1>12, <1>13, <1>14, <1>15, <1>16, <1>17, <1>18, <1>19, <2>1,
       <2>2, <2>3, <2>4 DEF Next, Webhook, Socket

LEMMA OutboundStep ==
  TypeOK /\ SessionInv /\ LinkInv /\ FrameInv /\ OutboundInv /\ [Next]_vars
    => OutboundInv'
<1>. SUFFICES ASSUME TypeOK, SessionInv, LinkInv, FrameInv, OutboundInv, [Next]_vars,
                     NEW n \in Message, hook'[n] = "processing", inbox'[n] = "none"
              PROVE  Outbound(n)' \/ Unreliable(route[n])'
  BY DEF OutboundInv
<1>1. inbox[n] = "none"
  BY HookStep
<1>2. CASE hook[n] = "processing"
  <2>1. route[n] \in Conn /\ UNCHANGED route[n]
    BY <1>2, FrameTypes, HookStep DEF FrameInv
  <2>2. CASE Outbound(n)
    BY <1>1, <1>2, <2>2, OutboundGoesOn
  <2>3. CASE Unreliable(route[n])
    <3>1. PICK c \in Conn : c = route[n] /\ c = route'[n]
      BY <2>1
    <3>2. Unreliable(c)'
      BY <2>3, <3>1, UnreliableStays
    <3>. QED
      BY <3>1, <3>2 DEF Unreliable
  <2>. QED
    BY <1>1, <1>2, <2>2, <2>3 DEF OutboundInv
<1>3. CASE SendFrame(n)
  <2>1. PICK c \in Conn : c = route[n] /\ c = route'[n]
    BY <1>3, FrameTypes DEF SendFrame, FrameInv
  <2>2. Takes(c) /\ UNCHANGED writer
    BY <1>3, <2>1, FrameTypes DEF SendFrame
  <2>3. Contains(queue'[c], n)
    BY <1>3, <2>1, <2>2, FramesAfterSendFrame
  <2>4. CASE writer[c] = "ended"
    <3>1. Unreliable(c)'
      BY <2>4, EndedIsUnreliable, UnreliableStays
    <3>. QED
      BY <2>1, <3>1 DEF Unreliable
  <2>5. CASE writer[c] # "ended"
    BY <2>2, <2>3, <2>5 DEF Outbound
  <2>. QED
    BY <2>4, <2>5
<1>. QED
  BY <1>2, <1>3, HookStep

LEMMA PostIsACall ==
  ASSUME TypeOK, NEW c \in Conn, posting[c] # NoFrame
  PROVE  Append(called[posting[c].message], posting[c].part) # <<>>
<1>1. /\ posting[c].message \in Message /\ posting[c].part \in Part
      /\ called \in [Message -> Seq(Part)]
  BY DEF TypeOK, Frame
<1>. DEFINE s == called[posting[c].message]
            p == posting[c].part
<1>2. s \in Seq(Part) /\ p \in Part
  BY <1>1
<1>. HIDE DEF s, p
<1>3. Append(s, p) # <<>>
  BY <1>2, AppendProperties
<1>. QED
  BY <1>3 DEF s, p

(* What happened to an answer stays so.                                    *)
LEMMA AnswerHistory ==
  ASSUME TypeOK, [Next]_vars, NEW n \in Message
  PROVE  /\ called[n] # <<>> => called'[n] # <<>>
         /\ failed \subseteq failed' /\ sentOn[n] \subseteq sentOn'[n]
<1>1. ASSUME NEW m \in Message, Webhook(m) \/ Sweep(m)
      PROVE  UNCHANGED <<called, sentOn>> /\ failed \subseteq failed'
  BY <1>1 DEF Webhook, Refuse, FindSession, PutPending, SendFrame, Sweep, history
<1>2. ASSUME NEW m \in Message, Turn(m)
      PROVE  UNCHANGED <<called, failed>> /\ sentOn[n] \subseteq sentOn'[n]
  <2>1. sentOn' = sentOn \/ sentOn' = [sentOn EXCEPT ![m] = @ \cup {conn}]
    BY <1>2 DEF Turn, RunTurn, SendPart, SendFails, Complete, history
  <2>2. UNCHANGED <<called, failed>>
    BY <1>2 DEF Turn, RunTurn, SendPart, SendFails, Complete, history
  <2>. QED
    BY <2>1, <2>2, FrameTypes
<1>3. ASSUME NEW c \in Conn, Socket(c), ~Post(c), ~TakePending(c)
      PROVE  UNCHANGED <<called, sentOn, failed>>
  BY <1>3 DEF Socket, Join, Open, Close, RemoveSession, Write, WriterEnds, ReaderEnds,
     history
<1>4. ASSUME NEW c \in Conn, TakePending(c) \/ Dial(c) \/ Disconnect(c)
      PROVE  UNCHANGED <<called, sentOn>> /\ failed \subseteq failed'
  BY <1>4 DEF TakePending, Dial, Disconnect, history
<1>5. ASSUME NEW c \in Conn, Post(c)
      PROVE  /\ UNCHANGED sentOn /\ failed \subseteq failed'
             /\ called[n] # <<>> => called'[n] # <<>>
  <2>1. /\ posting[c] \in Frame /\ posting[c].message \in Message
        /\ UNCHANGED sentOn /\ failed \subseteq failed'
        /\ \/ UNCHANGED called
           \/ called' = [called EXCEPT ![posting[c].message] = Append(@, posting[c].part)]
    BY <1>5, PostedIsMessage DEF Post, TypeOK
  <2>2. Append(called[posting[c].message], posting[c].part) # <<>>
    BY <1>5, PostIsACall DEF Post
  <2>. QED
    BY <2>1, <2>2 DEF TypeOK
<1>6. CASE Connected \/ Publish \/ ReadFails \/ GatewayRestarts \/ DaemonRestarts
  BY <1>6 DEF Connected, Publish, ReadFails, GatewayRestarts, DaemonRestarts, history
<1>7. CASE UNCHANGED vars
  BY <1>7 DEF vars, history
<1>. QED
  BY <1>1, <1>2, <1>3, <1>4, <1>5, <1>6, <1>7 DEF Next

(* An answer on its way to the callback gets there, or the post fails, or  *)
(* its connection is one of those that lose frames.                        *)
LEMMA InboundGoesOn ==
  ASSUME TypeOK, SessionInv, LinkInv, FrameInv, RowInv, [Next]_vars,
         NEW n \in Message, hook[n] = "processing", Inbound(n),
         called'[n] = <<>>, n \notin failed'
  PROVE  Inbound(n)' \/ \E c \in sentOn[n] : Unreliable(c)'
<1>. USE FrameTypes, ConnTypes
<1>0. posting \in [Conn -> Frame \cup {NoFrame}] /\ called \in [Message -> Seq(Part)]
  BY DEF TypeOK
<1>1. ASSUME NEW c \in Conn, Posts(c, n) PROVE Posts(c, n)'
  <2>1. posting[c] # NoFrame /\ posting[c].message = n
    BY <1>1 DEF Posts
  <2>2. ASSUME NEW d \in Conn, TakePending(d) PROVE posting'[c] = posting[c]
    BY <1>0, <2>1, <2>2 DEF TakePending
  <2>3. ASSUME NEW d \in Conn, Post(d) PROVE posting'[c] = posting[c]
    <3>1. CASE d = c
      <4>1. Append(called[n], posting[c].part) # <<>>
        BY <2>1, <3>1, PostIsACall
      <4>. QED
        BY <1>0, <2>1, <2>3, <3>1, <4>1 DEF Post
    <3>2. CASE d # c
      BY <1>0, <2>3, <3>2 DEF Post
    <3>. QED
      BY <3>1, <3>2
  <2>4. ~GatewayRestarts
    BY <2>1 DEF GatewayRestarts
  <2>5. ASSUME NEW m \in Message, Webhook(m) \/ Sweep(m) \/ Turn(m)
        PROVE  UNCHANGED posting
    BY <2>5 DEF Webhook, Refuse, FindSession, PutPending, SendFrame, Sweep, Turn,
       RunTurn, SendPart, SendFails, Complete, pumps
  <2>6. ASSUME NEW d \in Conn, Socket(d) \/ Dial(d) \/ Disconnect(d),
               ~TakePending(d), ~Post(d)
        PROVE  UNCHANGED posting
    BY <2>6 DEF Socket, Join, Open, Close, RemoveSession, Write, WriterEnds, ReaderEnds,
       Dial, Disconnect, pumps
  <2>7. CASE Connected \/ Publish \/ ReadFails \/ DaemonRestarts \/ UNCHANGED vars
    BY <2>1, <2>7 DEF Connected, Publish, ReadFails, DaemonRestarts, vars, pumps, Posts
  <2>. QED
    BY <2>1, <2>2, <2>3, <2>4, <2>5, <2>6, <2>7 DEF Next, Posts
<1>2. CASE \E c \in Conn : Posts(c, n)
  BY <1>1, <1>2 DEF Inbound, Posts
<1>3. CASE \A c \in Conn : ~Posts(c, n)
  <2>1. PICK c \in Conn : /\ Carries(up[c], n) /\ reader[c] # "ended"
                          /\ handler[c] \in {"accepted", "joined", "open"}
    BY <1>3 DEF Inbound, Posts, Carries
  <2>2. c \in sentOn[n]
    BY <2>1 DEF FrameInv
  <2>3. SUFFICES ASSUME ~Unreliable(c), c \notin broken' PROVE Inbound(n)'
    BY <2>2, UnreliableStays DEF Unreliable
  <2>4. c \in alive /\ c \notin done /\ writer[c] # "ended"
    BY <2>1, <2>3, CutIsUnreliable, EndedIsUnreliable
  <2>5. SUFFICES \/ Posts(c, n)'
                 \/ /\ Carries(up'[c], n) /\ reader'[c] # "ended"
                    /\ handler'[c] \in {"accepted", "joined", "open"}
    BY DEF Inbound, Posts, Carries
  <2>6. CASE UNCHANGED <<up, reader, handler>>
    BY <2>1, <2>6
  <2>7. ASSUME NEW d \in Conn,
               Join(d) \/ Open(d) \/ Close(d) \/ RemoveSession(d) \/ Dial(d)
        PROVE  /\ UNCHANGED up /\ reader'[c] # "ended"
               /\ handler'[c] \in {"accepted", "joined", "open"}
    BY <2>1, <2>4, <2>7 DEF Join, Open, Close, RemoveSession, Dial, pumps, wires
  <2>8. ASSUME NEW d \in Conn, ReaderEnds(d)
        PROVE  UNCHANGED <<up, handler>> /\ reader'[c] = reader[c]
    BY <2>4, <2>8 DEF ReaderEnds, wires, sessions
  <2>9. ASSUME NEW d \in Conn, TakePending(d)
        PROVE  \/ Posts(c, n)'
               \/ Carries(up'[c], n) /\ UNCHANGED <<reader, handler>>
    <3>1. UNCHANGED <<reader, handler, called, hook>> /\ failed \subseteq failed'
      BY <2>9 DEF TakePending, sessions
    <3>2. CASE d = c /\ Head(up[c]).message = n
      <4>1. n \in pending
        BY <1>3, <3>1 DEF RowInv
      <4>2. Head(up[c]) # NoFrame
        BY <2>9, <3>2, HeadIsFrame DEF TakePending
      <4>. QED
        BY <1>0, <2>9, <3>2, <4>1, <4>2 DEF TakePending, Posts
    <3>3. CASE ~(d = c /\ Head(up[c]).message = n)
      BY <2>1, <2>9, <3>1, <3>3, FramesAfterTake
    <3>. QED
      BY <3>2, <3>3
  <2>10. ASSUME NEW m \in Message, SendPart(m)
         PROVE  UNCHANGED <<reader, handler>> /\ Carries(up'[c], n)
    BY <2>1, <2>10, FramesAfterSend DEF SendPart, pumps, sessions
  <2>11. CASE GatewayRestarts
    BY <2>1, <2>3, <2>11 DEF GatewayRestarts
  <2>. QED
    <3>1. ASSUME NEW m \in Message, Webhook(m) \/ Sweep(m) \/ Turn(m), ~SendPart(m)
          PROVE  UNCHANGED <<up, reader, handler>>
      BY <3>1 DEF Webhook, Refuse, FindSession, PutPending, SendFrame, Sweep, Turn,
         RunTurn, SendFails, Complete, pumps, wires, sessions
    <3>2. ASSUME NEW d \in Conn, Write(d) \/ WriterEnds(d) \/ Post(d) \/ Disconnect(d)
          PROVE  UNCHANGED <<up, reader, handler>>
      BY <3>2 DEF Write, WriterEnds, Post, Disconnect, pumps, wires, sessions
    <3>3. CASE Connected \/ Publish \/ ReadFails \/ DaemonRestarts \/ UNCHANGED vars
      BY <2>6, <3>3 DEF Connected, Publish, ReadFails, DaemonRestarts, vars, pumps,
         wires, sessions
    <3>. QED
      BY <2>1, <2>6, <2>7, <2>8, <2>9, <2>10, <2>11, <3>1, <3>2, <3>3
         DEF Next, Socket
<1>. QED
  BY <1>2, <1>3

LEMMA AnswerStep ==
  TypeOK /\ SessionInv /\ LinkInv /\ FrameInv /\ RowInv /\ AnswerInv /\ [Next]_vars
    => AnswerInv'
<1>. SUFFICES ASSUME TypeOK, SessionInv, LinkInv, FrameInv, RowInv, AnswerInv,
                     [Next]_vars, NEW n \in Message,
                     hook'[n] = "processing", called'[n] = <<>>, n \notin failed',
                     sentOn'[n] # {}
              PROVE  Inbound(n)' \/ \E c \in sentOn'[n] : Unreliable(c)'
  BY DEF AnswerInv
<1>. USE FrameTypes, ConnTypes
<1>1. called[n] = <<>> /\ n \notin failed /\ sentOn[n] \subseteq sentOn'[n]
  BY AnswerHistory
<1>2. hook[n] = "processing"
  <2>1. ASSUME SendFrame(n) PROVE FALSE
    <3>1. hook[n] = "sending" /\ UNCHANGED sentOn
      BY <2>1 DEF SendFrame, history
    <3>. QED
      BY <3>1 DEF FrameInv
  <2>. QED
    BY <2>1, HookStep
<1>3. sentOn[n] \subseteq Conn
  OBVIOUS
<1>4. CASE sentOn[n] # {}
  <2>1. CASE Inbound(n)
    BY <1>1, <1>2, <2>1, InboundGoesOn
  <2>2. CASE \E c \in sentOn[n] : Unreliable(c)
    BY <1>1, <1>3, <2>2, UnreliableStays
  <2>. QED
    BY <1>1, <1>2, <1>4, <2>1, <2>2 DEF AnswerInv
<1>5. CASE sentOn[n] = {}
  <2>1. SendPart(n)
    <3>1. ASSUME NEW m \in Message, SendPart(m), m # n PROVE sentOn'[n] = sentOn[n]
      BY <3>1, FramesAfterSend
    <3>2. ASSUME NEW m \in Message, Webhook(m) \/ Sweep(m) \/ Turn(m), ~SendPart(m)
          PROVE  UNCHANGED sentOn
      BY <3>2 DEF Webhook, Refuse, FindSession, PutPending, SendFrame, Sweep, Turn,
         RunTurn, SendFails, Complete, history
    <3>3. ASSUME NEW c \in Conn, Socket(c) \/ Dial(c) \/ Disconnect(c)
          PROVE  UNCHANGED sentOn
      BY <3>3 DEF Socket, Join, Open, Close, RemoveSession, Write, WriterEnds,
         TakePending, Post, ReaderEnds, Dial, Disconnect, history
    <3>4. CASE Connected \/ Publish \/ ReadFails \/ GatewayRestarts \/ DaemonRestarts
               \/ UNCHANGED vars
      BY <1>5, <3>4 DEF Connected, Publish, ReadFails, GatewayRestarts, DaemonRestarts,
         vars, history
    <3>. QED
      BY <1>5, <3>1, <3>2, <3>3, <3>4 DEF Next
  <2>2. conn \in Conn /\ conn \in sentOn'[n] /\ handler[conn] # "none"
    BY <2>1, FramesAfterSend DEF LinkInv
  <2>3. PICK c \in Conn : c = conn
    BY <2>2
  <2>4. CASE Unreliable(c)
    BY <2>2, <2>3, <2>4, UnreliableStays
  <2>5. CASE ~Unreliable(c)
    <3>1. /\ c \in alive /\ handler[c] \in {"accepted", "joined", "open"}
          /\ reader[c] # "ended"
      BY <2>2, <2>3, <2>5, CutIsUnreliable, EndedIsUnreliable
    <3>2. Carries(up'[c], n) /\ UNCHANGED <<handler, reader>>
      BY <2>1, <2>3, <3>1, FramesAfterSend DEF SendPart, sessions, pumps
    <3>. QED
      BY <3>1, <3>2 DEF Inbound, Carries
  <2>. QED
    BY <2>4, <2>5
<1>. QED
  BY <1>4, <1>5

LEMMA ConnStep ==
  TypeOK /\ SessionInv /\ LinkInv /\ ConnInv /\ [Next]_vars => ConnInv'
<1>. SUFFICES ASSUME TypeOK, SessionInv, LinkInv, ConnInv, [Next]_vars,
                     broken' = {}, NEW n \in Message, inbox'[n] # "none"
              PROVE  conn' # NoConn /\ conn' = listening' /\ conn' \in alive'
  BY DEF ConnInv
<1>. USE FrameTypes, ConnTypes
<1>1. broken = {} /\ \A c \in Conn : ~Unreliable(c)
  BY UnreliableStays DEF Unreliable
<1>2. \A c \in Conn : handler[c] # "none" =>
        /\ c \in alive /\ writer[c] # "ended" /\ reader[c] # "ended"
  BY <1>1, CutIsUnreliable, EndedIsUnreliable
<1>3. CASE inbox[n] = "none"
  <2>1. Publish
    <3>1. ASSUME NEW m \in Message, Webhook(m) \/ Sweep(m) PROVE UNCHANGED inbox
      BY <3>1 DEF Webhook, Refuse, FindSession, PutPending, SendFrame, Sweep, turns
    <3>2. ASSUME NEW m \in Message, Turn(m) PROVE inbox'[n] = "none"
      BY <1>3, <3>2 DEF Turn, RunTurn, SendPart, SendFails, Complete
    <3>3. ASSUME NEW c \in Conn, Socket(c) \/ Dial(c) \/ Disconnect(c)
          PROVE  UNCHANGED inbox
      BY <3>3 DEF Socket, Join, Open, Close, RemoveSession, Write, WriterEnds,
         TakePending, Post, ReaderEnds, Dial, Disconnect, turns
    <3>4. CASE Connected \/ ReadFails \/ GatewayRestarts \/ UNCHANGED vars
      BY <1>3, <3>4 DEF Connected, ReadFails, GatewayRestarts, vars, turns
    <3>5. ~DaemonRestarts
      BY <1>1 DEF DaemonRestarts
    <3>. QED
      BY <1>3, <3>1, <3>2, <3>3, <3>4, <3>5 DEF Next
  <2>2. /\ listening \in Conn /\ conn = listening
        /\ UNCHANGED <<listening, alive, conn>>
    BY <1>1, <2>1 DEF Publish
  <2>. QED
    BY <1>2, <2>2 DEF LinkInv
<1>4. CASE inbox[n] # "none"
  <2>1. conn # NoConn /\ conn = listening /\ conn \in alive
    BY <1>1, <1>4 DEF ConnInv
  <2>2. SUFFICES UNCHANGED <<conn, listening, alive>>
    BY <2>1
  <2>3. ASSUME NEW m \in Message, Webhook(m) \/ Sweep(m) \/ Turn(m)
        PROVE  UNCHANGED <<conn, listening, alive>>
    BY <2>3 DEF Webhook, Refuse, FindSession, PutPending, SendFrame, Sweep, Turn,
       RunTurn, SendPart, SendFails, Complete, daemon, wires
  <2>4. ASSUME NEW c \in Conn, Socket(c), ~Close(c)
        PROVE  UNCHANGED <<conn, listening, alive>>
    BY <2>4 DEF Socket, Join, Open, RemoveSession, Write, WriterEnds,
       TakePending, Post, ReaderEnds, daemon, wires
  <2>5. ASSUME NEW c \in Conn, Close(c) \/ Dial(c) \/ Disconnect(c)
        PROVE  UNCHANGED <<conn, listening, alive>>
    BY <1>1, <1>2, <2>1, <2>5 DEF Close, Dial, Disconnect
  <2>6. CASE Connected \/ Publish \/ ReadFails \/ DaemonRestarts
    BY <1>1, <2>1, <2>6 DEF Connected, Publish, ReadFails, DaemonRestarts
  <2>7. ~GatewayRestarts
    BY <1>1 DEF GatewayRestarts
  <2>8. CASE UNCHANGED vars
    BY <2>8 DEF vars, daemon, wires
  <2>. QED
    BY <2>3, <2>4, <2>5, <2>6, <2>7, <2>8 DEF Next
<1>. QED
  BY <1>3, <1>4

LEMMA SentStep ==
  TypeOK /\ SessionInv /\ ConnInv /\ SentInv /\ [Next]_vars => SentInv'
<1>. SUFFICES ASSUME TypeOK, SessionInv, ConnInv, SentInv, [Next]_vars,
                     NEW n \in Message, inbox'[n] \in {"sent", "done"},
                     sentOn'[n] = {}, broken' = {}
              PROVE  parts'[n] = 0
  BY DEF SentInv
<1>. USE FrameTypes, ConnTypes
<1>1. broken = {} /\ sentOn[n] = {}
  BY UnreliableStays, AnswerHistory
<1>2. SUFFICES (inbox[n] \in {"sent", "done"} /\ parts'[n] = parts[n]) \/ parts'[n] = 0
  BY <1>1 DEF SentInv
<1>3. ASSUME NEW m \in Message, RunTurn(m)
      PROVE  (inbox[n] \in {"sent", "done"} /\ parts'[n] = parts[n]) \/ parts'[n] = 0
  <2>1. PICK k \in 0 .. MaxParts :
          /\ parts' = [parts EXCEPT ![m] = k]
          /\ inbox' = [inbox EXCEPT ![m] = IF k = 0 THEN "sent" ELSE "sending"]
    BY <1>3 DEF RunTurn
  <2>. QED
    BY <2>1
<1>4. ASSUME NEW m \in Message, SendPart(m)
      PROVE  inbox[n] \in {"sent", "done"} /\ parts'[n] = parts[n]
  <2>1. sentOn'[m] # {}
    <3>1. sentOn' = [sentOn EXCEPT ![m] = @ \cup {conn}]
      BY <1>4, FramesAfterSend
    <3>. QED
      BY <3>1
  <2>2. m # n
    BY <2>1
  <2>. QED
    BY <1>4, <2>2 DEF SendPart
<1>5. ASSUME NEW m \in Message, SendFails(m) PROVE FALSE
  <2>1. inbox[m] # "none" /\ (conn = NoConn \/ conn # listening \/ conn \notin alive)
    BY <1>5 DEF SendFails
  <2>. QED
    BY <1>1, <2>1 DEF ConnInv
<1>6. ASSUME NEW m \in Message, Complete(m) \/ Webhook(m) \/ Sweep(m)
      PROVE  inbox[n] \in {"sent", "done"} /\ parts'[n] = parts[n]
  BY <1>6 DEF Complete, Webhook, Refuse, FindSession, PutPending, SendFrame, Sweep, turns
<1>7. ASSUME NEW c \in Conn, Socket(c) \/ Dial(c) \/ Disconnect(c)
      PROVE  UNCHANGED <<inbox, parts>>
  BY <1>7 DEF Socket, Join, Open, Close, RemoveSession, Write, WriterEnds, TakePending,
     Post, ReaderEnds, Dial, Disconnect, turns
<1>8. CASE Connected \/ ReadFails \/ GatewayRestarts \/ UNCHANGED vars
  BY <1>8 DEF Connected, ReadFails, GatewayRestarts, vars, turns
<1>9. CASE Publish
  BY <1>9 DEF Publish
<1>10. ~DaemonRestarts
  BY <1>1 DEF DaemonRestarts
<1>. QED
  BY <1>3, <1>4, <1>5, <1>6, <1>7, <1>8, <1>9, <1>10 DEF Next, Turn

-----------------------------------------------------------------------------
(* The invariant and what follows.                                         *)

LEMMA Initially == Init => IInv
<1>. SUFFICES ASSUME Init PROVE IInv
  OBVIOUS
<1>1. TypeOK /\ PartInv
  BY TypeInit
<1>2. RowInv /\ StrayInv /\ SessionInv /\ LinkInv
  BY DEF Init, RowInv, StrayInv, SessionInv, LinkInv, Posts, Before, Early
<1>3. FrameInv
  BY ContainsEmpty, CarriesEmpty DEF Init, FrameInv
<1>5. CallbackOnce
  BY EmptySeq DEF Init, CallbackOnce
<1>4. OutboundInv /\ AnswerInv /\ ConnInv /\ SentInv
  BY DEF Init, OutboundInv, AnswerInv, ConnInv, SentInv
<1>. QED
  BY <1>1, <1>2, <1>3, <1>4, <1>5 DEF IInv

THEOREM Invariance == Spec => []IInv
<1>1. IInv /\ [Next]_vars => IInv'
  BY TypeStep, RowStep, CallStep, StrayStep, LinkStep, FrameStep, OutboundStep,
     AnswerStep, ConnStep, SentStep DEF IInv
<1>. QED
  BY Initially, <1>1, PTL DEF Spec

(* The variables have their types; in particular a session's channel never *)
(* holds more frames than it has room for, and the chunk that is sent next *)
(* is one that the answer may have.                                        *)
THEOREM TypeCorrect == Spec => []TypeOK
<1>1. IInv => TypeOK
  BY DEF IInv
<1>. QED
  BY <1>1, Invariance, PTL

(* A callback receives one request at most, whatever is sent again by      *)
(* turns that are run again, over whichever connections and gateways.      *)
THEOREM CallbackOnceThm == Spec => []CallbackOnce
<1>1. IInv => CallbackOnce
  BY DEF IInv
<1>. QED
  BY <1>1, Invariance, PTL

(* No connection stays open beside the one in the map with nobody about to *)
(* close it (setSession, removeSession).                                   *)
THEOREM NoStraySessionThm == Spec => []NoStraySession
<1>1. IInv => NoStraySession
  BY DEF IInv, StrayInv, NoStraySession
<1>. QED
  BY <1>1, Invariance, PTL

(* A user who was told that a message is being processed is answered, or   *)
(* there is a reason why not, for any number of mishaps.                   *)
THEOREM SilenceIsExplainedThm == Spec => []SilenceIsExplained
<1>1. ASSUME IInv PROVE SilenceIsExplained
  <2>1. SUFFICES ASSUME NEW m \in Message, hook[m] = "processing", called[m] = <<>>,
                        m \notin failed, inbox[m] \notin {"stored", "sending"}
                 PROVE  \/ inbox[m] = "none" /\ (Outbound(m) \/ Unreliable(route[m]))
                        \/ /\ inbox[m] \in {"sent", "done"}
                           /\ Inbound(m) \/ Unanswerable(m) \/ parts[m] = 0
    BY DEF SilenceIsExplained
  <2>2. CASE inbox[m] = "none"
    BY <1>1, <2>1, <2>2 DEF IInv, OutboundInv
  <2>3. CASE inbox[m] \in {"sent", "done"}
    BY <1>1, <2>1, <2>3 DEF IInv, AnswerInv, SentInv, Unanswerable
  <2>. QED
    BY <1>1, <2>1, <2>2, <2>3, FrameTypes DEF IInv
<1>. QED
  BY <1>1, Invariance, PTL

=============================================================================
