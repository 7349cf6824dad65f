---------------------------- MODULE KakaoGateway ----------------------------
(***************************************************************************)
(* The KakaoTalk gateway (apps/kakao) and the channel of the daemon that   *)
(* is connected to it (apps/kittypaw/channel/kakao.go), for one KakaoTalk  *)
(* user and the relay token that user is paired with.                      *)
(*                                                                         *)
(* A message comes in as a webhook, whose answer says that it is being     *)
(* processed or why not.  The gateway keeps a row with the callback of the *)
(* message in SQLite and passes the message to the daemon over the session *)
(* of the token.  The daemon stores it, runs a turn and sends the answer   *)
(* over the connection it has by then; the gateway takes the row and posts *)
(* the answer to the callback.                                             *)
(*                                                                         *)
(* One step is one statement, one critical section, one operation on a     *)
(* channel or one frame.  Both peers may read what had arrived before a    *)
(* connection broke, and may write to it until they notice.                *)
(*                                                                         *)
(* Left out: pairing and registration, images, a webhook that is sent      *)
(* twice, a full queue of the worker and the replacement of the channel.   *)
(***************************************************************************)
EXTENDS Naturals, Sequences, FiniteSets, SequencesExt

CONSTANTS
  Message,    \* webhooks, each with an action id of its own
  Conn,       \* websocket connections, each used once
  NoConn,     \* no connection
  NoFrame,    \* no frame
  Buffer,     \* capacity of wsSession.send, 64 in the code
  MaxParts,   \* most chunks an answer is split into
  MaxMishap   \* bound on what may go wrong

Part == 1 .. MaxParts
Frame == [message : Message, part : Part]

ASSUME GatewayAssumption ==
  /\ NoConn \notin Conn /\ NoFrame \notin Frame
  /\ Buffer \in Nat \ {0} /\ MaxParts \in Nat \ {0} /\ MaxMishap \in Nat

VARIABLES
  hook,      \* Message -> where its webhook handler is, then what it answered
  route,     \* Message -> session its handler found
  pending,   \* messages with a row in pending_callbacks
  session,   \* State.sessions[token]
  handler,   \* Conn -> where its websocket handler is
  displaced, \* Conn -> session that setSession returned to it
  done,      \* connections whose session is closed
  queue,     \* Conn -> frames in its session's channel
  writer,    \* Conn -> whether its wsWriter is running
  reader,    \* Conn -> whether its wsReader is running
  posting,   \* Conn -> frame whose callback its reader is posting
  alive,     \* connections over which both peers still reach each other
  down,      \* Conn -> messages on the way to the daemon
  up,        \* Conn -> parts of answers on the way to the gateway
  called,    \* Message -> parts its callback has received
  listening, \* connection the daemon's connectAndListen has
  conn,      \* KakaoChannel.conn
  inbox,     \* Message -> where the daemon is with it
  parts,     \* Message -> number of chunks of its answer, 0 for an empty one
  next,      \* Message -> chunk to send next
  delivered, \* messages whose answer was written, as the ledger says
  broken,    \* history, connections that something went wrong with
  sentOn,    \* history, Message -> connections its answer was written to
  failed,    \* history, messages hit by a failed statement or post, or swept
  mishaps    \* how much has gone wrong

sessions == <<session, handler, displaced, done>>
pumps == <<queue, writer, reader, posting>>
wires == <<alive, down, up>>
daemon == <<listening, conn>>
turns == <<inbox, parts, next, delivered>>
history == <<broken, sentOn, failed, mishaps>>
vars == <<hook, route, pending, sessions, pumps, wires, called, daemon, turns,
          history>>

Init ==
  /\ hook = [m \in Message |-> "none"]
  /\ route = [m \in Message |-> NoConn]
  /\ pending = {}
  /\ session = NoConn
  /\ handler = [c \in Conn |-> "none"]
  /\ displaced = [c \in Conn |-> NoConn]
  /\ done = {}
  /\ queue = [c \in Conn |-> <<>>]
  /\ writer = [c \in Conn |-> "none"]
  /\ reader = [c \in Conn |-> "none"]
  /\ posting = [c \in Conn |-> NoFrame]
  /\ alive = {}
  /\ down = [c \in Conn |-> <<>>]
  /\ up = [c \in Conn |-> <<>>]
  /\ called = [m \in Message |-> <<>>]
  /\ listening = NoConn
  /\ conn = NoConn
  /\ inbox = [m \in Message |-> "none"]
  /\ parts = [m \in Message |-> 0]
  /\ next = [m \in Message |-> 1]
  /\ delivered = {}
  /\ broken = {}
  /\ sentOn = [m \in Message |-> {}]
  /\ failed = {}
  /\ mishaps = 0

Mishap == mishaps < MaxMishap /\ mishaps' = mishaps + 1

-----------------------------------------------------------------------------
(* handleWebhook.                                                          *)

(* Killswitch, limits, pairing and the form of the request are checked     *)
(* first; each refusal is a text, and changes nothing here.                *)
Refuse(m) ==
  /\ hook[m] = "none"
  /\ hook' = [hook EXCEPT ![m] = "refused"]
  /\ UNCHANGED <<route, pending, sessions, pumps, wires, called, daemon, turns,
                 history>>

FindSession(m) ==
  /\ hook[m] = "none"
  /\ route' = [route EXCEPT ![m] = session]
  /\ hook' = [hook EXCEPT ![m] = IF session = NoConn THEN "offline" ELSE "storing"]
  /\ UNCHANGED <<pending, sessions, pumps, wires, called, daemon, turns, history>>

PutPending(m) ==
  /\ hook[m] = "storing"
  /\ \/ /\ pending' = pending \cup {m}
        /\ hook' = [hook EXCEPT ![m] = "sending"]
        /\ UNCHANGED mishaps
     \/ /\ Mishap
        /\ hook' = [hook EXCEPT ![m] = "error"]
        /\ UNCHANGED pending
  /\ UNCHANGED <<route, sessions, pumps, wires, called, daemon, turns, broken,
                 sentOn, failed>>

(* Mutant: a frame more than the channel holds is taken.                   *)
TakesOneMore(c) == c \notin done /\ Len(queue[c]) <= Buffer

(* wsSession.Send never waits: it fails on a closed session or a full one. *)
Takes(c) == c \notin done /\ Len(queue[c]) < Buffer

(* Mutant: Send does not report a full or closed session.                  *)
SendFrameUnchecked(m) ==
  LET c == route[m]
  IN /\ hook[m] = "sending"
     /\ queue' = IF Takes(c) THEN [queue EXCEPT ![c] = Append(@, m)] ELSE queue
     /\ hook' = [hook EXCEPT ![m] = "processing"]
     /\ UNCHANGED <<route, pending, sessions, writer, reader, posting, wires,
                    called, daemon, turns, history>>

(* The user is told that the message is being processed (AsyncAck), or     *)
(* that the daemon is offline; then the row stays behind.                  *)
SendFrame(m) ==
  LET c == route[m]
  IN /\ hook[m] = "sending"
     /\ queue' = IF Takes(c) THEN [queue EXCEPT ![c] = Append(@, m)] ELSE queue
     /\ hook' = [hook EXCEPT ![m] = IF Takes(c) THEN "processing" ELSE "offline"]
     /\ UNCHANGED <<route, pending, sessions, writer, reader, posting, wires,
                    called, daemon, turns, history>>

(* StartPendingSweeper deletes rows that are too old, of messages that are *)
(* still worked on too: that is counted as a mishap.                       *)
Sweep(m) ==
  /\ m \in pending
  /\ IF hook[m] \in {"offline", "cut"} THEN UNCHANGED <<failed, mishaps>>
     ELSE Mishap /\ failed' = failed \cup {m}
  /\ pending' = pending \ {m}
  /\ UNCHANGED <<hook, route, sessions, pumps, wires, called, daemon, turns,
                 broken, sentOn>>

-----------------------------------------------------------------------------
(* handleWS and its two goroutines.                                        *)

(* setSession.                                                             *)
Join(c) ==
  /\ handler[c] = "accepted"
  /\ session' = c
  /\ displaced' = [displaced EXCEPT ![c] = session]
  /\ handler' = [handler EXCEPT ![c] = "joined"]
  /\ UNCHANGED <<hook, route, pending, done, pumps, wires, called, daemon, turns,
                 history>>

(* Mutant: the session that was there is not closed.                       *)
OpenBeside(c) ==
  /\ handler[c] = "joined"
  /\ handler' = [handler EXCEPT ![c] = "open"]
  /\ writer' = [writer EXCEPT ![c] = "running"]
  /\ reader' = [reader EXCEPT ![c] = "running"]
  /\ UNCHANGED <<hook, route, pending, session, displaced, done, queue, posting,
                 wires, called, daemon, turns, history>>

(* old.Close, outside the lock; then the goroutines start.                 *)
Open(c) ==
  /\ handler[c] = "joined"
  /\ done' = done \cup ({displaced[c]} \ {NoConn})
  /\ handler' = [handler EXCEPT ![c] = "open"]
  /\ writer' = [writer EXCEPT ![c] = "running"]
  /\ reader' = [reader EXCEPT ![c] = "running"]
  /\ UNCHANGED <<hook, route, pending, session, displaced, queue, posting, wires,
                 called, daemon, turns, history>>

(* The first of the goroutines to end wakes the handler, which closes the  *)
(* session and the connection.                                             *)
Close(c) ==
  /\ handler[c] = "open"
  /\ "ended" \in {writer[c], reader[c]}
  /\ handler' = [handler EXCEPT ![c] = "closing"]
  /\ done' = done \cup {c}
  /\ alive' = alive \ {c}
  /\ UNCHANGED <<hook, route, pending, session, displaced, pumps, down, up,
                 called, daemon, turns, history>>

(* Mutant: whatever session is there is removed.                           *)
RemoveAnySession(c) ==
  /\ handler[c] = "closing"
  /\ handler' = [handler EXCEPT ![c] = "gone"]
  /\ session' = NoConn
  /\ UNCHANGED <<hook, route, pending, displaced, done, pumps, wires, called,
                 daemon, turns, history>>

(* removeSession, by the session that is still there only.                 *)
RemoveSession(c) ==
  /\ handler[c] = "closing"
  /\ handler' = [handler EXCEPT ![c] = "gone"]
  /\ session' = IF session = c THEN NoConn ELSE session
  /\ UNCHANGED <<hook, route, pending, displaced, done, pumps, wires, called,
                 daemon, turns, history>>

Write(c) ==
  /\ writer[c] = "running" /\ queue[c] # <<>>
  /\ queue' = [queue EXCEPT ![c] = Tail(@)]
  /\ \/ /\ c \in alive
        /\ down' = [down EXCEPT ![c] = Append(@, Head(queue[c]))]
        /\ UNCHANGED writer
     \/ /\ c \notin alive
        /\ writer' \in {writer, [writer EXCEPT ![c] = "ended"]}
        /\ UNCHANGED down
  /\ UNCHANGED <<hook, route, pending, sessions, reader, posting, alive, up,
                 called, daemon, turns, history>>

(* The session was closed, or a ping or a write failed; the frames still   *)
(* in the channel are lost.                                                *)
WriterEnds(c) ==
  /\ writer[c] = "running"
  /\ c \in done \/ c \notin alive
  /\ writer' = [writer EXCEPT ![c] = "ended"]
  /\ UNCHANGED <<hook, route, pending, sessions, queue, reader, posting, wires,
                 called, daemon, turns, history>>

(* Mutant: the row stays until the sweeper deletes it.                     *)
ReadPending(c) ==
  LET f == Head(up[c]) IN
  /\ reader[c] = "running" /\ posting[c] = NoFrame /\ up[c] # <<>>
  /\ handler[c] = "open"
  /\ up' = [up EXCEPT ![c] = Tail(@)]
  /\ posting' = IF f.message \in pending THEN [posting EXCEPT ![c] = f]
                ELSE posting
  /\ UNCHANGED <<hook, route, pending, sessions, queue, writer, reader, alive,
                 down, called, daemon, turns, history>>

(* dispatchCallback, TakePending: the row is read and deleted in one       *)
(* transaction.  A frame without a row is dropped.                         *)
TakePending(c) ==
  LET f == Head(up[c]) IN
  /\ reader[c] = "running" /\ posting[c] = NoFrame /\ up[c] # <<>>
  /\ handler[c] = "open"
  /\ up' = [up EXCEPT ![c] = Tail(@)]
  /\ \/ /\ pending' = pending \ {f.message}
        /\ posting' = IF f.message \in pending THEN [posting EXCEPT ![c] = f]
                      ELSE posting
        /\ UNCHANGED <<failed, mishaps>>
     \/ /\ Mishap
        /\ failed' = failed \cup {f.message}
        /\ UNCHANGED <<pending, posting>>
  /\ UNCHANGED <<hook, route, sessions, queue, writer, reader, alive, down,
                 called, daemon, turns, broken, sentOn>>

(* dispatchCallback, the request to the callback: tried once.              *)
Post(c) ==
  LET f == posting[c] IN
  /\ f # NoFrame
  /\ \/ /\ called' = [called EXCEPT ![f.message] = Append(@, f.part)]
        /\ UNCHANGED <<failed, mishaps>>
     \/ /\ Mishap
        /\ failed' = failed \cup {f.message}
        /\ UNCHANGED called
  /\ posting' = [posting EXCEPT ![c] = NoFrame]
  /\ UNCHANGED <<hook, route, pending, sessions, queue, writer, reader, wires,
                 daemon, turns, broken, sentOn>>

ReaderEnds(c) ==
  /\ reader[c] = "running" /\ posting[c] = NoFrame
  /\ c \notin alive
  /\ reader' = [reader EXCEPT ![c] = "ended"]
  /\ UNCHANGED <<hook, route, pending, sessions, queue, writer, posting, wires,
                 called, daemon, turns, history>>

-----------------------------------------------------------------------------
(* KakaoChannel.connectAndListen.                                          *)

(* Connections not used yet are interchangeable, so any of them will do.   *)
Dial(c) ==
  /\ listening = NoConn
  /\ handler[c] = "none"
  /\ c = CHOOSE d \in Conn : handler[d] = "none"
  /\ listening' = c
  /\ alive' = alive \cup {c}
  /\ handler' = [handler EXCEPT ![c] = "accepted"]
  /\ UNCHANGED <<hook, route, pending, session, displaced, done, pumps, down, up,
                 called, conn, turns, history>>

Connected ==
  /\ listening # NoConn /\ conn # listening
  /\ conn' = listening
  /\ UNCHANGED <<hook, route, pending, sessions, pumps, wires, called, listening,
                 turns, history>>

(* PublishEvent stores a message once (EnqueueInboundEvent).  When that    *)
(* fails connectAndListen returns, closing the connection and leaving it   *)
(* in KakaoChannel.conn.                                                   *)
Publish ==
  LET c == listening
      m == Head(down[c])
  IN /\ c # NoConn /\ conn = c /\ down[c] # <<>>
     /\ down' = [down EXCEPT ![c] = Tail(@)]
     /\ \/ /\ inbox' = [inbox EXCEPT ![m] = IF @ = "none" THEN "stored" ELSE @]
           /\ UNCHANGED <<listening, alive, broken, mishaps>>
        \/ /\ Mishap
           /\ listening' = NoConn
           /\ alive' = alive \ {c}
           /\ broken' = broken \cup {c}
           /\ UNCHANGED inbox
     /\ UNCHANGED <<hook, route, pending, sessions, pumps, up, called, conn,
                    parts, next, delivered, sentOn, failed>>

ReadFails ==
  /\ listening # NoConn /\ conn = listening /\ listening \notin alive
  /\ listening' = NoConn
  /\ conn' = NoConn
  /\ UNCHANGED <<hook, route, pending, sessions, pumps, wires, called, turns,
                 history>>

-----------------------------------------------------------------------------
(* The daemon's turns (processChannelEvent); ChannelTurns has the queues   *)
(* and workers around it.                                                  *)

(* The messages of a user go to one worker.  An empty answer is not sent.   *)
(* No answer at all ends like an empty one: the dispatch loop fails or      *)
(* completes a message with a bad payload, of an unknown account or of a    *)
(* user the account does not know, and an answer for a channel that is not  *)
(* running is given up (dispatchLoop, processChannelEvent).                 *)
RunTurn(m) ==
  /\ inbox[m] = "stored"
  /\ \A n \in Message : inbox[n] \notin {"sending", "sent"}
  /\ \E k \in 0 .. MaxParts :
       /\ parts' = [parts EXCEPT ![m] = k]
       /\ inbox' = [inbox EXCEPT ![m] = IF k = 0 THEN "sent" ELSE "sending"]
  /\ next' = [next EXCEPT ![m] = 1]
  /\ UNCHANGED <<hook, route, pending, sessions, pumps, wires, called, daemon,
                 delivered, history>>

(* sendChannelResponse: one frame for each chunk.  A write to a connection *)
(* that broke may seem to succeed.                                         *)
SendPart(m) ==
  /\ inbox[m] = "sending"
  /\ conn # NoConn /\ conn = listening
  /\ up' = IF conn \in alive
           THEN [up EXCEPT ![conn] = Append(@, [message |-> m, part |-> next[m]])]
           ELSE up
  /\ sentOn' = [sentOn EXCEPT ![m] = @ \cup {conn}]
  /\ IF next[m] = parts[m]
     THEN /\ inbox' = [inbox EXCEPT ![m] = "sent"]
          /\ delivered' = delivered \cup {m}
          /\ UNCHANGED next
     ELSE /\ next' = [next EXCEPT ![m] = @ + 1]
          /\ UNCHANGED <<inbox, delivered>>
  /\ UNCHANGED <<hook, route, pending, sessions, pumps, alive, down, called,
                 daemon, parts, broken, failed, mishaps>>

(* sendReply has no connection or its write fails: answers to KakaoTalk    *)
(* are not stored for a retry.                                             *)
SendFails(m) ==
  /\ inbox[m] = "sending"
  /\ conn = NoConn \/ conn # listening \/ conn \notin alive
  /\ inbox' = [inbox EXCEPT ![m] = "sent"]
  /\ UNCHANGED <<hook, route, pending, sessions, pumps, wires, called, daemon,
                 parts, next, delivered, history>>

(* completeDurableInboundEvent.                                            *)
Complete(m) ==
  /\ inbox[m] = "sent"
  /\ inbox' = [inbox EXCEPT ![m] = "done"]
  /\ UNCHANGED <<hook, route, pending, sessions, pumps, wires, called, daemon,
                 parts, next, delivered, history>>

-----------------------------------------------------------------------------
(* What goes wrong.                                                        *)

Disconnect(c) ==
  /\ Mishap
  /\ c \in alive
  /\ alive' = alive \ {c}
  /\ broken' = broken \cup {c}
  /\ UNCHANGED <<hook, route, pending, sessions, pumps, down, up, called, daemon,
                 turns, sentOn, failed>>

(* The gateway keeps its database only.                                    *)
GatewayRestarts ==
  LET open == {c \in Conn : handler[c] \notin {"none", "gone"}} IN
  /\ Mishap
  /\ open # {}
  /\ hook' = [m \in Message |->
       IF hook[m] \in {"storing", "sending"} THEN "cut" ELSE hook[m]]
  /\ session' = NoConn
  /\ handler' = [c \in Conn |-> IF c \in open THEN "gone" ELSE handler[c]]
  /\ done' = done \cup open
  /\ writer' = [c \in Conn |-> IF c \in open THEN "ended" ELSE writer[c]]
  /\ reader' = [c \in Conn |-> IF c \in open THEN "ended" ELSE reader[c]]
  /\ posting' = [c \in Conn |-> NoFrame]
  /\ failed' = failed \cup {posting[c].message :
                              c \in {d \in Conn : posting[d] # NoFrame}}
  /\ alive' = alive \ open
  /\ broken' = broken \cup open
  /\ UNCHANGED <<route, pending, displaced, queue, down, up, called, daemon,
                 turns, sentOn>>

(* The daemon keeps its database: a message whose row is not complete is   *)
(* claimed again when its lease is over (ClaimInboundEvents).              *)
DaemonRestarts ==
  /\ Mishap
  /\ listening # NoConn
  /\ listening' = NoConn
  /\ conn' = NoConn
  /\ alive' = alive \ {listening}
  /\ broken' = broken \cup {listening}
  /\ inbox' = [m \in Message |->
       IF inbox[m] \in {"sending", "sent"} THEN "stored" ELSE inbox[m]]
  /\ UNCHANGED <<hook, route, pending, sessions, pumps, down, up, called, parts,
                 next, delivered, sentOn, failed>>

-----------------------------------------------------------------------------
Webhook(m) ==
  \/ Refuse(m) \/ FindSession(m) \/ PutPending(m) \/ SendFrame(m)

Socket(c) ==
  \/ Join(c) \/ Open(c) \/ Close(c) \/ RemoveSession(c)
  \/ Write(c) \/ WriterEnds(c)
  \/ TakePending(c) \/ Post(c) \/ ReaderEnds(c)

Turn(m) == RunTurn(m) \/ SendPart(m) \/ SendFails(m) \/ Complete(m)

Next ==
  \/ \E m \in Message : Webhook(m) \/ Sweep(m) \/ Turn(m)
  \/ \E c \in Conn : Socket(c) \/ Dial(c) \/ Disconnect(c)
  \/ Connected \/ Publish \/ ReadFails
  \/ GatewayRestarts \/ DaemonRestarts

Spec == Init /\ [][Next]_vars

(* Handlers and goroutines go on, the channel connects again, and a peer   *)
(* notices in the end that its connection broke (pings, keepalive).        *)
Fairness ==
  /\ \A c \in Conn : WF_vars(Socket(c))
  /\ WF_vars(\E c \in Conn : Dial(c))
  /\ WF_vars(Connected)
  /\ WF_vars(ReadFails)

FairSpec == Spec /\ Fairness

-----------------------------------------------------------------------------
TypeOK ==
  /\ hook \in [Message -> {"none", "refused", "storing", "sending",
                           "processing", "offline", "error", "cut"}]
  /\ route \in [Message -> Conn \cup {NoConn}]
  /\ pending \subseteq Message
  /\ session \in Conn \cup {NoConn}
  /\ handler \in [Conn -> {"none", "accepted", "joined", "open", "closing", "gone"}]
  /\ displaced \in [Conn -> Conn \cup {NoConn}]
  /\ done \subseteq Conn /\ alive \subseteq Conn /\ broken \subseteq Conn
  /\ queue \in [Conn -> Seq(Message)] /\ \A c \in Conn : Len(queue[c]) <= Buffer
  /\ down \in [Conn -> Seq(Message)] /\ up \in [Conn -> Seq(Frame)]
  /\ writer \in [Conn -> {"none", "running", "ended"}]
  /\ reader \in [Conn -> {"none", "running", "ended"}]
  /\ posting \in [Conn -> Frame \cup {NoFrame}]
  /\ called \in [Message -> Seq(Part)]
  /\ {listening, conn} \subseteq Conn \cup {NoConn}
  /\ inbox \in [Message -> {"none", "stored", "sending", "sent", "done"}]
  /\ parts \in [Message -> 0 .. MaxParts] /\ next \in [Message -> Part]
  /\ delivered \subseteq Message /\ failed \subseteq Message
  /\ sentOn \in [Message -> SUBSET Conn]
  /\ mishaps \in 0 .. MaxMishap

(* A callback is used once, whatever is sent again by turns that are run   *)
(* again, over whichever connections and gateways (TakePending).           *)
CallbackOnce == \A m \in Message : Len(called[m]) <= 1

(* What a connection c carried may be lost: it broke, or its session was   *)
(* displaced by one that had broken before its handler came to setSession. *)
Unreliable(c) == c \in broken \/ \E d \in broken : displaced[d] = c

(* A message on its way to the daemon.                                     *)
Outbound(m) ==
  \E c \in Conn :
    \/ Contains(queue[c], m) /\ writer[c] # "ended"
    \/ Contains(down[c], m) /\ listening = c

(* An answer on its way to the callback.                                   *)
Inbound(m) ==
  \E c \in Conn :
    \/ posting[c] # NoFrame /\ posting[c].message = m
    \/ /\ \E f \in ToSet(up[c]) : f.message = m
       /\ reader[c] # "ended" /\ handler[c] \in {"accepted", "joined", "open"}

(* An answer was written to such a connection, or to none because the      *)
(* channel had just lost its connection.                                   *)
Unanswerable(m) ==
  \/ \E c \in sentOn[m] : Unreliable(c)
  \/ sentOn[m] = {} /\ broken # {}

(* A user who was told that a message is being processed is answered,      *)
(* unless the answer is empty or the daemon gave none (RunTurn), the        *)
(* connection that carried the message or one that should have carried the  *)
(* answer broke, or a statement or the post of the answer failed            *)
(* (handleWebhook, handleWS, dispatchCallback, sendReply).                  *)
SilenceIsExplained ==
  \A m \in Message :
    hook[m] = "processing" /\ called[m] = <<>> =>
      \/ m \in failed
      \/ inbox[m] = "none" /\ (Outbound(m) \/ Unreliable(route[m]))
      \/ inbox[m] \in {"stored", "sending"}
      \/ inbox[m] \in {"sent", "done"} /\ (Inbound(m) \/ Unanswerable(m))
      \/ inbox[m] \in {"sent", "done"} /\ parts[m] = 0

(* An open session that webhooks do not find is being closed: a connection *)
(* never stays open beside the one in the map, where the daemon would wait *)
(* on it for ever (setSession, removeSession).                             *)
NoStraySession ==
  \A c \in Conn :
    handler[c] = "open" /\ c \notin done =>
      \/ session = c
      \/ \E d \in Conn : handler[d] = "joined" /\ displaced[d] = c

(* When nothing goes wrong any more, webhooks find the session of the      *)
(* connection the daemon answers on.                                       *)
DaemonIsReachable ==
  <>[](session # NoConn /\ session = conn /\ session \notin done)

(* An answer that the daemon counts as delivered reaches the user as a     *)
(* whole, if nothing goes wrong (sendChannelResponse, dispatchCallback).   *)
WholeAnswerArrives ==
  \A m \in Message :
    m \in delivered /\ mishaps = 0 /\ ~Inbound(m) => Len(called[m]) = parts[m]
=============================================================================
