------------------------------ MODULE RelayBroker ------------------------------
(***************************************************************************)
(* The relay broker for one paired device (apps/space/internal/broker,     *)
(* which apps/chat/internal/broker duplicates), with the goroutines around *)
(* it: the websocket handler of each device connection (daemonws), the     *)
(* HTTP handler of each relayed request (openai) and the watcher goroutine *)
(* the broker starts for it, and the daemon that answers                   *)
(* (apps/kittypaw/remote/chatrelay).                                       *)
(*                                                                         *)
(* The broker's mutex covers only the tables.  Every send to a stream and  *)
(* every close of one happens after the unlock, so a step here is either   *)
(* one critical section, one channel operation or one frame on the wire.   *)
(* A stream is a buffered Go channel: a send blocks when it is full, and a *)
(* send to a closed channel or a second close panics.                      *)
(*                                                                         *)
(* Frames are "more" (response headers and chunks) or "last" (response end *)
(* and error frames, the daemon's or the broker's own).                    *)
(***************************************************************************)
EXTENDS Naturals, Sequences, FiniteSets

CONSTANTS
  Conn,         \* connections of the device, each used once
  Req,          \* relayed requests, each issued once (ids are uuids)
  NoConn,       \* the device has no connection
  NoReq,        \* no request
  MaxInflight,  \* Config.MaxInflightPerDevice
  Buffer,       \* capacity of a stream, 16 in the code
  MaxMore       \* most "more" frames the daemon writes for one request

ASSUME ConnAssumption == NoConn \notin Conn
ASSUME ReqAssumption == IsFiniteSet(Req) /\ NoReq \notin Req
ASSUME SizeAssumption ==
  MaxInflight \in Nat \ {0} /\ Buffer \in Nat \ {0} /\ MaxMore \in Nat

(* The goroutines that end streams.                                        *)
Link(c) == <<"link", c>>            \* websocket handler of a connection
Caller(q) == <<"caller", q>>        \* HTTP handler of a request
Watcher(q) == <<"watcher", q>>      \* context and timeout watcher of a request
Ender == {Link(c) : c \in Conn} \cup {Caller(q) : q \in Req}
           \cup {Watcher(q) : q \in Req}

VARIABLES
  device,    \* conn of the device's state, NoConn if there is no state
  pending,   \* requests in the pending map of that state
  link,      \* Conn -> where its websocket handler is
  relaying,  \* Conn -> request whose stream Deliver has looked up, or NoReq
  caller,    \* Req -> where its HTTP handler is
  via,       \* Req -> connection it was sent on, NoConn before
  watcher,   \* Req -> where its watcher is
  stream,    \* Req -> frames buffered in its stream
  closed,    \* requests whose stream is closed
  ending,    \* Ender -> requests it has taken out of a pending map, to end
  written,   \* Ender -> those of them whose last frame it has sent
  spoken,    \* Req -> "more" frames the daemon has written
  finished,  \* requests the daemon has written a last frame for
  broken,    \* history, enders that panicked
  replaced   \* history, connections that lost the device to a later one

broker == <<device, pending>>
streams == <<stream, closed, broken>>
tasks == <<ending, written>>
daemon == <<spoken, finished>>
vars == <<broker, link, relaying, caller, via, watcher, streams, tasks, daemon,
          replaced>>

TypeOK ==
  /\ device \in Conn \cup {NoConn}
  /\ pending \in SUBSET Req
  /\ link \in [Conn -> {"new", "registering", "reading", "leaving",
                        "unregistering", "gone"}]
  /\ relaying \in [Conn -> Req \cup {NoReq}]
  /\ caller \in [Req -> {"idle", "refused", "sending", "failing", "reading",
                         "answered", "cut", "left"}]
  /\ via \in [Req -> Conn \cup {NoConn}]
  /\ watcher \in [Req -> {"none", "waiting", "fired"}]
  /\ stream \in [Req -> Seq({"more", "last"})]
  /\ closed \in SUBSET Req
  /\ ending \in [Ender -> SUBSET Req]
  /\ written \in [Ender -> SUBSET Req]
  /\ \A e \in Ender : written[e] \subseteq ending[e]
  /\ spoken \in [Req -> 0 .. MaxMore]
  /\ finished \in SUBSET Req
  /\ broken \in SUBSET Ender
  /\ replaced \in SUBSET Conn

Init ==
  /\ device = NoConn
  /\ pending = {}
  /\ link = [c \in Conn |-> "new"]
  /\ relaying = [c \in Conn |-> NoReq]
  /\ caller = [q \in Req |-> "idle"]
  /\ via = [q \in Req |-> NoConn]
  /\ watcher = [q \in Req |-> "none"]
  /\ stream = [q \in Req |-> <<>>]
  /\ closed = {}
  /\ ending = [e \in Ender |-> {}]
  /\ written = [e \in Ender |-> {}]
  /\ spoken = [q \in Req |-> 0]
  /\ finished = {}
  /\ broken = {}
  /\ replaced = {}

Idle(e) == ending[e] = {}

-----------------------------------------------------------------------------
(* Ending a stream: the tail of finish, and the loops of Register and      *)
(* Unregister over the pending map they have detached.                     *)

(* Mutant: the pending entry survives finish.                              *)
TakeKeepingEntry(e, q) ==
  IF q \in pending
    THEN /\ ending' = [ending EXCEPT ![e] = @ \cup {q}]
         /\ UNCHANGED pending
    ELSE UNCHANGED <<ending, pending>>

(* The critical section of finish: the entry of q leaves the pending map   *)
(* and whoever removed it has the stream to end.  Nothing happens when the *)
(* entry is gone, or the device has another state by now.                  *)
Take(e, q) ==
  IF q \in pending
    THEN /\ ending' = [ending EXCEPT ![e] = @ \cup {q}]
         /\ pending' = pending \ {q}
    ELSE UNCHANGED <<ending, pending>>

(* Mutant: the stream is closed without a last frame.                      *)
SendNothing(e, q) ==
  /\ q \in ending[e] /\ written[e] = {}
  /\ written' = [written EXCEPT ![e] = {q}]
  /\ UNCHANGED <<broker, link, relaying, caller, via, watcher, streams, ending,
                 daemon, replaced>>

(* The last frame, sent outside the lock: blocks while the stream is full, *)
(* panics if it is closed.                                                 *)
SendLast(e, q) ==
  /\ q \in ending[e] /\ written[e] = {}
  /\ \/ /\ q \notin closed /\ Len(stream[q]) < Buffer
        /\ stream' = [stream EXCEPT ![q] = Append(@, "last")]
        /\ written' = [written EXCEPT ![e] = {q}]
        /\ UNCHANGED <<broken, ending>>
     \/ /\ q \in closed
        /\ broken' = broken \cup {e}
        /\ ending' = [ending EXCEPT ![e] = {}]
        /\ UNCHANGED <<stream, written>>
  /\ UNCHANGED <<broker, link, relaying, caller, via, watcher, closed, daemon,
                 replaced>>

(* close(ch): panics if another goroutine closed the stream.               *)
CloseStream(e, q) ==
  /\ q \in written[e]
  /\ broken' = IF q \in closed THEN broken \cup {e} ELSE broken
  /\ closed' = closed \cup {q}
  /\ ending' = [ending EXCEPT ![e] = @ \ {q}]
  /\ written' = [written EXCEPT ![e] = {}]
  /\ UNCHANGED <<broker, link, relaying, caller, via, watcher, stream, daemon,
                 replaced>>

-----------------------------------------------------------------------------
(* A device connection.                                                    *)

(* Mutant: the requests of the replaced connection are left to their       *)
(* watchers, which no longer find them.                                    *)
RegisterForgetsPending(c) ==
  /\ link[c] = "new"
  /\ replaced' = IF device = NoConn THEN replaced ELSE replaced \cup {device}
  /\ device' = c
  /\ pending' = {}
  /\ link' = [link EXCEPT ![c] = "registering"]
  /\ UNCHANGED <<relaying, caller, via, watcher, streams, tasks, daemon>>

(* Register swaps in a new state.  The pending map of the state it          *)
(* replaces is now its own: it ends every stream in it, "replaced".        *)
Register(c) ==
  /\ link[c] = "new"
  /\ replaced' = IF device = NoConn THEN replaced ELSE replaced \cup {device}
  /\ device' = c
  /\ pending' = {}
  /\ ending' = [ending EXCEPT ![Link(c)] = pending]
  /\ link' = [link EXCEPT ![c] = "registering"]
  /\ UNCHANGED <<relaying, caller, via, watcher, streams, written, daemon>>

(* Register returns and the read loop starts.                              *)
Registered(c) ==
  /\ link[c] = "registering" /\ Idle(Link(c))
  /\ link' = [link EXCEPT ![c] = "reading"]
  /\ UNCHANGED <<broker, relaying, caller, via, watcher, streams, tasks, daemon,
                 replaced>>

(* The context of the connection's HTTP request is done by then: Register  *)
(* returns its error and the handler ends before it defers its Unregister. *)
(* The device keeps the dead connection until the next one registers.      *)
RegisterFails(c) ==
  /\ link[c] = "registering" /\ Idle(Link(c))
  /\ link' = [link EXCEPT ![c] = "gone"]
  /\ UNCHANGED <<broker, relaying, caller, via, watcher, streams, tasks, daemon,
                 replaced>>

(* The read loop is between two frames.                                    *)
Reading(c) == link[c] = "reading" /\ relaying[c] = NoReq /\ Idle(Link(c))

(* The daemon's frames for q can still arrive on c.                        *)
Answering(c, q) == Reading(c) /\ via[q] = c /\ q \notin finished

(* Deliver, response headers or a chunk: the stream is looked up under the *)
(* lock.                                                                   *)
DeliverMore(c, q) ==
  /\ Answering(c, q) /\ spoken[q] < MaxMore
  /\ spoken' = [spoken EXCEPT ![q] = @ + 1]
  /\ relaying' = [relaying EXCEPT ![c] = IF q \in pending THEN q ELSE NoReq]
  /\ UNCHANGED <<broker, link, caller, via, watcher, streams, tasks, finished,
                 replaced>>

(* Its send, after the unlock: blocks while the stream is full.  If the    *)
(* stream was closed in between the send panics; net/http confines the     *)
(* panic to this handler, which ends with its deferred Unregister.         *)
RelayMore(c) ==
  LET q == relaying[c] IN
  /\ q # NoReq
  /\ \/ /\ q \notin closed /\ Len(stream[q]) < Buffer
        /\ stream' = [stream EXCEPT ![q] = Append(@, "more")]
        /\ UNCHANGED link
     \/ /\ q \in closed
        /\ link' = [link EXCEPT ![c] = "leaving"]
        /\ UNCHANGED stream
  /\ relaying' = [relaying EXCEPT ![c] = NoReq]
  /\ UNCHANGED <<broker, caller, via, watcher, closed, broken, tasks, daemon,
                 replaced>>

(* Deliver, response end or error.                                         *)
DeliverLast(c, q) ==
  /\ Answering(c, q)
  /\ Take(Link(c), q)
  /\ finished' = finished \cup {q}
  /\ UNCHANGED <<device, link, relaying, caller, via, watcher, streams, written,
                 spoken, replaced>>

(* A read error, a read timeout, a frame the loop rejects, or the Close of *)
(* a Register that replaced c.                                             *)
Disconnect(c) ==
  /\ Reading(c)
  /\ link' = [link EXCEPT ![c] = "leaving"]
  /\ UNCHANGED <<broker, relaying, caller, via, watcher, streams, tasks, daemon,
                 replaced>>

(* Mutant: the state is removed whatever connection it belongs to.         *)
UnregisterAnyone(c) ==
  /\ link[c] = "leaving"
  /\ device' = NoConn
  /\ pending' = {}
  /\ ending' = [ending EXCEPT ![Link(c)] = pending]
  /\ link' = [link EXCEPT ![c] = "unregistering"]
  /\ UNCHANGED <<relaying, caller, via, watcher, streams, written, daemon,
                 replaced>>

(* Unregister removes the state only while it is still the one of c, and   *)
(* then ends every stream in its pending map, "offline".                   *)
Unregister(c) ==
  /\ link[c] = "leaving"
  /\ link' = [link EXCEPT ![c] = "unregistering"]
  /\ IF device = c
       THEN /\ device' = NoConn
            /\ pending' = {}
            /\ ending' = [ending EXCEPT ![Link(c)] = pending]
       ELSE UNCHANGED <<device, pending, ending>>
  /\ UNCHANGED <<relaying, caller, via, watcher, streams, written, daemon,
                 replaced>>

Unregistered(c) ==
  /\ link[c] = "unregistering" /\ Idle(Link(c))
  /\ link' = [link EXCEPT ![c] = "gone"]
  /\ UNCHANGED <<broker, relaying, caller, via, watcher, streams, tasks, daemon,
                 replaced>>

-----------------------------------------------------------------------------
(* A relayed request.                                                      *)

(* Request is refused: the device is offline, has MaxInflight requests     *)
(* pending, or does not serve the account or the operation.  The last two  *)
(* depend on data left out here, so a refusal may come at any time.        *)
Refuse(q) ==
  /\ caller[q] = "idle"
  /\ caller' = [caller EXCEPT ![q] = "refused"]
  /\ UNCHANGED <<broker, link, relaying, via, watcher, streams, tasks, daemon,
                 replaced>>

(* The critical section of Request.                                        *)
Accept(q) ==
  /\ caller[q] = "idle"
  /\ device # NoConn
  /\ Cardinality(pending) < MaxInflight
  /\ pending' = pending \cup {q}
  /\ via' = [via EXCEPT ![q] = device]
  /\ caller' = [caller EXCEPT ![q] = "sending"]
  /\ UNCHANGED <<device, link, relaying, watcher, streams, tasks, daemon,
                 replaced>>

(* conn.Send returns: the watcher starts and the stream is handed out.     *)
Sent(q) ==
  /\ caller[q] = "sending"
  /\ link[via[q]] \in {"registering", "reading"}
  /\ caller' = [caller EXCEPT ![q] = "reading"]
  /\ watcher' = [watcher EXCEPT ![q] = "waiting"]
  /\ UNCHANGED <<broker, link, relaying, via, streams, tasks, daemon, replaced>>

(* conn.Send fails: finish, "send_failed".                                 *)
SendFails(q) ==
  /\ caller[q] = "sending"
  /\ Take(Caller(q), q)
  /\ caller' = [caller EXCEPT ![q] = "failing"]
  /\ UNCHANGED <<device, link, relaying, via, watcher, streams, written, daemon,
                 replaced>>

(* Request returns the error and the handler answers 502.                  *)
RequestFails(q) ==
  /\ caller[q] = "failing" /\ Idle(Caller(q))
  /\ caller' = [caller EXCEPT ![q] = "refused"]
  /\ UNCHANGED <<broker, link, relaying, via, watcher, streams, tasks, daemon,
                 replaced>>

(* The request context is done, because the client went away or the        *)
(* handler returned, or RequestTimeout has passed: finish.                 *)
WatcherFires(q) ==
  /\ watcher[q] = "waiting"
  /\ Take(Watcher(q), q)
  /\ watcher' = [watcher EXCEPT ![q] = "fired"]
  /\ UNCHANGED <<device, link, relaying, caller, via, streams, written, daemon,
                 replaced>>

(* writeRelayStream takes a frame and writes it to the client.  It returns *)
(* at the last frame, or if the stream ends without one.                   *)
Consume(q) ==
  /\ caller[q] = "reading"
  /\ \/ /\ stream[q] # <<>>
        /\ stream' = [stream EXCEPT ![q] = Tail(@)]
        /\ caller' = IF Head(stream[q]) = "last"
                       THEN [caller EXCEPT ![q] = "answered"]
                       ELSE caller
     \/ /\ stream[q] = <<>> /\ q \in closed
        /\ caller' = [caller EXCEPT ![q] = "cut"]
        /\ UNCHANGED stream
  /\ UNCHANGED <<broker, link, relaying, via, watcher, closed, broken, tasks,
                 daemon, replaced>>

(* Writing a chunk to the client fails: the handler returns and reads the  *)
(* stream no more.                                                         *)
Abandon(q) ==
  /\ caller[q] = "reading" /\ stream[q] # <<>> /\ Head(stream[q]) = "more"
  /\ stream' = [stream EXCEPT ![q] = Tail(@)]
  /\ caller' = [caller EXCEPT ![q] = "left"]
  /\ UNCHANGED <<broker, link, relaying, via, watcher, closed, broken, tasks,
                 daemon, replaced>>

-----------------------------------------------------------------------------

LinkStep(c) ==
  \/ Register(c) \/ Registered(c) \/ RegisterFails(c) \/ RelayMore(c)
  \/ Disconnect(c) \/ Unregister(c) \/ Unregistered(c)
  \/ \E q \in Req : DeliverMore(c, q) \/ DeliverLast(c, q)

RequestStep(q) ==
  \/ Refuse(q) \/ Accept(q) \/ Sent(q) \/ SendFails(q) \/ RequestFails(q)
  \/ WatcherFires(q) \/ Consume(q) \/ Abandon(q)

EndStep(e) == \E q \in Req : SendLast(e, q) \/ CloseStream(e, q)

Next ==
  \/ \E c \in Conn : LinkStep(c)
  \/ \E q \in Req : RequestStep(q)
  \/ \E e \in Ender : EndStep(e)

Spec == Init /\ [][Next]_vars

(* A goroutine that can run does run; websocket writes and reads have      *)
(* timeouts (daemonws readTimeout, writeTimeout), so does every request.   *)
(* Nothing obliges a client to send a request, a daemon to connect or to   *)
(* answer, or a connection to break, except that a replaced connection was *)
(* closed and its read loop notices.                                       *)
Fairness ==
  /\ \A e \in Ender : WF_vars(EndStep(e))
  /\ \A c \in Conn :
       /\ WF_vars(Registered(c) \/ RegisterFails(c)) /\ WF_vars(RelayMore(c))
       /\ WF_vars(Unregister(c)) /\ WF_vars(Unregistered(c))
       /\ WF_vars(c \in replaced /\ Disconnect(c))
  /\ \A q \in Req :
       /\ WF_vars(Sent(q) \/ SendFails(q)) /\ WF_vars(RequestFails(q))
       /\ WF_vars(WatcherFires(q)) /\ WF_vars(Consume(q) \/ Abandon(q))

FairSpec == Spec /\ Fairness

-----------------------------------------------------------------------------
(* Properties.                                                             *)

(* However a response end, a send failure, a timeout, a cancelled client,  *)
(* a replaced connection and a disconnect race to end a stream, none of    *)
(* them sends to a stream that is closed or closes one twice.  A panic in  *)
(* the watcher, which is no HTTP handler, would take the relay down.       *)
EndingNeverPanics == broken = {}

(* No consumer sees its stream close without a last frame that says why.   *)
NoSilentEnd == \A q \in Req : caller[q] # "cut"

(* The last frame of q is in its stream, or will be sent by a goroutine    *)
(* that has q to end.                                                      *)
BeingEnded(q) == q \in closed \/ \E e \in Ender : q \in ending[e]

(* Every request whose caller still waits can end: a goroutine is ending   *)
(* its stream, or it is in the pending map of the device's current state,  *)
(* where the daemon, its own watcher, Register and Unregister find it.     *)
(* None is lost with the map of a connection that was replaced.            *)
EveryWaiterCanEnd ==
  \A q \in Req :
    caller[q] = "reading" =>
      BeingEnded(q) \/ (q \in pending /\ watcher[q] = "waiting")

(* Nothing but a later registration or its own disconnect takes the device *)
(* from a connection: a late Unregister of an older one does not.          *)
(* (broker_test.go, TestBrokerDuplicateConnectionClosesOldConnection)      *)
LatestConnectionServes ==
  \A c \in Conn :
    link[c] \in {"registering", "reading", "leaving"} /\ c \notin replaced
      => device = c

(* With room for every frame of an answer and one last frame, nobody ever  *)
(* finds a stream full: the read loop, which serves all requests of the    *)
(* device, is not held up by a client that stopped reading.  The daemon of *)
(* this repository writes two frames before the last, the buffer holds 16. *)
NobodyBlocks ==
  MaxMore < Buffer =>
    /\ \A e \in Ender : \A q \in ending[e] :
         written[e] = {} => Len(stream[q]) < Buffer
    /\ \A c \in Conn :
         relaying[c] # NoReq => Len(stream[relaying[c]]) < Buffer

(* A slot of the pending map is always given back, even when a client stops *)
(* reading and streams fill up.  A caller whose request was sent gets a last *)
(* frame or gives up, and a connection's handler gets through Register and  *)
(* Unregister, provided streams have room for a whole answer or every       *)
(* stream is read to its end: no client stops reading, no send fails.       *)
RelayMakesProgress ==
  /\ \A q \in Req : q \in pending ~> q \notin pending
  /\ (MaxMore < Buffer \/ [](\A q \in Req : caller[q] \notin {"left", "failing"}))
     => /\ \A q \in Req : caller[q] \in {"sending", "reading"}
                            ~> caller[q] \in {"refused", "answered", "left"}
        /\ \A c \in Conn : link[c] = "registering" ~> link[c] # "registering"
        /\ \A c \in Conn : link[c] = "unregistering" ~> link[c] = "gone"

=============================================================================
