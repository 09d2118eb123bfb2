-------------------------------- MODULE Hub --------------------------------
(***************************************************************************)
(* The WebSocket hub of presentation/socket/socket.go: one Run goroutine   *)
(* that owns the client maps, two goroutines per connection (readPump and  *)
(* writePump), and the goroutines that call Broadcast.  They meet on three *)
(* channels (register, unregister, broadcast) and on one buffered send     *)
(* channel per client.                                                     *)
(*                                                                         *)
(* One action is one step between two points where another goroutine can   *)
(* interfere.  A branch of Run's select that only touches the maps is one  *)
(* action, because every other user of the maps takes h.mu; the fan-out of *)
(* a broadcast is one action per target, because the pumps run meanwhile.  *)
(* A panic of Run is not recovered and ends the process.                   *)
(***************************************************************************)
EXTENDS Naturals, Sequences, FiniteSets

CONSTANTS
  Client,        \* WebSocket connections; each is opened at most once
  Topic,         \* topics such as "leaderboard:<id>"
  User,          \* user ids
  Payload,       \* marshalled messages; each is broadcast at most once
  Empty,         \* the empty string, and the absence of a message
  TopicGlobal,   \* the topic that stands for every client
  UserID,        \* the user id each connection came with, Empty if none
  SendCap,       \* capacity of a client's send channel (256 in the code)
  BroadcastCap   \* capacity of the hub's broadcast channel (256 in the code)

ASSUME HubAssumption ==
  /\ Empty \notin Topic \cup User \cup {TopicGlobal}
  /\ UserID \in [Client -> User \cup {Empty}]
  /\ SendCap \in Nat \ {0}
  /\ BroadcastCap \in Nat \ {0}

VARIABLES
  hub,           \* where Run is: starting, select, fanout, stopped, panicked
  fan, todo,     \* the message being fanned out, the targets not yet offered it
  clients, allClients, userClients,             \* the hub's maps
  broadcast,     \* the buffered broadcast channel
  callers,       \* broadcasts whose goroutine has not yet sent to the channel
  conn,          \* the network connection: none, open, closed
  reader,        \* where readPump is
  request,       \* the subscribe or unsubscribe readPump is handling
  writer,        \* where writePump is: none, run, done
  subscriptions, \* the topics each client believes it is subscribed to
  send, sendClosed,                             \* each client's send channel
  stop,          \* OnStop: running, cancelled, done
  asked, accepted, received,                    \* history, see Multicast
  gaveUp         \* history: the topics each client has unsubscribed from

hubVars == <<hub, fan, todo>>
mapVars == <<clients, allClients, userClients>>
queueVars == <<broadcast, callers, accepted>>
readVars == <<reader, request, subscriptions, asked, gaveUp>>
writeVars == <<writer, received>>
chanVars == <<send, sendClosed>>
vars == <<hubVars, mapVars, queueVars, readVars, writeVars, chanVars, conn, stop>>

-----------------------------------------------------------------------------
(* Messages.                                                               *)

BroadcastMessage ==
  [Topic : Topic \cup {Empty, TopicGlobal}, UserID : User \cup {Empty},
   Message : Payload]

Request == [Type : {"subscribe", "unsubscribe"}, Body : Topic]

Event(p) == [Type |-> "event", Body |-> p]

Frame == Request \cup [Type : {"event"}, Body : Payload]

\* Which of the three maps a broadcast is sent through.
Scope(m) ==
  IF m.UserID # Empty THEN "user"
  ELSE IF m.Topic \in {Empty, TopicGlobal} THEN "all"
  ELSE "topic"

\* targetClients: an alias of one of the hub's maps, not a copy.
Targets(m) ==
  IF Scope(m) = "user" THEN userClients[m.UserID]
  ELSE IF Scope(m) = "all" THEN allClients
  ELSE clients[m.Topic]

\* client.userID != "" and u is that id.
IsUser(c, u) == UserID[c] = u

Init ==
  /\ hub = "starting" /\ fan = Empty /\ todo = {}
  /\ clients = [t \in Topic |-> {}]
  /\ allClients = {}
  /\ userClients = [u \in User |-> {}]
  /\ broadcast = <<>> /\ callers = {}
  /\ conn = [c \in Client |-> "none"]
  /\ reader = [c \in Client |-> "none"]
  /\ request = [c \in Client |-> Empty]
  /\ writer = [c \in Client |-> "none"]
  /\ subscriptions = [c \in Client |-> {}]
  /\ send = [c \in Client |-> <<>>]
  /\ sendClosed = [c \in Client |-> FALSE]
  /\ stop = "running"
  /\ asked = [c \in Client |-> {}]
  /\ gaveUp = [c \in Client |-> {}]
  /\ accepted = <<>>
  /\ received = [c \in Client |-> <<>>]

-----------------------------------------------------------------------------
(* A connection: HandleWebSocket, readPump, handleMessage, sendMessage.    *)

HandleWebSocket(c) ==
  /\ conn[c] = "none"
  /\ conn' = [conn EXCEPT ![c] = "open"]
  /\ reader' = [reader EXCEPT ![c] = "receive"]
  /\ writer' = [writer EXCEPT ![c] = "run"]
  /\ UNCHANGED <<hubVars, mapVars, queueVars, request, subscriptions, asked, gaveUp,
                 received, chanVars, stop>>

\* A frame arrives, or was left in the connection's read buffer: such frames are
\* still read after the connection is closed.  Pong only renews the read deadline,
\* and every other type and the empty topic are ignored: those change nothing here.
Receive(c, r) ==
  /\ reader[c] = "receive"
  /\ request' = [request EXCEPT ![c] = r]
  /\ UNCHANGED <<hubVars, mapVars, queueVars, writeVars, chanVars, conn, stop>>

\* readPump records the topic, then blocks until the hub takes the registration.
HandleSubscribe(c, t) ==
  /\ Receive(c, [Type |-> "subscribe", Body |-> t])
  /\ subscriptions' = [subscriptions EXCEPT ![c] = @ \cup {t}]
  /\ asked' = [asked EXCEPT ![c] = @ \cup {t}]
  /\ reader' = [reader EXCEPT ![c] = "register"]
  /\ UNCHANGED gaveUp

\* Unsubscribing only edits the client's own set: the hub is not told.
HandleUnsubscribe(c, t) ==
  /\ Receive(c, [Type |-> "unsubscribe", Body |-> t])
  /\ subscriptions' = [subscriptions EXCEPT ![c] = @ \ {t}]
  /\ gaveUp' = [gaveUp EXCEPT ![c] = @ \cup ({t} \cap subscriptions[c])]
  /\ reader' = [reader EXCEPT ![c] = "confirm"]
  /\ UNCHANGED asked

ConfirmUnbounded(c) ==
  /\ reader[c] = "confirm"
  /\ reader' = [reader EXCEPT ![c] = "receive"]
  /\ send' = [send EXCEPT ![c] = Append(@, request[c])]
  /\ request' = [request EXCEPT ![c] = Empty]
  /\ UNCHANGED <<hubVars, mapVars, queueVars, writeVars, subscriptions, asked, gaveUp,
                 sendClosed, conn, stop>>

\* sendMessage: drop the confirmation when the channel is full.  A send on the
\* channel the hub has closed panics: the deferred function of readPump still
\* runs, and the HTTP server's Recover middleware swallows the panic.
SendMessage(c) ==
  /\ reader[c] = "confirm"
  /\ reader' = [reader EXCEPT ![c] = IF sendClosed[c] THEN "unregister" ELSE "receive"]
  /\ send' = IF sendClosed[c] \/ Len(send[c]) = SendCap THEN send
             ELSE [send EXCEPT ![c] = Append(@, request[c])]
  /\ request' = [request EXCEPT ![c] = Empty]
  /\ UNCHANGED <<hubVars, mapVars, queueVars, writeVars, subscriptions, asked, gaveUp,
                 sendClosed, conn, stop>>

\* Receive fails: the peer left, the read deadline passed, a frame was
\* malformed, or the connection was closed on this side.
ReadError(c) ==
  /\ reader[c] = "receive"
  /\ reader' = [reader EXCEPT ![c] = "unregister"]
  /\ UNCHANGED <<hubVars, mapVars, queueVars, request, subscriptions, asked, gaveUp,
                 writeVars, chanVars, conn, stop>>

\* The end of readPump's deferred function, after the hub took the client.
ReaderExit(c) ==
  /\ reader[c] = "exit"
  /\ reader' = [reader EXCEPT ![c] = "done"]
  /\ conn' = [conn EXCEPT ![c] = "closed"]
  /\ UNCHANGED <<hubVars, mapVars, queueVars, request, subscriptions, asked, gaveUp,
                 writeVars, chanVars, stop>>

-----------------------------------------------------------------------------
(* A connection: writePump.                                                *)

\* Pops the next frame and writes it; the peer gets it.
WriteFrame(c) ==
  /\ writer[c] = "run" /\ send[c] # <<>> /\ conn[c] = "open"
  /\ send' = [send EXCEPT ![c] = Tail(@)]
  /\ received' = IF Head(send[c]).Type # "event" THEN received
                 ELSE [received EXCEPT ![c] = Append(@, Head(send[c]).Body)]
  /\ UNCHANGED <<hubVars, mapVars, queueVars, readVars, writer, sendClosed, conn, stop>>

\* The deferred conn.Close of writePump.
WriterReturn(c) ==
  /\ writer' = [writer EXCEPT ![c] = "done"]
  /\ conn' = [conn EXCEPT ![c] = "closed"]
  /\ UNCHANGED <<hubVars, mapVars, queueVars, readVars, received, sendClosed, stop>>

\* The write fails or its deadline passes: the frame popped is lost.
WriteError(c) ==
  /\ writer[c] = "run" /\ send[c] # <<>>
  /\ send' = [send EXCEPT ![c] = Tail(@)]
  /\ WriterReturn(c)

\* The ping of the ticker cannot be written.  A ping that can changes nothing.
PingError(c) ==
  /\ writer[c] = "run"
  /\ UNCHANGED send
  /\ WriterReturn(c)

\* A closed channel yields its remaining frames first, then !ok.
WriterSeesClose(c) ==
  /\ writer[c] = "run" /\ send[c] = <<>> /\ sendClosed[c]
  /\ UNCHANGED send
  /\ WriterReturn(c)

-----------------------------------------------------------------------------
(* Callers: Broadcast, BroadcastToUser, BroadcastToAll.                    *)

Call(m) ==
  /\ \A n \in callers : n.Message # m.Message
  /\ \A i \in DOMAIN accepted : accepted[i].Message # m.Message
  /\ callers' = callers \cup {m}
  /\ UNCHANGED <<hubVars, mapVars, broadcast, accepted, readVars, writeVars,
                 chanVars, conn, stop>>

Broadcast(t, p) == Call([Topic |-> t, UserID |-> Empty, Message |-> p])
BroadcastToUser(u, p) == Call([Topic |-> Empty, UserID |-> u, Message |-> p])
BroadcastToAll(p) == Call([Topic |-> TopicGlobal, UserID |-> Empty, Message |-> p])

\* h.broadcast <- m blocks while the channel is full.
Enqueue(m) ==
  /\ m \in callers
  /\ Len(broadcast) < BroadcastCap
  /\ callers' = callers \ {m}
  /\ broadcast' = Append(broadcast, m)
  /\ accepted' = Append(accepted, m)
  /\ UNCHANGED <<hubVars, mapVars, readVars, writeVars, chanVars, conn, stop>>

-----------------------------------------------------------------------------
(* The hub goroutine.                                                      *)

RunStart ==
  /\ hub = "starting"
  /\ hub' = "select"
  /\ UNCHANGED <<fan, todo, mapVars, queueVars, readVars, writeVars, chanVars, conn, stop>>

AddToMapsForgettingUser(c, t) ==
  /\ clients' = [clients EXCEPT ![t] = @ \cup {c}]
  /\ allClients' = allClients \cup {c}
  /\ UNCHANGED userClients

AddToMapsForgettingTopic(c, t) ==
  /\ allClients' = allClients \cup {c}
  /\ userClients' = [u \in User |-> IF IsUser(c, u) THEN userClients[u] \cup {c} ELSE userClients[u]]
  /\ UNCHANGED clients

\* The client joins the map of the topic, of all clients, and of its user.
AddToMaps(c, t) ==
  /\ clients' = [clients EXCEPT ![t] = @ \cup {c}]
  /\ allClients' = allClients \cup {c}
  /\ userClients' = [u \in User |-> IF IsUser(c, u) THEN userClients[u] \cup {c} ELSE userClients[u]]

\* case registration := <-h.register
Register(c) ==
  /\ hub = "select" /\ reader[c] = "register"
  /\ AddToMaps(c, request[c].Body)
  /\ reader' = [reader EXCEPT ![c] = "confirm"]
  /\ UNCHANGED <<hubVars, queueVars, request, subscriptions, asked, gaveUp, writeVars,
                 chanVars, conn, stop>>

RemoveFromMapsKeepingTopics(c) ==
  /\ allClients' = allClients \ {c}
  /\ userClients' = [u \in User |-> userClients[u] \ {c}]
  /\ UNCHANGED clients

\* The client leaves all clients, its user, and the topics it is subscribed to
\* now: a topic it has unsubscribed from still holds it.
RemoveFromMaps(c) ==
  /\ allClients' = allClients \ {c}
  /\ userClients' = [u \in User |-> userClients[u] \ {c}]
  /\ clients' = [t \in Topic |-> IF t \in subscriptions[c] THEN clients[t] \ {c} ELSE clients[t]]

\* case client := <-h.unregister: closing a closed channel panics.
Unregister(c) ==
  /\ hub = "select" /\ reader[c] = "unregister"
  /\ RemoveFromMaps(c)
  /\ IF sendClosed[c]
     THEN hub' = "panicked" /\ UNCHANGED <<sendClosed, reader>>
     ELSE /\ sendClosed' = [sendClosed EXCEPT ![c] = TRUE]
          /\ reader' = [reader EXCEPT ![c] = "exit"]
          /\ UNCHANGED hub
  /\ UNCHANGED <<fan, todo, queueVars, request, subscriptions, asked, gaveUp, writeVars,
                 send, conn, stop>>

DispatchToSomebody ==
  /\ hub = "select" /\ broadcast # <<>>
  /\ Targets(Head(broadcast)) # {}
  /\ hub' = "fanout"
  /\ fan' = Head(broadcast)
  /\ todo' = Targets(Head(broadcast))
  /\ broadcast' = Tail(broadcast)
  /\ UNCHANGED <<mapVars, callers, accepted, readVars, writeVars, chanVars, conn, stop>>

\* case message := <-h.broadcast
Dispatch ==
  /\ hub = "select" /\ broadcast # <<>>
  /\ hub' = "fanout"
  /\ fan' = Head(broadcast)
  /\ todo' = Targets(Head(broadcast))
  /\ broadcast' = Tail(broadcast)
  /\ UNCHANGED <<mapVars, callers, accepted, readVars, writeVars, chanVars, conn, stop>>

OfferPushingFront(c) ==
  /\ hub = "fanout" /\ c \in todo
  /\ ~sendClosed[c] /\ Len(send[c]) < SendCap
  /\ send' = [send EXCEPT ![c] = <<Event(fan.Message)>> \o @]
  /\ todo' = todo \ {c}
  /\ UNCHANGED <<hub, fan, mapVars, queueVars, readVars, writeVars, sendClosed, conn, stop>>

\* case client.send <- message.Message
Offer(c) ==
  /\ hub = "fanout" /\ c \in todo
  /\ ~sendClosed[c] /\ Len(send[c]) < SendCap
  /\ send' = [send EXCEPT ![c] = Append(@, Event(fan.Message))]
  /\ todo' = todo \ {c}
  /\ UNCHANGED <<hub, fan, mapVars, queueVars, readVars, writeVars, sendClosed, conn, stop>>

\* delete(targetClients, client): only the map the message went through.
DropTarget(c) ==
  /\ clients' = IF Scope(fan) # "topic" THEN clients
                ELSE [clients EXCEPT ![fan.Topic] = @ \ {c}]
  /\ allClients' = IF Scope(fan) # "all" THEN allClients ELSE allClients \ {c}
  /\ userClients' = IF Scope(fan) # "user" THEN userClients
                    ELSE [userClients EXCEPT ![fan.UserID] = @ \ {c}]

EvictSkipping(c) ==
  /\ hub = "fanout" /\ c \in todo
  /\ ~sendClosed[c] /\ Len(send[c]) = SendCap
  /\ todo' = todo \ {c}
  /\ UNCHANGED <<hub, fan, mapVars, queueVars, readVars, writeVars, chanVars, conn, stop>>

EvictBlocking(c) ==
  /\ FALSE
  /\ UNCHANGED vars

\* default: the channel is full, so it is closed and the client dropped from
\* the map in use.  Neither its readPump nor the other maps are told.
Evict(c) ==
  /\ hub = "fanout" /\ c \in todo
  /\ ~sendClosed[c] /\ Len(send[c]) = SendCap
  /\ sendClosed' = [sendClosed EXCEPT ![c] = TRUE]
  /\ DropTarget(c)
  /\ todo' = todo \ {c}
  /\ UNCHANGED <<hub, fan, queueVars, readVars, writeVars, send, conn, stop>>

\* A send on a closed channel panics, inside a select as well.
OfferToClosed(c) ==
  /\ hub = "fanout" /\ c \in todo /\ sendClosed[c]
  /\ hub' = "panicked"
  /\ UNCHANGED <<fan, todo, mapVars, queueVars, readVars, writeVars, chanVars, conn, stop>>

FanoutEnd ==
  /\ hub = "fanout" /\ todo = {}
  /\ hub' = "select" /\ fan' = Empty
  /\ UNCHANGED <<todo, mapVars, queueVars, readVars, writeVars, chanVars, conn, stop>>

-----------------------------------------------------------------------------
(* OnStop, run once: cancel the context, then close the connections.       *)

Cancel ==
  /\ stop = "running"
  /\ stop' = "cancelled"
  /\ UNCHANGED <<hubVars, mapVars, queueVars, readVars, writeVars, chanVars, conn>>

\* case <-ctx.Done()
RunStop ==
  /\ hub = "select" /\ stop # "running"
  /\ hub' = "stopped"
  /\ UNCHANGED <<fan, todo, mapVars, queueVars, readVars, writeVars, chanVars, conn, stop>>

\* Takes h.mu, so never during a fan-out; closes the connections the topic
\* maps know.
CloseAll ==
  /\ stop = "cancelled" /\ hub # "fanout"
  /\ stop' = "done"
  /\ conn' = [c \in Client |-> IF \E t \in Topic : c \in clients[t]
                               THEN "closed" ELSE conn[c]]
  /\ UNCHANGED <<hubVars, mapVars, queueVars, readVars, writeVars, chanVars>>

-----------------------------------------------------------------------------

Reader(c) ==
  \/ \E t \in Topic : HandleSubscribe(c, t) \/ HandleUnsubscribe(c, t)
  \/ SendMessage(c) \/ ReadError(c) \/ ReaderExit(c)

Writer(c) == WriteFrame(c) \/ WriteError(c) \/ PingError(c) \/ WriterSeesClose(c)

Caller ==
  \/ \E p \in Payload, t \in Topic : Broadcast(t, p)
  \/ \E p \in Payload, u \in User \cup {Empty} : BroadcastToUser(u, p)
  \/ \E p \in Payload : BroadcastToAll(p)
  \/ \E m \in callers : Enqueue(m)

Fanout(c) == Offer(c) \/ Evict(c) \/ OfferToClosed(c)

Run ==
  \/ RunStart \/ Dispatch \/ FanoutEnd \/ RunStop
  \/ \E c \in Client : Register(c) \/ Unregister(c) \/ Fanout(c)

Next ==
  /\ hub # "panicked"
  /\ \/ \E c \in Client : HandleWebSocket(c) \/ Reader(c) \/ Writer(c)
     \/ Caller \/ Run \/ Cancel \/ CloseAll

Spec == Init /\ [][Next]_vars

(***************************************************************************)
(* Fairness.  A goroutine that can run is scheduled (weak fairness).  Go's *)
(* select picks at random among the ready cases and a blocked sender is    *)
(* served in FIFO order, so a case ready again and again is taken (strong  *)
(* fairness).  Writes carry a deadline of writeWait and the ticker fires   *)
(* every pingPeriod, so writePump always leaves a frame or a dead          *)
(* connection behind.  What a closed connection left in its read buffer is *)
(* finite, so readPump meets the error behind it (strong fairness, as it   *)
(* may handle such frames first).  Nothing makes a peer send, leave or     *)
(* answer, and nothing makes a service broadcast.                          *)
(***************************************************************************)
Fairness ==
  /\ WF_vars(RunStart \/ FanoutEnd \/ \E c \in Client : Fanout(c))
  /\ SF_vars(Dispatch) /\ SF_vars(RunStop)
  /\ \A c \in Client :
       /\ SF_vars(Register(c) \/ Unregister(c))
       /\ WF_vars(SendMessage(c) \/ ReaderExit(c))
       /\ SF_vars(conn[c] = "closed" /\ ReadError(c))
       /\ WF_vars(\/ WriteFrame(c) \/ WriteError(c) \/ WriterSeesClose(c)
                  \/ conn[c] = "closed" /\ PingError(c))
  /\ SF_vars(\E m \in callers : Enqueue(m))

FairSpec == Spec /\ Fairness
=============================================================================
