--------------------------- MODULE HubRefinement ---------------------------
(***************************************************************************)
(* The hub implements the multicast contract, for every set of clients,    *)
(* topics, users and payloads and every channel capacity.                  *)
(*                                                                         *)
(* The argument follows a broadcast by its position in the order the       *)
(* broadcast channel accepted: what waits in the channel is the end of     *)
(* that order, the message being fanned out comes just before, and what a  *)
(* client got comes before what waits in its send channel, in that order.  *)
(***************************************************************************)
EXTENDS HubProofs

Addressed(c, m) ==
  IF m.UserID # Empty THEN UserID[c] = m.UserID
  ELSE m.Topic \in asked[c] \cup {Empty, TopicGlobal}

\* A payload is broadcast once: it tells its position.
PayloadsDiffer ==
  /\ \A i, j \in DOMAIN accepted : accepted[i].Message = accepted[j].Message => i = j
  /\ \A m \in callers : \A i \in DOMAIN accepted : accepted[i].Message # m.Message
  /\ \A m, n \in callers : m.Message = n.Message => m = n

\* The broadcast channel holds the last broadcasts accepted, the fan-out the one
\* before them.
ChannelIsTheEnd ==
  /\ Len(broadcast) <= Len(accepted)
  /\ \A k \in DOMAIN broadcast : broadcast[k] = accepted[Dispatched + k]
  /\ hub = "fanout" => Dispatched >= 1 /\ fan = accepted[Dispatched]

\* A client is only in the maps of topics it asked for.
MapsFollowRequests ==
  /\ \A t \in Topic : \A c \in clients[t] : t \in asked[c]
  /\ \A c \in Client : reader[c] = "register" => request[c].Body \in asked[c]

\* The events that wait for a client are accepted broadcasts addressed to it.
SentAddressed(c) ==
  \A k \in DOMAIN send[c] : send[c][k].Type = "event" =>
    \E i \in DOMAIN accepted :
      send[c][k] = Event(accepted[i].Message) /\ Addressed(c, accepted[i])

\* So are the payloads it received.
ReceivedAccepted(c) ==
  \A r \in DOMAIN received[c] :
    \E i \in DOMAIN accepted : received[c][r] = accepted[i].Message

\* What it got, or waits for, has been dispatched; a target still to be offered
\* the message has not had it.
NotAhead(c) ==
  \A i \in DOMAIN accepted : Has(c, i) \/ Holds(c, i) =>
    i <= Dispatched /\ (hub = "fanout" /\ c \in todo => i < Dispatched)

\* Positions increase along a send channel.
SendInOrder(c) ==
  \A k, l \in DOMAIN send[c] : k < l =>
    \A i, j \in DOMAIN accepted :
      send[c][k] = Event(accepted[i].Message) /\ send[c][l] = Event(accepted[j].Message)
        => i < j

\* What was received comes before what waits.
ReceivedFirst(c) == \A i, j \in DOMAIN accepted : Has(c, i) /\ Holds(c, j) => i < j

ClientOK(c) ==
  /\ SentAddressed(c) /\ ReceivedAccepted(c) /\ NotAhead(c)
  /\ SendInOrder(c) /\ ReceivedFirst(c)

ClientsOK == \A c \in Client : ClientOK(c)

OrderInv ==
  PayloadsDiffer /\ ChannelIsTheEnd /\ MapsFollowRequests /\ ClientsOK

-----------------------------------------------------------------------------
(* Which steps matter.                                                     *)

\* The step leaves the order, the channels and what was received alone, and a
\* fan-out neither begins nor moves on.
Apart ==
  /\ UNCHANGED <<queueVars, send, received, asked>>
  /\ UNCHANGED hubVars \/ hub' # "fanout"

LEMMA OrderSteps ==
  ASSUME [Next]_vars
  PROVE  \/ Apart
         \/ \E m \in BroadcastMessage : Call(m)
         \/ \E m \in callers : Enqueue(m)
         \/ Dispatch
         \/ \E c \in Client :
              \/ Offer(c) \/ Evict(c) \/ SendMessage(c) \/ WriteFrame(c) \/ WriteError(c)
              \/ \E t \in Topic : HandleSubscribe(c, t)
<1>1. CASE UNCHANGED vars
  BY <1>1 DEF Apart, vars, readVars, writeVars, chanVars
<1>2. ASSUME NEW c \in Client, HandleWebSocket(c) \/ Reader(c) \/ Writer(c)
      PROVE  \/ Apart
             \/ SendMessage(c) \/ WriteFrame(c) \/ WriteError(c)
             \/ \E t \in Topic : HandleSubscribe(c, t)
  BY <1>2 DEF Apart, HandleWebSocket, Reader, Writer, HandleUnsubscribe, Receive,
     ReadError, ReaderExit, PingError, WriterSeesClose, WriterReturn, readVars,
     writeVars, chanVars
<1>3. CASE Caller
  BY <1>3 DEF Caller, Broadcast, BroadcastToUser, BroadcastToAll, BroadcastMessage
<1>4. CASE Run
  BY <1>4 DEF Apart, Run, RunStart, FanoutEnd, RunStop, Register, Unregister,
     Fanout, OfferToClosed, hubVars, readVars, writeVars, chanVars
<1>5. CASE Cancel \/ CloseAll
  BY <1>5 DEF Apart, Cancel, CloseAll, readVars, writeVars, chanVars
<1> QED
  BY <1>1, <1>2, <1>3, <1>4, <1>5 DEF Next

-----------------------------------------------------------------------------
(* Each part of the invariant.                                             *)

LEMMA PayloadsDifferStep == TypeOK /\ PayloadsDiffer /\ [Next]_vars => PayloadsDiffer'
<1> SUFFICES ASSUME TypeOK, PayloadsDiffer, [Next]_vars PROVE PayloadsDiffer'
  OBVIOUS
<1> USE DEF PayloadsDiffer
<1>1. ASSUME NEW m \in BroadcastMessage, Call(m) PROVE PayloadsDiffer'
  BY <1>1 DEF Call
<1>2. ASSUME NEW m \in callers, Enqueue(m) PROVE PayloadsDiffer'
  <2>1. /\ m \in BroadcastMessage /\ accepted \in Seq(BroadcastMessage)
        /\ accepted' = Append(accepted, m) /\ callers' = callers \ {m}
    BY <1>2 DEF TypeOK, Enqueue
  <2>2. \A i \in DOMAIN accepted' :
          \/ i \in DOMAIN accepted /\ accepted'[i] = accepted[i]
          \/ i = Len(accepted) + 1 /\ accepted'[i] = m
    BY <2>1
  <2> QED
    BY <2>1, <2>2
<1>3. CASE UNCHANGED <<callers, accepted>>
  BY <1>3
<1> QED
  BY <1>1, <1>2, <1>3, OrderSteps
     DEF Apart, Dispatch, Offer, Evict, SendMessage, WriteFrame, WriteError,
         WriterReturn, HandleSubscribe, Receive, queueVars

LEMMA ChannelIsTheEndStep == TypeOK /\ ChannelIsTheEnd /\ [Next]_vars => ChannelIsTheEnd'
<1> SUFFICES ASSUME TypeOK, ChannelIsTheEnd, [Next]_vars PROVE ChannelIsTheEnd'
  OBVIOUS
<1> USE DEF ChannelIsTheEnd, Dispatched
<1>0. accepted \in Seq(BroadcastMessage) /\ broadcast \in Seq(BroadcastMessage)
  BY DEF TypeOK
<1>1. ASSUME NEW m \in callers, Enqueue(m) PROVE ChannelIsTheEnd'
  <2>1. /\ m \in BroadcastMessage /\ UNCHANGED hubVars
        /\ accepted' = Append(accepted, m) /\ broadcast' = Append(broadcast, m)
    BY <1>1 DEF TypeOK, Enqueue
  <2>2. Dispatched' = Dispatched
    BY <1>0, <2>1
  <2>3. \A k \in DOMAIN broadcast' : broadcast'[k] = accepted'[Dispatched + k]
    BY <1>0, <2>1
  <2>4. hub = "fanout" => accepted'[Dispatched] = accepted[Dispatched]
    BY <1>0, <2>1
  <2> QED
    BY <1>0, <2>1, <2>2, <2>3, <2>4 DEF hubVars
<1>2. CASE Dispatch
  <2>1. /\ broadcast # <<>> /\ broadcast' = Tail(broadcast) /\ accepted' = accepted
        /\ fan' = Head(broadcast)
    BY <1>2 DEF Dispatch
  <2>2. Dispatched' = Dispatched + 1
    BY <1>0, <2>1
  <2>3. Head(broadcast) = accepted[Dispatched + 1]
    BY <1>0, <2>1
  <2>4. \A k \in DOMAIN Tail(broadcast) :
          k + 1 \in DOMAIN broadcast /\ Tail(broadcast)[k] = broadcast[k + 1]
    BY <1>0, <2>1
  <2>5. \A k \in DOMAIN broadcast' : broadcast'[k] = accepted'[Dispatched' + k]
    BY <1>0, <2>1, <2>2, <2>4
  <2> QED
    BY <1>0, <2>1, <2>2, <2>3, <2>5
<1>3. CASE /\ UNCHANGED <<accepted, broadcast>>
           /\ UNCHANGED <<hub, fan>> \/ hub' # "fanout"
  BY <1>3
<1> QED
  BY <1>1, <1>2, <1>3, OrderSteps
     DEF Apart, Call, Offer, Evict, SendMessage, WriteFrame, WriteError,
         WriterReturn, HandleSubscribe, Receive, queueVars, hubVars

LEMMA MapsFollowRequestsStep ==
  TypeOK /\ MapsFollowRequests /\ [Next]_vars => MapsFollowRequests'
<1> SUFFICES ASSUME TypeOK, MapsFollowRequests, [Next]_vars PROVE MapsFollowRequests'
  OBVIOUS
<1> USE DEF TypeOK, MapsFollowRequests
<1>1. ASSUME NEW c \in Client, Register(c) PROVE MapsFollowRequests'
  BY <1>1 DEF Register, AddToMaps, Request
<1>2. ASSUME NEW c \in Client, Unregister(c) PROVE MapsFollowRequests'
  BY <1>2 DEF Unregister, RemoveFromMaps
<1>3. ASSUME NEW c \in Client, Evict(c) PROVE MapsFollowRequests'
  BY <1>3 DEF Evict, DropTarget, readVars
<1>4. ASSUME NEW c \in Client, HandleWebSocket(c) PROVE MapsFollowRequests'
  BY <1>4 DEF HandleWebSocket, mapVars
<1>5. ASSUME NEW c \in Client, Reader(c) PROVE MapsFollowRequests'
  <2>1. ASSUME NEW t \in Topic, HandleSubscribe(c, t) PROVE MapsFollowRequests'
    BY <2>1 DEF HandleSubscribe, Receive, mapVars
  <2>2. ASSUME NEW t \in Topic, HandleUnsubscribe(c, t) PROVE MapsFollowRequests'
    BY <2>2 DEF HandleUnsubscribe, Receive, mapVars
  <2>3. CASE SendMessage(c) \/ ReadError(c) \/ ReaderExit(c)
    BY <2>3 DEF SendMessage, ReadError, ReaderExit, mapVars
  <2> QED
    BY <1>5, <2>1, <2>2, <2>3 DEF Reader
<1>6. CASE UNCHANGED <<clients, asked, reader, request>>
  BY <1>6
<1>7. UNCHANGED asked \/ \E c \in Client, t \in Topic : HandleSubscribe(c, t)
  BY OrderSteps DEF Apart, Call, Enqueue, Dispatch, Offer, Evict, SendMessage,
     WriteFrame, WriteError, WriterReturn, readVars
<1>8. ASSUME NEW c \in Client, NEW t \in Topic, HandleSubscribe(c, t) PROVE Reader(c)
  BY <1>8 DEF Reader
<1> QED
  BY <1>1, <1>2, <1>3, <1>4, <1>5, <1>6, <1>7, <1>8, MapSteps, ReaderSteps DEF mapVars

-----------------------------------------------------------------------------
(* What clients hold, action by action.                                    *)

LEMMA EventsDiffer ==
  ASSUME NEW p, NEW q, Event(p) = Event(q) PROVE p = q
<1>1. Event(p).Body = p /\ Event(q).Body = q
  BY DEF Event
<1> QED
  BY <1>1

\* A message that was just accepted is nowhere yet.
LEMMA AcceptedIsNew ==
  ASSUME TypeOK, PayloadsDiffer, ClientsOK,
         NEW m \in callers, Enqueue(m), NEW c \in Client, NEW i \in DOMAIN accepted'
  PROVE  /\ Has(c, i)' => i \in DOMAIN accepted /\ Has(c, i)
         /\ Holds(c, i)' => i \in DOMAIN accepted /\ Holds(c, i)
         /\ i \in DOMAIN accepted => accepted'[i] = accepted[i]
<1>1. /\ m \in BroadcastMessage /\ accepted \in Seq(BroadcastMessage)
      /\ accepted' = Append(accepted, m) /\ UNCHANGED <<send, received>>
  BY DEF TypeOK, Enqueue, chanVars, writeVars
<1>2. \/ i \in DOMAIN accepted /\ accepted'[i] = accepted[i]
      \/ i = Len(accepted) + 1 /\ i \notin DOMAIN accepted /\ accepted'[i] = m
  BY <1>1
<1>3. CASE i \in DOMAIN accepted /\ accepted'[i] = accepted[i]
  BY <1>1, <1>3 DEF Has, Holds
<1>4. CASE i \notin DOMAIN accepted /\ accepted'[i] = m
  <2>1. \A r \in DOMAIN received[c] : received[c][r] # m.Message
    BY DEF ClientsOK, ClientOK, SentAddressed, ReceivedAccepted, PayloadsDiffer
  <2>2. \A k \in DOMAIN send[c] : send[c][k] # Event(m.Message)
    <3> SUFFICES ASSUME NEW k \in DOMAIN send[c], send[c][k] = Event(m.Message)
                 PROVE  FALSE
      OBVIOUS
    <3>1. PICK j \in DOMAIN accepted : Event(m.Message) = Event(accepted[j].Message)
      BY DEF ClientsOK, ClientOK, SentAddressed, ReceivedAccepted, Event
    <3>2. m.Message = accepted[j].Message
      BY <3>1, EventsDiffer
    <3> QED
      BY <3>2 DEF PayloadsDiffer
  <2> QED
    BY <1>1, <1>4, <2>1, <2>2 DEF Has, Holds
<1> QED
  BY <1>2, <1>3, <1>4

LEMMA ClientsOKEnqueue ==
  ASSUME TypeOK, PayloadsDiffer, ClientsOK, NEW m \in callers, Enqueue(m), NEW c \in Client
  PROVE  ClientOK(c)'
<1>0. SentAddressed(c) /\ ReceivedAccepted(c) /\ NotAhead(c) /\ SendInOrder(c) /\ ReceivedFirst(c)
  BY DEF ClientsOK, ClientOK
<1>1. /\ m \in BroadcastMessage
      /\ accepted \in Seq(BroadcastMessage) /\ broadcast \in Seq(BroadcastMessage)
      /\ accepted' = Append(accepted, m) /\ broadcast' = Append(broadcast, m)
      /\ UNCHANGED <<send, received, asked, hub, todo>>
  BY DEF TypeOK, Enqueue, chanVars, writeVars, readVars, hubVars
<1>2. Dispatched' = Dispatched
  BY <1>1 DEF Dispatched
<1>3. \A i \in DOMAIN accepted : i \in DOMAIN accepted' /\ accepted'[i] = accepted[i]
  BY <1>1
<1>4. SentAddressed(c)'
  <2> SUFFICES ASSUME NEW k \in DOMAIN send[c], send[c][k].Type = "event"
               PROVE  \E i \in DOMAIN accepted' :
                        send[c][k] = Event(accepted'[i].Message) /\ Addressed(c, accepted'[i])
    BY <1>1 DEF SentAddressed, Event, Addressed
  <2>1. PICK i \in DOMAIN accepted :
          send[c][k] = Event(accepted[i].Message) /\ Addressed(c, accepted[i])
    BY <1>0 DEF SentAddressed
  <2> QED
    BY <1>3, <2>1
<1>5. ReceivedAccepted(c)'
  BY <1>0, <1>1, <1>3 DEF ReceivedAccepted
<1>6. NotAhead(c)'
  BY <1>0, <1>1, <1>2, AcceptedIsNew DEF NotAhead
<1>7. UNCHANGED send
  BY <1>1
<1>8. SendInOrder(c)'
  <2> SUFFICES ASSUME NEW k \in DOMAIN send[c], NEW l \in DOMAIN send[c], k < l,
                      NEW i \in DOMAIN accepted', NEW j \in DOMAIN accepted',
                      send[c][k] = Event(accepted'[i].Message),
                      send[c][l] = Event(accepted'[j].Message)
               PROVE  i < j
    BY <1>7 DEF SendInOrder, Event
  <2>1. Holds(c, i)' /\ Holds(c, j)'
    BY <1>1 DEF Holds
  <2>2. /\ i \in DOMAIN accepted /\ accepted'[i] = accepted[i]
        /\ j \in DOMAIN accepted /\ accepted'[j] = accepted[j]
    BY <2>1, AcceptedIsNew
  <2> QED
    BY <1>0, <2>2 DEF SendInOrder
<1>9. ReceivedFirst(c)'
  BY <1>0, AcceptedIsNew DEF ReceivedFirst
<1> QED
  BY <1>4, <1>5, <1>6, <1>8, <1>9 DEF ClientOK

LEMMA ClientsOKDispatch ==
  ASSUME TypeOK, ChannelIsTheEnd, ClientsOK, Dispatch, NEW c \in Client
  PROVE  ClientOK(c)'
<1> USE DEF ClientsOK, ClientOK
<1>1. UNCHANGED <<send, received, asked, accepted>>
  BY DEF Dispatch, chanVars, writeVars, readVars
<1>2. /\ accepted \in Seq(BroadcastMessage) /\ broadcast \in Seq(BroadcastMessage)
      /\ broadcast # <<>> /\ broadcast' = Tail(broadcast)
  BY DEF TypeOK, Dispatch
<1>3. Dispatched' = Dispatched + 1 /\ Dispatched \in Nat
  BY <1>1, <1>2 DEF Dispatched, ChannelIsTheEnd
<1>4. \A i \in DOMAIN accepted : i \in Nat
  BY <1>2
<1>5. SentAddressed(c)' /\ ReceivedAccepted(c)'
  BY <1>1 DEF SentAddressed, ReceivedAccepted, Addressed, Event
<1>6. NotAhead(c)'
  BY <1>1, <1>3, <1>4 DEF NotAhead, Has, Holds, Addressed, Event
<1> QED
  BY <1>1, <1>5, <1>6 DEF SendInOrder, ReceivedFirst, Has, Holds, Event

\* A step that leaves what a client holds alone, and does not make it a target.
LEMMA ClientOKUntouched ==
  ASSUME ClientsOK, NEW c \in Client, UNCHANGED <<accepted, broadcast>>,
         send'[c] = send[c], received'[c] = received[c], asked[c] \subseteq asked'[c],
         hub' = "fanout" /\ c \in todo' => hub = "fanout" /\ c \in todo
  PROVE  ClientOK(c)'
<1> USE DEF ClientsOK, ClientOK
<1>1. SentAddressed(c)' /\ ReceivedAccepted(c)' /\ NotAhead(c)'
  BY DEF SentAddressed, ReceivedAccepted, NotAhead, Has, Holds, Addressed, Event, Dispatched
<1> QED
  BY <1>1 DEF SendInOrder, ReceivedFirst, Has, Holds, Event
\* A target is addressed: the map it was found in says so.
LEMMA TargetIsAddressed ==
  ASSUME TypeOK, MapsAgree, MapsFollowRequests,
         NEW m \in BroadcastMessage, NEW c \in Targets(m)
  PROVE  Addressed(c, m)
<1>1. CASE Scope(m) = "user"
  <2>1. m.UserID \in User /\ m.UserID # Empty /\ c \in userClients[m.UserID]
    BY <1>1 DEF Scope, Targets, BroadcastMessage
  <2> QED
    BY <2>1 DEF MapsAgree, IsUser, Addressed
<1>2. CASE Scope(m) = "all"
  BY <1>2 DEF Scope, Addressed
<1>3. CASE Scope(m) = "topic"
  <2>1. m.Topic \in Topic /\ m.UserID = Empty /\ c \in clients[m.Topic]
    BY <1>3 DEF Scope, Targets, BroadcastMessage
  <2> QED
    BY <2>1 DEF MapsFollowRequests, Addressed
<1> QED
  BY <1>1, <1>2, <1>3 DEF Scope

\* The broadcast offered is the last one dispatched, and the only one its client
\* gets of it.
LEMMA OfferGives ==
  ASSUME TypeOK, PayloadsDiffer, ChannelIsTheEnd, NEW c \in Client, Offer(c),
         NEW i \in DOMAIN accepted
  PROVE  (Has(c, i)' <=> Has(c, i)) /\ (Holds(c, i)' => Holds(c, i) \/ i = Dispatched)
<1>1. /\ UNCHANGED <<accepted, received>> /\ hub = "fanout"
      /\ send[c] \in Seq(Frame) /\ accepted \in Seq(BroadcastMessage)
      /\ send'[c] = Append(send[c], Event(fan.Message))
  BY DEF TypeOK, Offer, queueVars, writeVars
<1>2. Dispatched \in DOMAIN accepted /\ fan = accepted[Dispatched]
  BY <1>1 DEF ChannelIsTheEnd, Dispatched, TypeOK
<1>3. \A k \in DOMAIN send'[c] :
        \/ k \in DOMAIN send[c] /\ send'[c][k] = send[c][k]
        \/ send'[c][k] = Event(fan.Message)
  BY <1>1
<1>4. Event(fan.Message) = Event(accepted[i].Message) => i = Dispatched
  BY <1>2, EventsDiffer DEF PayloadsDiffer
<1>5. Has(c, i)' <=> Has(c, i)
  BY <1>1 DEF Has
<1>6. ASSUME NEW k \in DOMAIN send'[c], send'[c][k] = Event(accepted[i].Message)
      PROVE  Holds(c, i) \/ i = Dispatched
  BY <1>3, <1>4, <1>6 DEF Holds
<1> QED
  BY <1>1, <1>5, <1>6 DEF Holds, Event

LEMMA ClientOKOffer ==
  ASSUME TypeOK, MapsAgree, FanoutWithin, OrderInv, NEW c \in Client, Offer(c)
  PROVE  ClientOK(c)'
<1>0. SentAddressed(c) /\ ReceivedAccepted(c) /\ NotAhead(c) /\ SendInOrder(c) /\ ReceivedFirst(c)
  BY DEF OrderInv, ClientsOK, ClientOK
<1>1. /\ UNCHANGED <<accepted, broadcast, received, asked, hub>>
      /\ hub = "fanout" /\ c \in todo /\ c \notin todo'
      /\ send[c] \in Seq(Frame) /\ accepted \in Seq(BroadcastMessage)
      /\ send'[c] = Append(send[c], Event(fan.Message))
  BY DEF TypeOK, Offer, queueVars, writeVars, readVars
<1>2. /\ Dispatched \in DOMAIN accepted /\ fan = accepted[Dispatched]
      /\ Dispatched \in Nat /\ Dispatched' = Dispatched
  BY <1>1 DEF OrderInv, ChannelIsTheEnd, Dispatched, TypeOK
<1>3. Addressed(c, fan)
  BY <1>1, TargetIsAddressed DEF TypeOK, FanoutWithin, OrderInv
<1>4. \A k \in DOMAIN send'[c] :
        \/ k \in DOMAIN send[c] /\ send'[c][k] = send[c][k]
        \/ k = Len(send[c]) + 1 /\ k \notin DOMAIN send[c] /\ send'[c][k] = Event(fan.Message)
  BY <1>1
<1>5. \A i \in DOMAIN accepted : Event(fan.Message) = Event(accepted[i].Message) => i = Dispatched
  BY <1>2, EventsDiffer DEF OrderInv, PayloadsDiffer
<1>6. SentAddressed(c)'
  <2> SUFFICES ASSUME NEW k \in DOMAIN send'[c], send'[c][k].Type = "event"
               PROVE  \E i \in DOMAIN accepted :
                        send'[c][k] = Event(accepted[i].Message) /\ Addressed(c, accepted[i])
    <3>1. UNCHANGED <<accepted, asked>>
      BY <1>1
    <3> QED
      BY <3>1 DEF SentAddressed, Event, Addressed
  <2> QED
    BY <1>0, <1>2, <1>3, <1>4 DEF SentAddressed
<1>7. ReceivedAccepted(c)'
  BY <1>0, <1>1 DEF ReceivedAccepted
<1>8. \A i \in DOMAIN accepted : (Has(c, i)' <=> Has(c, i)) /\ (Holds(c, i)' => Holds(c, i) \/ i = Dispatched)
  BY OfferGives DEF OrderInv
<1>9. NotAhead(c)'
  BY <1>0, <1>1, <1>2, <1>8 DEF NotAhead
<1>10. \A i \in DOMAIN accepted : Has(c, i) \/ Holds(c, i) => i < Dispatched
  BY <1>0, <1>1 DEF NotAhead
<1>11. SendInOrder(c)'
  <2> SUFFICES ASSUME NEW k \in DOMAIN send'[c], NEW l \in DOMAIN send'[c], k < l,
                      NEW i \in DOMAIN accepted, NEW j \in DOMAIN accepted,
                      send'[c][k] = Event(accepted[i].Message),
                      send'[c][l] = Event(accepted[j].Message)
               PROVE  i < j
    <3>1. UNCHANGED accepted
      BY <1>1
    <3> QED
      BY <3>1 DEF SendInOrder, Event
  <2>1. k \in DOMAIN send[c] /\ send'[c][k] = send[c][k]
    BY <1>1, <1>4
  <2>2. CASE l \in DOMAIN send[c] /\ send'[c][l] = send[c][l]
    BY <1>0, <2>1, <2>2 DEF SendInOrder
  <2>3. CASE send'[c][l] = Event(fan.Message)
    BY <1>5, <1>10, <2>1, <2>3 DEF Holds
  <2> QED
    BY <1>4, <2>2, <2>3
<1>12. ReceivedFirst(c)'
  BY <1>0, <1>1, <1>8, <1>10 DEF ReceivedFirst
<1> QED
  BY <1>6, <1>7, <1>9, <1>11, <1>12 DEF ClientOK

\* A confirmation at the end of the send channel is no event.
LEMMA ConfirmationGivesNothing ==
  ASSUME TypeOK, NEW c \in Client, SendMessage(c), NEW i \in DOMAIN accepted
  PROVE  (Has(c, i)' <=> Has(c, i)) /\ (Holds(c, i)' => Holds(c, i))
<1>1. /\ UNCHANGED <<accepted, received>>
      /\ send[c] \in Seq(Frame) /\ request[c] \in Request
      /\ send'[c] \in {send[c], Append(send[c], request[c])}
  BY DEF TypeOK, SendMessage, queueVars, writeVars
<1>2. \A k \in DOMAIN send'[c] :
        \/ k \in DOMAIN send[c] /\ send'[c][k] = send[c][k]
        \/ send'[c][k].Type # "event"
  BY <1>1 DEF Request
<1>3. ASSUME NEW k \in DOMAIN send'[c], send'[c][k] = Event(accepted[i].Message)
      PROVE  Holds(c, i)
  BY <1>2, <1>3 DEF Holds, Event
<1>4. Has(c, i)' <=> Has(c, i)
  BY <1>1 DEF Has
<1> QED
  BY <1>1, <1>3, <1>4 DEF Holds, Event

LEMMA ClientOKSendMessage ==
  ASSUME TypeOK, OrderInv, NEW c \in Client, SendMessage(c)
  PROVE  ClientOK(c)'
<1>0. SentAddressed(c) /\ ReceivedAccepted(c) /\ NotAhead(c) /\ SendInOrder(c) /\ ReceivedFirst(c)
  BY DEF OrderInv, ClientsOK, ClientOK
<1>1. /\ UNCHANGED <<accepted, broadcast, received, asked, hub, todo>>
      /\ send[c] \in Seq(Frame) /\ request[c] \in Request
      /\ send'[c] \in {send[c], Append(send[c], request[c])}
  BY DEF TypeOK, SendMessage, queueVars, writeVars, hubVars
<1>2. \A k \in DOMAIN send'[c] :
        \/ k \in DOMAIN send[c] /\ send'[c][k] = send[c][k]
        \/ send'[c][k].Type # "event"
  BY <1>1 DEF Request
<1>3. UNCHANGED <<accepted, asked, received>> /\ UNCHANGED <<hub, todo, broadcast>>
  BY <1>1
<1>4. \A k \in DOMAIN send'[c] : \A p : send'[c][k] = Event(p) =>
        k \in DOMAIN send[c] /\ send'[c][k] = send[c][k]
  BY <1>2 DEF Event
<1>5. \A i \in DOMAIN accepted : (Has(c, i)' <=> Has(c, i)) /\ (Holds(c, i)' => Holds(c, i))
  BY ConfirmationGivesNothing
<1>6. SentAddressed(c)'
  BY <1>0, <1>2, <1>3 DEF SentAddressed, Event, Addressed
<1>7. ReceivedAccepted(c)'
  BY <1>0, <1>3 DEF ReceivedAccepted
<1>8. NotAhead(c)'
  BY <1>0, <1>3, <1>5 DEF NotAhead, Dispatched
<1>9. SendInOrder(c)'
  <2> SUFFICES ASSUME NEW k \in DOMAIN send'[c], NEW l \in DOMAIN send'[c], k < l,
                      NEW i \in DOMAIN accepted, NEW j \in DOMAIN accepted,
                      send'[c][k] = Event(accepted[i].Message),
                      send'[c][l] = Event(accepted[j].Message)
               PROVE  i < j
    BY <1>3 DEF SendInOrder, Event
  <2> QED
    BY <1>0, <1>4 DEF SendInOrder
<1>10. ReceivedFirst(c)'
  BY <1>0, <1>3, <1>5 DEF ReceivedFirst
<1> QED
  BY <1>6, <1>7, <1>8, <1>9, <1>10 DEF ClientOK

\* What a client gets of a frame that is popped it already held.
LEMMA PopGivesNothing ==
  ASSUME TypeOK, NEW c \in Client, SentAddressed(c), WriteFrame(c) \/ WriteError(c),
         NEW i \in DOMAIN accepted
  PROVE  /\ Holds(c, i)' => Holds(c, i)
         /\ Has(c, i)' => Has(c, i) \/ Head(send[c]) = Event(accepted[i].Message)
<1>1. /\ UNCHANGED accepted
      /\ send[c] \in Seq(Frame) /\ received[c] \in Seq(Payload) /\ send[c] # <<>>
      /\ send'[c] = Tail(send[c])
  BY DEF TypeOK, WriteFrame, WriteError, WriterReturn, queueVars
<1>2. \/ received'[c] = received[c]
      \/ /\ Head(send[c]).Type = "event"
         /\ received'[c] = Append(received[c], Head(send[c]).Body)
  BY DEF TypeOK, WriteFrame, WriteError, WriterReturn
<1>3. /\ 1 \in DOMAIN send[c] /\ Head(send[c]) = send[c][1]
      /\ \A k \in DOMAIN send'[c] :
           k + 1 \in DOMAIN send[c] /\ send'[c][k] = send[c][k + 1]
  BY <1>1
<1>4. ASSUME NEW k \in DOMAIN send'[c], send'[c][k] = Event(accepted[i].Message)
      PROVE  Holds(c, i)
  BY <1>3, <1>4 DEF Holds
<1>5. \A r \in DOMAIN received'[c] :
        \/ r \in DOMAIN received[c] /\ received'[c][r] = received[c][r]
        \/ Head(send[c]).Type = "event" /\ received'[c][r] = Head(send[c]).Body
  BY <1>1, <1>2
<1>6. ASSUME NEW r \in DOMAIN received'[c], received'[c][r] = accepted[i].Message
      PROVE  Has(c, i) \/ Head(send[c]) = Event(accepted[i].Message)
  <2>1. CASE r \in DOMAIN received[c] /\ received'[c][r] = received[c][r]
    BY <1>6, <2>1 DEF Has
  <2>2. CASE Head(send[c]).Type = "event" /\ received'[c][r] = Head(send[c]).Body
    <3>1. PICK j \in DOMAIN accepted : Head(send[c]) = Event(accepted[j].Message)
      BY <1>3, <2>2 DEF SentAddressed
    <3>2. Head(send[c]).Body = accepted[j].Message
      BY <3>1 DEF Event
    <3> QED
      BY <1>6, <2>2, <3>1, <3>2
  <2> QED
    BY <1>5, <2>1, <2>2
<1> QED
  BY <1>1, <1>4, <1>6 DEF Holds, Has, Event

\* The frame popped, if it is received, comes after all that was and before all
\* that still waits.
LEMMA ClientOKPop ==
  ASSUME TypeOK, OrderInv, NEW c \in Client, WriteFrame(c) \/ WriteError(c)
  PROVE  ClientOK(c)'
<1>0. SentAddressed(c) /\ ReceivedAccepted(c) /\ NotAhead(c) /\ SendInOrder(c) /\ ReceivedFirst(c)
  BY DEF OrderInv, ClientsOK, ClientOK
<1>1. /\ UNCHANGED <<accepted, asked>> /\ UNCHANGED <<hub, todo, broadcast>>
      /\ send[c] \in Seq(Frame) /\ received[c] \in Seq(Payload) /\ send[c] # <<>>
      /\ send'[c] = Tail(send[c])
  BY DEF TypeOK, WriteFrame, WriteError, WriterReturn, queueVars, readVars, hubVars
<1>2. \/ received'[c] = received[c]
      \/ /\ Head(send[c]).Type = "event"
         /\ received'[c] = Append(received[c], Head(send[c]).Body)
  BY DEF TypeOK, WriteFrame, WriteError, WriterReturn
<1>3. /\ 1 \in DOMAIN send[c] /\ Head(send[c]) = send[c][1]
      /\ \A k \in DOMAIN send'[c] :
           /\ k + 1 \in DOMAIN send[c] /\ send'[c][k] = send[c][k + 1]
           /\ 1 < k + 1
           /\ \A l \in DOMAIN send'[c] : k < l => k + 1 < l + 1
  BY <1>1
<1>4. \A i \in DOMAIN accepted : Holds(c, i)' => Holds(c, i)
  BY <1>0, PopGivesNothing
<1>5. \A r \in DOMAIN received'[c] :
        \/ r \in DOMAIN received[c] /\ received'[c][r] = received[c][r]
        \/ Head(send[c]).Type = "event" /\ received'[c][r] = Head(send[c]).Body
  BY <1>1, <1>2
<1>6. ASSUME Head(send[c]).Type = "event"
      PROVE  \E i \in DOMAIN accepted : Head(send[c]) = Event(accepted[i].Message)
  BY <1>0, <1>3, <1>6 DEF SentAddressed
<1>7. \A i \in DOMAIN accepted : Has(c, i)' =>
        \/ Has(c, i)
        \/ Head(send[c]) = Event(accepted[i].Message)
  BY <1>0, PopGivesNothing
<1>8. SentAddressed(c)'
  <2> SUFFICES ASSUME NEW k \in DOMAIN send'[c], send'[c][k].Type = "event"
               PROVE  \E i \in DOMAIN accepted :
                        send'[c][k] = Event(accepted[i].Message) /\ Addressed(c, accepted[i])
    <3>1. UNCHANGED <<accepted, asked>>
      BY <1>1
    <3> QED
      BY <3>1 DEF SentAddressed, Event, Addressed
  <2> QED
    BY <1>0, <1>3 DEF SentAddressed
<1>9. ReceivedAccepted(c)'
  <2> SUFFICES ASSUME NEW r \in DOMAIN received'[c]
               PROVE  \E i \in DOMAIN accepted : received'[c][r] = accepted[i].Message
    BY <1>1 DEF ReceivedAccepted
  <2>1. CASE r \in DOMAIN received[c] /\ received'[c][r] = received[c][r]
    BY <1>0, <2>1 DEF ReceivedAccepted
  <2>2. CASE Head(send[c]).Type = "event" /\ received'[c][r] = Head(send[c]).Body
    <3>1. PICK j \in DOMAIN accepted : Head(send[c]) = Event(accepted[j].Message)
      BY <1>6, <2>2
    <3>2. Head(send[c]).Body = accepted[j].Message
      BY <3>1 DEF Event
    <3> QED
      BY <2>2, <3>1, <3>2
  <2> QED
    BY <1>5, <2>1, <2>2
<1>10. \A i \in DOMAIN accepted : Has(c, i)' \/ Holds(c, i)' => Has(c, i) \/ Holds(c, i)
  BY <1>3, <1>4, <1>7 DEF Holds
<1>11. NotAhead(c)'
  BY <1>0, <1>1, <1>10 DEF NotAhead, Dispatched
<1>12. SendInOrder(c)'
  <2> SUFFICES ASSUME NEW k \in DOMAIN send'[c], NEW l \in DOMAIN send'[c], k < l,
                      NEW i \in DOMAIN accepted, NEW j \in DOMAIN accepted,
                      send'[c][k] = Event(accepted[i].Message),
                      send'[c][l] = Event(accepted[j].Message)
               PROVE  i < j
    <3>1. UNCHANGED accepted
      BY <1>1
    <3> QED
      BY <3>1 DEF SendInOrder, Event
  <2> QED
    BY <1>0, <1>3 DEF SendInOrder
<1>13. ASSUME NEW i \in DOMAIN accepted, NEW j \in DOMAIN accepted,
              Head(send[c]) = Event(accepted[i].Message), Holds(c, j)'
       PROVE  i < j
  <2>1. PICK k \in DOMAIN send'[c] : send'[c][k] = Event(accepted[j].Message)
    BY <1>1, <1>13 DEF Holds, Event
  <2> QED
    BY <1>0, <1>3, <1>13, <2>1 DEF SendInOrder
<1>14. ReceivedFirst(c)'
  BY <1>0, <1>1, <1>4, <1>7, <1>13 DEF ReceivedFirst
<1> QED
  BY <1>8, <1>9, <1>11, <1>12, <1>14 DEF ClientOK

LEMMA ClientsOKStep ==
  TypeOK /\ MapsAgree /\ FanoutWithin /\ OrderInv /\ [Next]_vars => ClientsOK'
<1> SUFFICES ASSUME TypeOK, MapsAgree, FanoutWithin, OrderInv, [Next]_vars,
                    NEW d \in Client
             PROVE  ClientOK(d)'
  BY DEF ClientsOK
<1>0. ClientsOK /\ PayloadsDiffer /\ ChannelIsTheEnd
  BY DEF OrderInv
<1>1. CASE Apart
  <2>1. /\ UNCHANGED <<accepted, broadcast>> /\ send' = send /\ received' = received
        /\ asked' = asked
        /\ hub' = "fanout" /\ d \in todo' => hub = "fanout" /\ d \in todo
    BY <1>1 DEF Apart, queueVars, hubVars
  <2> QED
    BY <1>0, <2>1, ClientOKUntouched
<1>2. ASSUME NEW m \in BroadcastMessage, Call(m) PROVE ClientOK(d)'
  BY <1>0, <1>2, ClientOKUntouched DEF Call, chanVars, writeVars, readVars, hubVars
<1>3. ASSUME NEW m \in callers, Enqueue(m) PROVE ClientOK(d)'
  BY <1>0, <1>3, ClientsOKEnqueue
<1>4. CASE Dispatch
  BY <1>0, <1>4, ClientsOKDispatch
<1>5. ASSUME NEW c \in Client, Offer(c) PROVE ClientOK(d)'
  <2>1. CASE d = c
    BY <1>5, <2>1, ClientOKOffer
  <2>2. CASE d # c
    BY <1>0, <1>5, <2>2, ClientOKUntouched DEF TypeOK, Offer, queueVars, writeVars, readVars
  <2> QED
    BY <2>1, <2>2
<1>6. ASSUME NEW c \in Client, Evict(c) PROVE ClientOK(d)'
  BY <1>0, <1>6, ClientOKUntouched DEF TypeOK, Evict, queueVars, writeVars, readVars
<1>7. ASSUME NEW c \in Client, SendMessage(c) PROVE ClientOK(d)'
  <2>1. CASE d = c
    BY <1>7, <2>1, ClientOKSendMessage
  <2>2. CASE d # c
    BY <1>0, <1>7, <2>2, ClientOKUntouched DEF TypeOK, SendMessage, queueVars, writeVars, hubVars
  <2> QED
    BY <2>1, <2>2
<1>8. ASSUME NEW c \in Client, WriteFrame(c) \/ WriteError(c) PROVE ClientOK(d)'
  <2>1. CASE d = c
    BY <1>8, <2>1, ClientOKPop
  <2>2. CASE d # c
    BY <1>0, <1>8, <2>2, ClientOKUntouched
       DEF TypeOK, WriteFrame, WriteError, WriterReturn, queueVars, readVars, hubVars
  <2> QED
    BY <2>1, <2>2
<1>9. ASSUME NEW c \in Client, NEW t \in Topic, HandleSubscribe(c, t) PROVE ClientOK(d)'
  BY <1>0, <1>9, ClientOKUntouched
     DEF TypeOK, HandleSubscribe, Receive, queueVars, writeVars, chanVars, hubVars
<1> QED
  BY <1>1, <1>2, <1>3, <1>4, <1>5, <1>6, <1>7, <1>8, <1>9, OrderSteps

LEMMA OrderInit == Init => OrderInv
BY DEF Init, OrderInv, PayloadsDiffer, ChannelIsTheEnd, MapsFollowRequests, ClientsOK,
       ClientOK, SentAddressed, ReceivedAccepted, NotAhead, SendInOrder, ReceivedFirst

LEMMA OrderStep ==
  TypeOK /\ MapsAgree /\ FanoutWithin /\ OrderInv /\ [Next]_vars => OrderInv'
BY PayloadsDifferStep, ChannelIsTheEndStep, MapsFollowRequestsStep, ClientsOKStep DEF OrderInv

-----------------------------------------------------------------------------
(* The refinement.                                                         *)

LEMMA RefinesInit == Init => Contract!Init
BY DEF Init, Contract!Init

\* The event popped is the next broadcast for its client: everything received
\* before has a smaller position.
LEMMA WriteFrameDelivers ==
  ASSUME TypeOK, OrderInv, NEW c \in Client, WriteFrame(c)
  PROVE  UNCHANGED Contract!vars \/ \E i \in DOMAIN accepted : Contract!Deliver(c, i)
<1>1. UNCHANGED <<asked, accepted>> /\ send[c] \in Seq(Frame) /\ send[c] # <<>>
  BY DEF TypeOK, WriteFrame, readVars, queueVars
<1>2. CASE Head(send[c]).Type # "event"
  BY <1>1, <1>2 DEF WriteFrame, Contract!vars
<1>3. CASE Head(send[c]).Type = "event"
  <2>1. 1 \in DOMAIN send[c] /\ Head(send[c]) = send[c][1]
    BY <1>1
  <2>2. PICK i \in DOMAIN accepted :
          Head(send[c]) = Event(accepted[i].Message) /\ Addressed(c, accepted[i])
    BY <1>3, <2>1 DEF OrderInv, ClientsOK, ClientOK, SentAddressed
  <2>3. Holds(c, i)
    BY <2>1, <2>2 DEF Holds
  <2>4. \A j \in DOMAIN accepted : Has(c, j) => j < i
    BY <2>3 DEF OrderInv, ClientsOK, ClientOK, ReceivedFirst
  <2>5. received' = [received EXCEPT ![c] = Append(@, accepted[i].Message)]
    <3>1. Head(send[c]).Body = accepted[i].Message
      BY <2>2 DEF Event
    <3> QED
      BY <1>3, <3>1 DEF WriteFrame
  <2> QED
    BY <1>1, <2>2, <2>4, <2>5 DEF Contract!Deliver, Contract!Addressed, Contract!Has, Addressed, Has
<1> QED
  BY <1>2, <1>3

LEMMA RefinesStep ==
  TypeOK /\ OrderInv /\ [Next]_vars => [Contract!Next]_(Contract!vars)
<1> SUFFICES ASSUME TypeOK, OrderInv, [Next]_vars
             PROVE  Contract!Next \/ UNCHANGED Contract!vars
  OBVIOUS
<1>1. CASE UNCHANGED <<asked, accepted, received>>
  BY <1>1 DEF Contract!vars
<1>2. ASSUME NEW m \in callers, Enqueue(m) PROVE Contract!Next
  BY <1>2 DEF TypeOK, OrderInv, PayloadsDiffer, Enqueue, readVars, writeVars,
     BroadcastMessage, Contract!Next, Contract!Accept, Contract!BroadcastMessage
<1>3. ASSUME NEW c \in Client, WriteFrame(c) PROVE Contract!Next \/ UNCHANGED Contract!vars
  BY <1>3, WriteFrameDelivers DEF Contract!Next
<1>4. ASSUME NEW c \in Client, NEW t \in Topic, HandleSubscribe(c, t) PROVE Contract!Next
  BY <1>4 DEF HandleSubscribe, Receive, queueVars, writeVars, Contract!Next, Contract!Ask
<1> QED
  BY <1>1, <1>2, <1>3, <1>4, OrderSteps
     DEF Apart, Call, Dispatch, Offer, Evict, SendMessage, WriteError, WriterReturn,
         queueVars, readVars, writeVars

\* The hub implements the multicast contract: a peer receives each broadcast at
\* most once, in the order the broadcast channel accepted them, and only those
\* for everybody, for its user or for a topic it asked for.
THEOREM ImplementsCorrect == Spec => Implements
<1>1. Init => MapsAgree /\ FanoutWithin
  BY DEF Init, MapsAgree, FanoutWithin
<1>2. TypeOK /\ MapsAgree /\ FanoutWithin /\ OrderInv /\ [Next]_vars
      => (MapsAgree /\ FanoutWithin /\ OrderInv)'
  BY MapsAgreeStep, FanoutWithinStep, OrderStep
<1> QED
  BY <1>1, <1>2, TypeCorrect, OrderInit, RefinesInit, RefinesStep, PTL
     DEF Spec, Implements, Contract!Spec
=============================================================================
