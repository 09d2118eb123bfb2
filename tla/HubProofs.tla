----------------------------- MODULE HubProofs -----------------------------
(***************************************************************************)
(* The safety invariants of the WebSocket hub, proved for every set of     *)
(* clients, topics, users and payloads and every channel capacity.         *)
(***************************************************************************)
EXTENDS HubProps, TLAPS

USE HubAssumption

-----------------------------------------------------------------------------
(* The targets of a broadcast.                                             *)

LEMMA TargetsType ==
  ASSUME TypeOK, NEW m \in BroadcastMessage
  PROVE  Targets(m) \subseteq Client
BY DEF TypeOK, Targets, Scope, BroadcastMessage

-----------------------------------------------------------------------------
(* Types.                                                                  *)

LEMMA TypeInit == Init => TypeOK
BY DEF Init, TypeOK

LEMMA TypeStep == TypeOK /\ [Next]_vars => TypeOK'
<1> SUFFICES ASSUME TypeOK, [Next]_vars PROVE TypeOK'
  OBVIOUS
<1> USE DEF TypeOK, hubVars, mapVars, queueVars, readVars, writeVars, chanVars
<1>1. ASSUME NEW c \in Client, HandleWebSocket(c) PROVE TypeOK'
  BY <1>1 DEF HandleWebSocket
<1>2. ASSUME NEW c \in Client, NEW t \in Topic, HandleSubscribe(c, t) PROVE TypeOK'
  BY <1>2 DEF HandleSubscribe, Receive, Request
<1>3. ASSUME NEW c \in Client, NEW t \in Topic, HandleUnsubscribe(c, t) PROVE TypeOK'
  BY <1>3 DEF HandleUnsubscribe, Receive, Request
<1>4. ASSUME NEW c \in Client, SendMessage(c) PROVE TypeOK'
  BY <1>4 DEF SendMessage, Frame
<1>5. ASSUME NEW c \in Client, ReadError(c) PROVE TypeOK'
  BY <1>5 DEF ReadError
<1>6. ASSUME NEW c \in Client, ReaderExit(c) PROVE TypeOK'
  BY <1>6 DEF ReaderExit
<1>7. ASSUME NEW c \in Client, WriteFrame(c) PROVE TypeOK'
  <2>1. send[c] # <<>> /\ send[c] \in Seq(Frame)
    BY <1>7 DEF WriteFrame
  <2>2. /\ Tail(send[c]) \in Seq(Frame)
        /\ Len(Tail(send[c])) <= SendCap
        /\ Head(send[c]) \in Frame
    BY <2>1
  <2>3. received' \in [Client -> Seq(Payload)]
    BY <1>7, <2>2 DEF WriteFrame, Frame, Request
  <2> QED
    BY <1>7, <2>2, <2>3 DEF WriteFrame
<1>8. ASSUME NEW c \in Client, WriteError(c) PROVE TypeOK'
  BY <1>8 DEF WriteError, WriterReturn
<1>9. ASSUME NEW c \in Client, PingError(c) PROVE TypeOK'
  BY <1>9 DEF PingError, WriterReturn
<1>10. ASSUME NEW c \in Client, WriterSeesClose(c) PROVE TypeOK'
  BY <1>10 DEF WriterSeesClose, WriterReturn
<1>11. ASSUME NEW m \in BroadcastMessage, Call(m) PROVE TypeOK'
  BY <1>11 DEF Call
<1>12. ASSUME NEW m \in callers, Enqueue(m) PROVE TypeOK'
  BY <1>12 DEF Enqueue
<1>13. ASSUME RunStart PROVE TypeOK'
  BY <1>13 DEF RunStart
<1>14. ASSUME Dispatch PROVE TypeOK'
  <2>1. Head(broadcast) \in BroadcastMessage /\ Tail(broadcast) \in Seq(BroadcastMessage)
    BY <1>14 DEF Dispatch
  <2>2. todo' \in SUBSET Client
    BY <1>14, <2>1, TargetsType DEF Dispatch
  <2> QED
    BY <1>14, <2>1, <2>2 DEF Dispatch
<1>15. ASSUME FanoutEnd PROVE TypeOK'
  BY <1>15 DEF FanoutEnd
<1>16. ASSUME RunStop PROVE TypeOK'
  BY <1>16 DEF RunStop
<1>17. ASSUME NEW c \in Client, Register(c) PROVE TypeOK'
  BY <1>17 DEF Register, AddToMaps
<1>18. ASSUME NEW c \in Client, Unregister(c) PROVE TypeOK'
  BY <1>18 DEF Unregister, RemoveFromMaps
<1>19. ASSUME NEW c \in Client, Offer(c) PROVE TypeOK'
  BY <1>19 DEF Offer, Event, Frame, BroadcastMessage
<1>20. ASSUME NEW c \in Client, Evict(c) PROVE TypeOK'
  BY <1>20 DEF Evict, DropTarget
<1>21. ASSUME NEW c \in Client, OfferToClosed(c) PROVE TypeOK'
  BY <1>21 DEF OfferToClosed
<1>22. ASSUME Cancel PROVE TypeOK'
  BY <1>22 DEF Cancel
<1>23. ASSUME CloseAll PROVE TypeOK'
  BY <1>23 DEF CloseAll
<1>24. ASSUME UNCHANGED vars PROVE TypeOK'
  BY <1>24 DEF vars
<1>25. ASSUME Caller PROVE TypeOK'
  <2>1. ASSUME NEW p \in Payload, NEW t \in Topic, Broadcast(t, p) PROVE TypeOK'
    BY <2>1, <1>11 DEF Broadcast, BroadcastMessage
  <2>2. ASSUME NEW p \in Payload, NEW u \in User \cup {Empty}, BroadcastToUser(u, p) PROVE TypeOK'
    BY <2>2, <1>11 DEF BroadcastToUser, BroadcastMessage
  <2>3. ASSUME NEW p \in Payload, BroadcastToAll(p) PROVE TypeOK'
    BY <2>3, <1>11 DEF BroadcastToAll, BroadcastMessage
  <2> QED
    BY <1>12, <1>25, <2>1, <2>2, <2>3 DEF Caller
<1> QED
  BY <1>1, <1>2, <1>3, <1>4, <1>5, <1>6, <1>7, <1>8, <1>9, <1>10, <1>13, <1>14,
     <1>15, <1>16, <1>17, <1>18, <1>19, <1>20, <1>21, <1>22, <1>23, <1>24, <1>25
     DEF Next, Reader, Writer, Run, Fanout

\* Every variable keeps its type, and no send or broadcast channel ever holds
\* more than its capacity.
THEOREM TypeCorrect == Spec => []TypeOK
BY TypeInit, TypeStep, PTL DEF Spec

-----------------------------------------------------------------------------
(* The maps.                                                               *)

\* Only three actions touch the hub's maps or close a send channel.
LEMMA MapSteps ==
  ASSUME [Next]_vars
  PROVE  \/ UNCHANGED <<mapVars, sendClosed>>
         \/ \E c \in Client : Register(c) \/ Unregister(c) \/ Evict(c)
BY DEF Next, Reader, Writer, Caller, Run, Fanout, vars, hubVars, mapVars,
       queueVars, readVars, writeVars, chanVars, HandleWebSocket,
       HandleSubscribe, HandleUnsubscribe, Receive, SendMessage, ReadError,
       ReaderExit, WriteFrame, WriteError, PingError, WriterSeesClose,
       WriterReturn, Broadcast, BroadcastToUser, BroadcastToAll, Call, Enqueue,
       RunStart, Dispatch, Offer, OfferToClosed, FanoutEnd, Cancel, RunStop,
       CloseAll

LEMMA MapsAgreeStep == TypeOK /\ MapsAgree /\ [Next]_vars => MapsAgree'
<1> SUFFICES ASSUME TypeOK, MapsAgree, [Next]_vars PROVE MapsAgree'
  OBVIOUS
<1> USE DEF TypeOK, MapsAgree
<1>1. CASE UNCHANGED <<mapVars, sendClosed>>
  BY <1>1 DEF mapVars, IsUser
<1>2. ASSUME NEW c \in Client, Register(c) PROVE MapsAgree'
  BY <1>2 DEF Register, AddToMaps, IsUser, chanVars, Request
<1>3. ASSUME NEW c \in Client, Unregister(c) PROVE MapsAgree'
  BY <1>3 DEF Unregister, RemoveFromMaps, IsUser
<1>4. ASSUME NEW c \in Client, Evict(c) PROVE MapsAgree'
  BY <1>4 DEF Evict, DropTarget, IsUser
<1> QED
  BY <1>1, <1>2, <1>3, <1>4, MapSteps

\* The map of all clients, the topics' maps and the users' maps agree on every
\* client whose channel is open, whatever was registered, unregistered or
\* evicted before.
THEOREM MapsAgreeCorrect == Spec => []MapsAgree
<1>1. Init => MapsAgree
  BY DEF Init, MapsAgree
<1> QED
  BY <1>1, TypeCorrect, MapsAgreeStep, PTL DEF Spec

-----------------------------------------------------------------------------
(* Subscriptions.                                                          *)

\* Only readPump edits its client's subscriptions, its request and, but for
\* the answers of the hub, its own position.
LEMMA ReaderSteps ==
  ASSUME [Next]_vars
  PROVE  \/ UNCHANGED <<reader, request, subscriptions>>
         \/ \E c \in Client : Register(c) \/ Unregister(c) \/ Reader(c) \/ HandleWebSocket(c)
BY DEF Next, Writer, Caller, Run, Fanout, vars, hubVars, mapVars, queueVars,
       readVars, writeVars, chanVars, WriteFrame, WriteError, PingError,
       WriterSeesClose, WriterReturn, Broadcast, BroadcastToUser,
       BroadcastToAll, Call, Enqueue, RunStart, Dispatch, Offer, Evict,
       OfferToClosed, FanoutEnd, Cancel, RunStop, CloseAll

\* readPump itself leaves the maps and the channels' state alone.
LEMMA ReaderKeepsMaps ==
  ASSUME NEW c \in Client, Reader(c)
  PROVE  UNCHANGED <<mapVars, sendClosed, hubVars>>
BY DEF Reader, HandleSubscribe, HandleUnsubscribe, Receive, SendMessage,
       ReadError, ReaderExit, mapVars, chanVars, hubVars

\* A connection that was never opened has no goroutine.
NotOpened ==
  \A c \in Client : conn[c] = "none" => reader[c] = "none" /\ writer[c] = "none"

LEMMA NotOpenedStep == TypeOK /\ NotOpened /\ [Next]_vars => NotOpened'
<1> SUFFICES ASSUME TypeOK, NotOpened, [Next]_vars PROVE NotOpened'
  OBVIOUS
<1> USE DEF TypeOK, NotOpened
<1>1. ASSUME NEW c \in Client, HandleWebSocket(c) PROVE NotOpened'
  BY <1>1 DEF HandleWebSocket
<1>2. ASSUME NEW c \in Client, Reader(c) PROVE NotOpened'
  <2>1. CASE ReaderExit(c)
    BY <2>1 DEF ReaderExit, writeVars
  <2> QED
    BY <1>2, <2>1 DEF Reader, HandleSubscribe, HandleUnsubscribe, Receive,
                      SendMessage, ReadError, writeVars
<1>3. ASSUME NEW c \in Client, Writer(c) PROVE NotOpened'
  BY <1>3 DEF Writer, WriteFrame, WriteError, PingError, WriterSeesClose,
              WriterReturn, readVars
<1>4. ASSUME NEW c \in Client, Register(c) \/ Unregister(c) PROVE NotOpened'
  BY <1>4 DEF Register, Unregister, writeVars
<1>5. CASE CloseAll
  BY <1>5 DEF CloseAll, readVars, writeVars
<1>6. CASE UNCHANGED <<conn, reader, writer>>
  BY <1>6
<1>7. \/ UNCHANGED <<conn, reader, writer>>
      \/ CloseAll
      \/ \E c \in Client : \/ HandleWebSocket(c) \/ Reader(c) \/ Writer(c)
                         \/ Register(c) \/ Unregister(c)
  BY DEF Next, Caller, Run, Fanout, vars, readVars, writeVars, Broadcast,
         BroadcastToUser, BroadcastToAll, Call, Enqueue, RunStart, Dispatch,
         Offer, Evict, OfferToClosed, FanoutEnd, Cancel, RunStop
<1> QED
  BY <1>1, <1>2, <1>3, <1>4, <1>5, <1>6, <1>7

LEMMA SubscriptionsRegisteredStep ==
  TypeOK /\ NotOpened /\ SubscriptionsRegistered /\ [Next]_vars => SubscriptionsRegistered'
<1> SUFFICES ASSUME TypeOK, NotOpened, SubscriptionsRegistered, [Next]_vars
             PROVE  SubscriptionsRegistered'
  OBVIOUS
<1> USE DEF TypeOK, SubscriptionsRegistered
<1>1. ASSUME NEW c \in Client, Register(c) PROVE SubscriptionsRegistered'
  BY <1>1 DEF Register, AddToMaps, chanVars, Request
<1>2. ASSUME NEW c \in Client, Unregister(c) PROVE SubscriptionsRegistered'
  BY <1>2 DEF Unregister, RemoveFromMaps
<1>3. ASSUME NEW c \in Client, Evict(c) PROVE SubscriptionsRegistered'
  BY <1>3 DEF Evict, DropTarget, readVars
<1>4. ASSUME NEW c \in Client, HandleWebSocket(c) PROVE SubscriptionsRegistered'
  BY <1>4 DEF HandleWebSocket, mapVars, chanVars, NotOpened
<1>5. ASSUME NEW c \in Client, Reader(c) PROVE SubscriptionsRegistered'
  <2>1. UNCHANGED <<clients, sendClosed>>
    BY <1>5, ReaderKeepsMaps DEF mapVars
  <2>2. ASSUME NEW t \in Topic, HandleSubscribe(c, t) PROVE SubscriptionsRegistered'
    BY <2>1, <2>2 DEF HandleSubscribe, Receive
  <2>3. ASSUME NEW t \in Topic, HandleUnsubscribe(c, t) PROVE SubscriptionsRegistered'
    BY <2>1, <2>3 DEF HandleUnsubscribe, Receive
  <2>4. CASE SendMessage(c)
    BY <2>1, <2>4 DEF SendMessage
  <2>5. CASE ReadError(c) \/ ReaderExit(c)
    BY <2>1, <2>5 DEF ReadError, ReaderExit
  <2> QED
    BY <1>5, <2>2, <2>3, <2>4, <2>5 DEF Reader
<1>6. CASE UNCHANGED <<reader, request, subscriptions, mapVars, sendClosed>>
  BY <1>6 DEF mapVars
<1> QED
  BY <1>1, <1>2, <1>3, <1>4, <1>5, <1>6, MapSteps, ReaderSteps

\* Until the hub closes its channel, a client is in the map of every topic it
\* believes it is subscribed to, or its registration is the one on its way.
THEOREM SubscriptionsRegisteredCorrect == Spec => []SubscriptionsRegistered
<1>1. Init => NotOpened /\ SubscriptionsRegistered
  BY DEF Init, NotOpened, SubscriptionsRegistered
<1> QED
  BY <1>1, TypeCorrect, NotOpenedStep, SubscriptionsRegisteredStep, PTL DEF Spec

-----------------------------------------------------------------------------
(* Unregistered clients.                                                   *)

LEMMA UnregisteredIsGoneStep ==
  TypeOK /\ UnregisteredIsGone /\ [Next]_vars => UnregisteredIsGone'
<1> SUFFICES ASSUME TypeOK, UnregisteredIsGone, [Next]_vars
             PROVE  UnregisteredIsGone'
  OBVIOUS
<1> USE DEF TypeOK, UnregisteredIsGone, Unregistered, Leftover
<1>1. ASSUME NEW c \in Client, Register(c) PROVE UnregisteredIsGone'
  BY <1>1 DEF Register, AddToMaps, IsUser, Request
<1>2. ASSUME NEW c \in Client, Unregister(c) PROVE UnregisteredIsGone'
  BY <1>2 DEF Unregister, RemoveFromMaps
<1>3. ASSUME NEW c \in Client, Evict(c) PROVE UnregisteredIsGone'
  BY <1>3 DEF Evict, DropTarget, readVars
<1>4. ASSUME NEW c \in Client, HandleWebSocket(c) PROVE UnregisteredIsGone'
  BY <1>4 DEF HandleWebSocket, mapVars
<1>5. ASSUME NEW c \in Client, Reader(c) PROVE UnregisteredIsGone'
  <2>1. UNCHANGED mapVars
    BY <1>5, ReaderKeepsMaps
  <2>2. ASSUME NEW t \in Topic, HandleSubscribe(c, t) PROVE UnregisteredIsGone'
    BY <2>1, <2>2 DEF HandleSubscribe, Receive, mapVars
  <2>3. ASSUME NEW t \in Topic, HandleUnsubscribe(c, t) PROVE UnregisteredIsGone'
    BY <2>1, <2>3 DEF HandleUnsubscribe, Receive, mapVars
  <2>4. CASE SendMessage(c)
    BY <2>1, <2>4 DEF SendMessage, mapVars
  <2>5. CASE ReadError(c)
    BY <2>1, <2>5 DEF ReadError, mapVars
  <2>6. CASE ReaderExit(c)
    BY <2>1, <2>6 DEF ReaderExit, mapVars
  <2> QED
    BY <1>5, <2>2, <2>3, <2>4, <2>5, <2>6 DEF Reader
<1>6. CASE UNCHANGED <<reader, request, subscriptions, mapVars, sendClosed>>
  BY <1>6 DEF mapVars
<1> QED
  BY <1>1, <1>2, <1>3, <1>4, <1>5, <1>6, MapSteps, ReaderSteps

\* A client that has been unregistered is in no map but those of the topics it
\* unsubscribed from before.
THEOREM UnregisteredIsGoneCorrect == Spec => []UnregisteredIsGone
<1>1. Init => UnregisteredIsGone
  BY DEF Init, UnregisteredIsGone, Unregistered
<1> QED
  BY <1>1, TypeCorrect, UnregisteredIsGoneStep, PTL DEF Spec

-----------------------------------------------------------------------------
(* Panics.                                                                 *)

\* The targets left of a fan-out are still in the map it goes through.
FanoutWithin == hub = "fanout" => todo \subseteq Targets(fan)

LEMMA FanoutSteps ==
  ASSUME [Next]_vars
  PROVE  \/ UNCHANGED <<hubVars, mapVars>>
         \/ hub' = "fanout" /\ (Dispatch \/ \E c \in Client : Offer(c) \/ Evict(c))
         \/ hub' # "fanout"
BY DEF Next, Reader, Writer, Caller, Run, Fanout, vars, hubVars, mapVars,
       queueVars, readVars, writeVars, chanVars, HandleWebSocket,
       HandleSubscribe, HandleUnsubscribe, Receive, SendMessage, ReadError,
       ReaderExit, WriteFrame, WriteError, PingError, WriterSeesClose,
       WriterReturn, Broadcast, BroadcastToUser, BroadcastToAll, Call, Enqueue,
       RunStart, Register, Unregister, OfferToClosed, FanoutEnd, Cancel, RunStop,
       CloseAll

\* While a broadcast is fanned out, an eviction takes its client out of the
\* targets and leaves the other targets as they were.
LEMMA EvictTargets ==
  ASSUME TypeOK, NEW c \in Client, Evict(c)
  PROVE  Targets(fan)' = Targets(fan) \ {c}
<1>1. fan \in BroadcastMessage /\ fan' = fan
  BY DEF TypeOK, Evict
<1> QED
  BY <1>1 DEF TypeOK, Evict, DropTarget, Targets, Scope, BroadcastMessage

LEMMA FanoutWithinStep == TypeOK /\ FanoutWithin /\ [Next]_vars => FanoutWithin'
<1> SUFFICES ASSUME TypeOK, FanoutWithin, [Next]_vars PROVE FanoutWithin'
  OBVIOUS
<1> USE DEF FanoutWithin
<1>1. CASE UNCHANGED <<hubVars, mapVars>>
  BY <1>1 DEF hubVars, mapVars, Targets, Scope
<1>2. CASE Dispatch
  BY <1>2 DEF Dispatch, mapVars, Targets, Scope
<1>3. ASSUME NEW c \in Client, Offer(c) PROVE FanoutWithin'
  BY <1>3 DEF Offer, mapVars, Targets, Scope
<1>4. ASSUME NEW c \in Client, Evict(c) PROVE FanoutWithin'
  BY <1>4, EvictTargets DEF Evict
<1> QED
  BY <1>1, <1>2, <1>3, <1>4, FanoutSteps

LEMMA PanicStep ==
  TypeOK /\ UnregisteredIsGone /\ FanoutWithin /\ PanicHasTwoCauses /\ [Next]_vars
    => PanicHasTwoCauses'
<1> SUFFICES ASSUME TypeOK, UnregisteredIsGone, FanoutWithin, PanicHasTwoCauses,
                    [Next]_vars, hub' = "panicked"
             PROVE  \E c \in Client :
                      (sendClosed[c] /\ (Evicted(c) \/ \E t \in Topic : Leftover(c, t)))'
  BY DEF PanicHasTwoCauses
<1>1. ASSUME NEW c \in Client, Unregister(c)
      PROVE  sendClosed'[c] /\ Evicted(c)'
  BY <1>1 DEF Unregister, Evicted, Unregistered, TypeOK
<1>2. ASSUME NEW c \in Client, OfferToClosed(c)
      PROVE  (sendClosed[c] /\ (Evicted(c) \/ \E t \in Topic : Leftover(c, t)))'
  <2>1. c \in Targets(fan) /\ fan \in BroadcastMessage /\ sendClosed[c]
    BY <1>2 DEF OfferToClosed, FanoutWithin, TypeOK
  <2>2. Unregistered(c) => \E t \in Topic : Leftover(c, t)
    BY <2>1 DEF UnregisteredIsGone, Targets, Scope, BroadcastMessage
  <2>3. UNCHANGED <<sendClosed, reader, clients, subscriptions>>
    BY <1>2 DEF OfferToClosed, chanVars, readVars, mapVars
  <2> QED
    BY <2>1, <2>2, <2>3 DEF Evicted, Unregistered, Leftover
<1>3. CASE UNCHANGED vars
  BY <1>3 DEF PanicHasTwoCauses, vars, hubVars, mapVars, readVars, chanVars,
              Evicted, Unregistered, Leftover
<1>4. CASE Next
  <2>1. hub # "panicked"
    BY <1>4 DEF Next
  <2>2. \E c \in Client : Unregister(c) \/ OfferToClosed(c)
    BY <1>4, <2>1 DEF Next, Reader, Writer, Caller, Run, Fanout, hubVars,
       HandleWebSocket, HandleSubscribe, HandleUnsubscribe, Receive,
       SendMessage, ReadError, ReaderExit, WriteFrame, WriteError, PingError,
       WriterSeesClose, WriterReturn, Broadcast, BroadcastToUser,
       BroadcastToAll, Call, Enqueue, RunStart, Register, Dispatch, Offer,
       Evict, FanoutEnd, Cancel, RunStop, CloseAll
  <2> QED
    BY <1>1, <1>2, <2>2
<1> QED
  BY <1>3, <1>4

\* Whatever the connections do, Run panics for no reason but the two the code
\* has: a client evicted for a full channel that is not gone yet, or a client
\* that is gone and was left behind in the map of a topic it unsubscribed from.
THEOREM PanicHasTwoCausesCorrect == Spec => []PanicHasTwoCauses
<1>1. Init => FanoutWithin /\ PanicHasTwoCauses
  BY DEF Init, FanoutWithin, PanicHasTwoCauses
<1> QED
  BY <1>1, TypeCorrect, UnregisteredIsGoneCorrect, FanoutWithinStep, PanicStep, PTL DEF Spec

-----------------------------------------------------------------------------
(* Fan-out.                                                                *)

LEMMA AppendKeeps ==
  ASSUME NEW S, NEW s \in Seq(S), NEW e \in S
  PROVE  /\ \A i \in DOMAIN s : i \in DOMAIN Append(s, e) /\ Append(s, e)[i] = s[i]
         /\ Len(s) + 1 \in DOMAIN Append(s, e) /\ Append(s, e)[Len(s) + 1] = e
OBVIOUS

LEMMA PopKeepsTheRest ==
  ASSUME NEW S, NEW s \in Seq(S), s # <<>>, NEW i \in DOMAIN s
  PROVE  s[i] = Head(s) \/ (i - 1 \in DOMAIN Tail(s) /\ Tail(s)[i - 1] = s[i])
OBVIOUS

\* c holds message p, got it, or has lost its writePump.
Reached(c, p) ==
  \/ writer[c] = "done"
  \/ \E i \in DOMAIN send[c] : send[c][i] = Event(p)
  \/ \E i \in DOMAIN received[c] : received[c][i] = p

\* What writePump pops it delivers, or it ends.
LEMMA WriterKeepsReached ==
  ASSUME TypeOK, NEW c \in Client, NEW p \in Payload, NEW d \in Client, Writer(d),
         Reached(c, p)
  PROVE  Reached(c, p)'
<1> USE DEF TypeOK, Reached
<1>1. CASE d # c
  BY <1>1 DEF Writer, WriteFrame, WriteError, PingError, WriterSeesClose, WriterReturn
<1>2. CASE d = c /\ WriteFrame(d)
  <2>1. CASE \E i \in DOMAIN received[c] : received[c][i] = p
    <3>1. PICK i \in DOMAIN received[c] : received[c][i] = p
      BY <2>1
    <3>2. Head(send[c]) \in Frame
      BY <1>2 DEF WriteFrame
    <3>3. CASE Head(send[c]).Type = "event"
      <4>1. Head(send[c]).Body \in Payload
        BY <3>2, <3>3 DEF Frame, Request
      <4>2. received'[c] = Append(received[c], Head(send[c]).Body)
        BY <1>2, <3>3 DEF WriteFrame
      <4> QED
        BY <3>1, <4>1, <4>2, AppendKeeps
    <3>4. CASE Head(send[c]).Type # "event"
      BY <1>2, <3>1, <3>4 DEF WriteFrame
    <3> QED
      BY <3>3, <3>4
  <2>2. CASE \E i \in DOMAIN send[c] : send[c][i] = Event(p)
    <3>1. PICK i \in DOMAIN send[c] : send[c][i] = Event(p)
      BY <2>2
    <3>2. send[c] \in Seq(Frame) /\ send[c] # <<>> /\ send'[c] = Tail(send[c])
      BY <1>2 DEF WriteFrame
    <3>3. CASE i - 1 \in DOMAIN Tail(send[c]) /\ Tail(send[c])[i - 1] = send[c][i]
      BY <3>1, <3>2, <3>3
    <3>4. CASE Head(send[c]) = Event(p)
      <4>1. received'[c] = Append(received[c], p)
        BY <1>2, <3>4 DEF WriteFrame, Event
      <4>2. received[c] \in Seq(Payload)
        OBVIOUS
      <4>3. /\ Len(received[c]) + 1 \in DOMAIN Append(received[c], p)
            /\ Append(received[c], p)[Len(received[c]) + 1] = p
        BY <4>2, AppendKeeps
      <4> QED
        BY <4>1, <4>3
    <3> QED
      BY <3>1, <3>2, <3>3, <3>4, PopKeepsTheRest
  <2>3. CASE writer[c] = "done"
    BY <1>2, <2>3 DEF WriteFrame
  <2> QED
    BY <2>1, <2>2, <2>3
<1>3. CASE d = c /\ (WriteError(d) \/ PingError(d) \/ WriterSeesClose(d))
  BY <1>3 DEF WriteError, PingError, WriterSeesClose, WriterReturn
<1> QED
  BY <1>1, <1>2, <1>3 DEF Writer

\* The other senders only append to a client's channel.
LEMMA SendKeepsReached ==
  ASSUME TypeOK, NEW c \in Client, NEW p \in Payload, NEW d \in Client,
         SendMessage(d) \/ Offer(d), Reached(c, p)
  PROVE  Reached(c, p)'
<1>1. \/ send'[c] = send[c]
      \/ \E e : send'[c] = Append(send[c], e)
  <2>1. \/ send' = send
        \/ send' = [send EXCEPT ![d] = Append(@, request[d])]
        \/ send' = [send EXCEPT ![d] = Append(@, Event(fan.Message))]
    BY DEF SendMessage, Offer
  <2>2. ASSUME NEW e, send' = [send EXCEPT ![d] = Append(@, e)]
        PROVE  send'[c] = send[c] \/ send'[c] = Append(send[c], e)
    BY <2>2 DEF TypeOK
  <2> QED
    BY <2>1, <2>2
<1>2. UNCHANGED <<writer, received>>
  BY DEF SendMessage, Offer, writeVars
<1>3. send[c] \in Seq(Frame) 
  BY DEF TypeOK
<1>4. \A i \in DOMAIN send[c] : i \in DOMAIN send'[c] /\ send'[c][i] = send[c][i]
  BY <1>1, <1>3
<1> QED
  BY <1>2, <1>4 DEF Reached

LEMMA FanoutReachesAllStep ==
  TypeOK /\ NotOpened /\ FanoutWithin /\ FanoutReachesAll /\ [Next]_vars
    => FanoutReachesAll'
<1> SUFFICES ASSUME TypeOK, NotOpened, FanoutWithin, FanoutReachesAll, [Next]_vars
             PROVE  FanoutReachesAll'
  OBVIOUS
<1>0. hub' = "fanout" => Targets(fan)' \subseteq Client
  <2>1. TypeOK'
    BY TypeStep
  <2> QED
    BY <2>1 DEF TypeOK, Targets, Scope, BroadcastMessage
<1> SUFFICES ASSUME hub' = "fanout", NEW c \in Client, (c \in Targets(fan) \ todo)'
             PROVE  Reached(c, fan.Message)'
  BY <1>0 DEF FanoutReachesAll, Reached
<1>1. CASE Dispatch
  <2>1. Targets(fan)' = todo'
    BY <1>1 DEF Dispatch, mapVars, Targets, Scope
  <2> QED
    BY <2>1
<1>2. ASSUME NEW d \in Client, Offer(d) PROVE Reached(c, fan.Message)'
  <2>1. fan' = fan /\ fan \in BroadcastMessage /\ Targets(fan)' = Targets(fan)
    BY <1>2 DEF Offer, mapVars, Targets, Scope, TypeOK
  <2>2. CASE c = d
    <3>1. Event(fan.Message) \in Frame
      BY <2>1 DEF Event, Frame, BroadcastMessage
    <3>2. send'[c] = Append(send[c], Event(fan.Message)) /\ send[c] \in Seq(Frame)
      BY <1>2, <2>2 DEF Offer, TypeOK
    <3> QED
      BY <2>1, <3>1, <3>2, AppendKeeps DEF Reached
  <2>3. CASE c # d
    <3>1. c \in Targets(fan) \ todo /\ fan.Message \in Payload /\ hub = "fanout"
      BY <1>2, <2>1, <2>3 DEF Offer, BroadcastMessage
    <3>2. Reached(c, fan.Message)
      BY <3>1 DEF FanoutReachesAll, Reached
    <3> QED
      BY <1>2, <2>1, <3>1, <3>2, SendKeepsReached DEF Reached
  <2> QED
    BY <2>2, <2>3
<1>3. ASSUME NEW d \in Client, Evict(d) PROVE Reached(c, fan.Message)'
  <2>1. c \in Targets(fan) \ todo /\ hub = "fanout"
    BY <1>3, EvictTargets DEF Evict
  <2> QED
    BY <1>3, <2>1 DEF Evict, writeVars, FanoutReachesAll, Reached
<1>4. CASE UNCHANGED <<hubVars, mapVars>>
  <2>1. c \in Targets(fan) \ todo /\ hub = "fanout" /\ fan' = fan
    BY <1>4 DEF hubVars, mapVars, Targets, Scope
  <2>2. Reached(c, fan.Message) /\ fan.Message \in Payload
    BY <2>1 DEF FanoutReachesAll, Reached, TypeOK, BroadcastMessage
  <2>3. \/ UNCHANGED <<send, writer, received>>
        \/ \E d \in Client : \/ Writer(d) \/ SendMessage(d) \/ Offer(d)
                           \/ HandleWebSocket(d)
    BY <2>1, <1>4 DEF Next, Reader, Caller, Run, Fanout, vars, hubVars,
       queueVars, readVars, writeVars, chanVars, HandleSubscribe,
       HandleUnsubscribe, Receive, ReadError, ReaderExit, Broadcast,
       BroadcastToUser, BroadcastToAll, Call, Enqueue, RunStart, Register,
       Unregister, Dispatch, Evict, OfferToClosed, FanoutEnd, Cancel, RunStop,
       CloseAll
  <2>4. CASE UNCHANGED <<send, writer, received>>
    BY <2>1, <2>2, <2>4 DEF Reached
  <2>5. ASSUME NEW d \in Client, HandleWebSocket(d)
        PROVE  Reached(c, fan.Message)'
    BY <2>1, <2>2, <2>5 DEF HandleWebSocket, chanVars, Reached, NotOpened, TypeOK
  <2> QED
    BY <2>1, <2>2, <2>3, <2>4, <2>5, WriterKeepsReached, SendKeepsReached DEF Reached
<1> QED
  BY <1>1, <1>2, <1>3, <1>4, FanoutSteps

\* A fan-out that passes a target by has left it the message, or the target has
\* no writePump any more.
THEOREM FanoutReachesAllCorrect == Spec => []FanoutReachesAll
<1>1. Init => NotOpened /\ FanoutWithin /\ FanoutReachesAll
  BY DEF Init, NotOpened, FanoutWithin, FanoutReachesAll
<1> QED
  BY <1>1, TypeCorrect, NotOpenedStep, FanoutWithinStep, FanoutReachesAllStep, PTL DEF Spec
=============================================================================
