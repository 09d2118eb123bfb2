---------------------------- MODULE HubDelivery ----------------------------
(***************************************************************************)
(* Delivery has no gaps: the half of the hub's promise that the multicast  *)
(* contract leaves open, for every set of clients, topics, users and       *)
(* payloads and every channel capacity.                                    *)
(*                                                                         *)
(* The argument: while a client's send channel is open it stays in every   *)
(* map it was in, so whoever got a broadcast is a target of those that     *)
(* follow it; what a client got it keeps, until its writePump ends.        *)
(***************************************************************************)
EXTENDS HubRefinement

Got(c, i) == Has(c, i) \/ Holds(c, i)

\* A fan-out that is over has no targets left.
NoTargetsLeft == hub \notin {"fanout", "panicked"} => todo = {}

\* Whoever got a broadcast is still in the map it went through.
StaysTargeted ==
  \A c \in Client : ~sendClosed[c] =>
    \A i \in DOMAIN accepted : Got(c, i) => c \in Targets(accepted[i])

DeliveryInv == OrderInv /\ NoTargetsLeft /\ StaysTargeted /\ NoGaps

\* What the hub's other invariants say, together.
Context == TypeOK /\ NotOpened /\ MapsAgree /\ FanoutWithin

-----------------------------------------------------------------------------
(* The maps and the targets.                                               *)

\* Whoever m went to is a target of what follows it, while its channel is open.
LEMMA FollowsIsTarget ==
  ASSUME TypeOK, MapsAgree, NEW c \in Client, ~sendClosed[c],
         NEW m \in BroadcastMessage, NEW n \in BroadcastMessage,
         c \in Targets(m), Follows(c, m, n)
  PROVE  c \in Targets(n)
<1>1. CASE Scope(n) = "topic"
  BY <1>1 DEF Follows, Scope, Targets
<1>2. c \in allClients
  <2>1. CASE Scope(m) = "topic"
    BY <2>1 DEF Scope, Targets, BroadcastMessage, MapsAgree
  <2>2. CASE Scope(m) = "user"
    BY <2>2 DEF Scope, Targets, BroadcastMessage, MapsAgree
  <2>3. CASE Scope(m) = "all"
    BY <2>3 DEF Targets
  <2> QED
    BY <2>1, <2>2, <2>3 DEF Scope
<1>3. CASE Scope(n) = "user"
  BY <1>2, <1>3 DEF Follows, Scope, Targets, BroadcastMessage, MapsAgree
<1>4. CASE Scope(n) = "all"
  BY <1>2, <1>4 DEF Targets
<1> QED
  BY <1>1, <1>3, <1>4 DEF Scope

\* A closed channel stays closed, and only closing it takes a client out of a map.
LEMMA OpenStaysTargeted ==
  ASSUME TypeOK, [Next]_vars, NEW c \in Client, ~sendClosed'[c], NEW m \in BroadcastMessage
  PROVE  ~sendClosed[c] /\ (c \in Targets(m) => c \in Targets(m)')
<1> USE DEF TypeOK, Targets, Scope, BroadcastMessage
<1>1. CASE UNCHANGED <<mapVars, sendClosed>>
  BY <1>1 DEF mapVars
<1>2. ASSUME NEW d \in Client, Register(d) PROVE ~sendClosed[c] /\ (c \in Targets(m) => c \in Targets(m)')
  BY <1>2 DEF Register, AddToMaps, chanVars, Request
<1>3. ASSUME NEW d \in Client, Unregister(d) PROVE ~sendClosed[c] /\ (c \in Targets(m) => c \in Targets(m)')
  BY <1>3 DEF Unregister, RemoveFromMaps
<1>4. ASSUME NEW d \in Client, Evict(d) PROVE ~sendClosed[c] /\ (c \in Targets(m) => c \in Targets(m)')
  BY <1>4 DEF Evict, DropTarget
<1> QED
  BY <1>1, <1>2, <1>3, <1>4, MapSteps

\* The targets of a fan-out are set by Dispatch; they go one by one, by an offer
\* or an eviction.
LEMMA TodoSteps ==
  ASSUME [Next]_vars
  PROVE  \/ Dispatch
         \/ /\ UNCHANGED todo
            /\ todo # {} /\ hub \in {"fanout", "panicked"} => hub' \in {"fanout", "panicked"}
         \/ \E c \in Client : Offer(c) \/ Evict(c)
BY DEF Next, Reader, Writer, Caller, Run, Fanout, vars, hubVars, mapVars,
       queueVars, readVars, writeVars, chanVars, HandleWebSocket,
       HandleSubscribe, HandleUnsubscribe, Receive, SendMessage, ReadError,
       ReaderExit, WriteFrame, WriteError, PingError, WriterSeesClose,
       WriterReturn, Broadcast, BroadcastToUser, BroadcastToAll, Call, Enqueue,
       RunStart, Register, Unregister, OfferToClosed, FanoutEnd, Cancel, RunStop,
       CloseAll

LEMMA NoTargetsLeftStep == NoTargetsLeft /\ [Next]_vars => NoTargetsLeft'
BY TodoSteps DEF NoTargetsLeft, Dispatch, Offer, Evict

-----------------------------------------------------------------------------
(* What a client gets, and keeps.                                          *)

\* Broadcasts keep their positions, and what is new in a client's hands was
\* offered by the fan-out of the last one dispatched.
LEMMA GotIsOffered ==
  ASSUME Context, OrderInv, [Next]_vars, NEW c \in Client,
         NEW i \in DOMAIN accepted', Got(c, i)'
  PROVE  /\ i \in DOMAIN accepted /\ accepted'[i] = accepted[i]
         /\ Got(c, i) \/ (Offer(c) /\ i = Dispatched)
<1> USE DEF Context, Got
<1>0. PayloadsDiffer /\ ChannelIsTheEnd /\ ClientsOK
  BY DEF OrderInv
<1>1. ASSUME NEW m \in callers, Enqueue(m)
      PROVE  i \in DOMAIN accepted /\ accepted'[i] = accepted[i] /\ Got(c, i)
  BY <1>0, <1>1, AcceptedIsNew
<1>2. CASE UNCHANGED accepted /\ send'[c] = send[c] /\ received'[c] = received[c]
  BY <1>2 DEF Has, Holds, Event
<1>3. CASE Offer(c)
  <2>1. UNCHANGED accepted
    BY <1>3 DEF Offer, queueVars
  <2> QED
    BY <1>0, <1>3, <2>1, OfferGives
<1>4. CASE SendMessage(c)
  <2>1. UNCHANGED accepted
    BY <1>4 DEF SendMessage, queueVars
  <2> QED
    BY <1>4, <2>1, ConfirmationGivesNothing
<1>5. CASE WriteFrame(c) \/ WriteError(c)
  <2>1. /\ UNCHANGED accepted
        /\ send[c] \in Seq(Frame) /\ send[c] # <<>>
    BY <1>5 DEF WriteFrame, WriteError, WriterReturn, queueVars, TypeOK
  <2>2. 1 \in DOMAIN send[c] /\ Head(send[c]) = send[c][1]
    BY <2>1
  <2>3. Head(send[c]) = Event(accepted[i].Message) => Holds(c, i)
    BY <2>2 DEF Holds
  <2>4. SentAddressed(c)
    BY <1>0 DEF ClientsOK, ClientOK
  <2> QED
    BY <1>5, <2>1, <2>3, <2>4, PopGivesNothing
<1>6. ASSUME NEW d \in Client, d # c, Offer(d) \/ SendMessage(d) \/ WriteFrame(d) \/ WriteError(d)
      PROVE  UNCHANGED accepted /\ send'[c] = send[c] /\ received'[c] = received[c]
  BY <1>6 DEF TypeOK, Offer, SendMessage, WriteFrame, WriteError, WriterReturn, queueVars, writeVars
<1>7. ASSUME \/ Apart \/ Dispatch
             \/ \E m \in BroadcastMessage : Call(m)
             \/ \E d \in Client : Evict(d) \/ \E t \in Topic : HandleSubscribe(d, t)
      PROVE  UNCHANGED accepted /\ send'[c] = send[c] /\ received'[c] = received[c]
  BY <1>7 DEF Apart, Call, Dispatch, Evict, HandleSubscribe, Receive, queueVars, chanVars, writeVars
<1> QED
  BY <1>1, <1>2, <1>3, <1>4, <1>5, <1>6, <1>7, OrderSteps

\* What a client has been given stays its own until its writePump ends.
LEMMA GotIsKept ==
  ASSUME Context, [Next]_vars, NEW c \in Client, writer'[c] # "done",
         NEW i \in DOMAIN accepted, Got(c, i)
  PROVE  Got(c, i)'
<1> USE DEF Context, Got
<1> DEFINE p == accepted[i].Message
<1>1. /\ p \in Payload /\ accepted'[i] = accepted[i]
  <2>1. accepted[i] \in BroadcastMessage /\ accepted \in Seq(BroadcastMessage)
    BY DEF TypeOK
  <2>2. UNCHANGED accepted \/ \E m \in callers : accepted' = Append(accepted, m)
    BY OrderSteps DEF Apart, Call, Enqueue, Dispatch, Offer, Evict, SendMessage, WriteFrame,
       WriteError, WriterReturn, HandleSubscribe, Receive, queueVars
  <2>3. callers \subseteq BroadcastMessage
    BY DEF TypeOK
  <2> QED
    BY <2>1, <2>2, <2>3 DEF BroadcastMessage
<1>2. Reached(c, p)
  BY DEF Reached, Has, Holds
<1>3. Reached(c, p)' => Got(c, i)'
  BY <1>1 DEF Reached, Has, Holds, Event
<1>4. CASE UNCHANGED <<send, received>>
  BY <1>1, <1>4 DEF Has, Holds, Event
<1>5. ASSUME NEW d \in Client, Offer(d) \/ SendMessage(d) PROVE Got(c, i)'
  BY <1>1, <1>2, <1>3, <1>5, SendKeepsReached
<1>6. ASSUME NEW d \in Client, WriteFrame(d) \/ WriteError(d) PROVE Got(c, i)'
  BY <1>1, <1>2, <1>3, <1>6, WriterKeepsReached DEF Writer
<1>7. \/ UNCHANGED <<send, received>>
      \/ \E d \in Client : Offer(d) \/ SendMessage(d) \/ WriteFrame(d) \/ WriteError(d)
  BY OrderSteps DEF Apart, Call, Enqueue, Dispatch, Evict, HandleSubscribe, Receive,
     queueVars, chanVars, writeVars
<1> QED
  BY <1>4, <1>5, <1>6, <1>7

\* The target that is offered the message of the fan-out has it.
LEMMA OfferIsGot ==
  ASSUME Context, ChannelIsTheEnd, NEW c \in Client, Offer(c),
         NEW j \in DOMAIN accepted, j = Dispatched
  PROVE  Got(c, j)'
<1>1. /\ fan = accepted[j] /\ UNCHANGED accepted
      /\ send[c] \in Seq(Frame)
      /\ send'[c] = Append(send[c], Event(fan.Message))
  BY DEF Context, TypeOK, ChannelIsTheEnd, Offer, queueVars
<1>2. Len(send[c]) + 1 \in DOMAIN send'[c] /\ send'[c][Len(send[c]) + 1] = Event(fan.Message)
  BY <1>1
<1> QED
  BY <1>1, <1>2 DEF Got, Holds, Event

LEMMA WriterStaysDone ==
  ASSUME TypeOK, NotOpened, [Next]_vars, NEW c \in Client, writer'[c] # "done"
  PROVE  writer[c] # "done"
BY DEF TypeOK, NotOpened, Next, Reader, Writer, Caller, Run, Fanout, vars, writeVars, HandleWebSocket,
       HandleSubscribe, HandleUnsubscribe, Receive, SendMessage, ReadError,
       ReaderExit, WriteFrame, WriteError, PingError, WriterSeesClose,
       WriterReturn, Broadcast, BroadcastToUser, BroadcastToAll, Call, Enqueue,
       RunStart, Dispatch, Offer, Evict, Register, Unregister, OfferToClosed, FanoutEnd,
       Cancel, RunStop, CloseAll

\* What a client gave up is remembered, so who is to get a broadcast was to get it.
LEMMA GaveUpGrows ==
  ASSUME TypeOK, [Next]_vars, NEW c \in Client PROVE gaveUp[c] \subseteq gaveUp'[c]
<1>1. CASE UNCHANGED gaveUp
  BY <1>1
<1>2. ASSUME NEW d \in Client, NEW t \in Topic, HandleUnsubscribe(d, t)
      PROVE  gaveUp[c] \subseteq gaveUp'[c]
  BY <1>2 DEF HandleUnsubscribe, TypeOK
<1> QED
  BY <1>1, <1>2 DEF Next, Reader, Writer, Caller, Run, Fanout, vars, readVars, HandleWebSocket,
     HandleSubscribe, Receive, SendMessage, ReadError,
     ReaderExit, WriteFrame, WriteError, PingError, WriterSeesClose,
     WriterReturn, Broadcast, BroadcastToUser, BroadcastToAll, Call, Enqueue,
     RunStart, Dispatch, Offer, Evict, Register, Unregister, OfferToClosed, FanoutEnd,
     Cancel, RunStop, CloseAll

-----------------------------------------------------------------------------
(* Each part of the invariant.                                             *)

LEMMA StaysTargetedStep ==
  Context /\ OrderInv /\ StaysTargeted /\ [Next]_vars => StaysTargeted'
<1> SUFFICES ASSUME Context, OrderInv, StaysTargeted, [Next]_vars,
                    NEW c \in Client, ~sendClosed'[c], NEW i \in DOMAIN accepted', Got(c, i)'
             PROVE  c \in Targets(accepted[i])'
  BY DEF StaysTargeted
<1>1. /\ i \in DOMAIN accepted /\ accepted'[i] = accepted[i]
      /\ Got(c, i) \/ (Offer(c) /\ i = Dispatched)
  BY GotIsOffered
<1>2. accepted[i] \in BroadcastMessage
  BY <1>1 DEF Context, TypeOK
<1>3. ~sendClosed[c] /\ (c \in Targets(accepted[i]) => c \in Targets(accepted[i])')
  <2>1. \A m \in BroadcastMessage :
          ~sendClosed[c] /\ (c \in Targets(m) => c \in Targets(m)')
    BY OpenStaysTargeted DEF Context
  <2> QED
    BY <1>1, <1>2, <2>1 DEF Targets, Scope
<1>4. c \in Targets(accepted[i])
  <2>1. CASE Got(c, i)
    BY <1>1, <1>3, <2>1 DEF StaysTargeted
  <2>2. CASE Offer(c) /\ i = Dispatched
    BY <2>2 DEF Context, FanoutWithin, Offer, OrderInv, ChannelIsTheEnd
  <2> QED
    BY <1>1, <2>1, <2>2
<1> QED
  BY <1>3, <1>4

\* The hub takes one broadcast at a time out of its channel.
LEMMA DispatchedStep ==
  ASSUME Context, OrderInv, [Next]_vars
  PROVE  /\ Dispatched \in Nat /\ Dispatched <= Len(accepted)
         /\ \/ Dispatched' = Dispatched
            \/ /\ Dispatch /\ Dispatched' = Dispatched + 1
               /\ Dispatched' \in DOMAIN accepted /\ todo' = Targets(accepted[Dispatched'])
<1>0. /\ accepted \in Seq(BroadcastMessage) /\ broadcast \in Seq(BroadcastMessage)
      /\ callers \subseteq BroadcastMessage /\ ChannelIsTheEnd
  BY DEF Context, TypeOK, OrderInv
<1>1. Dispatched \in Nat /\ Dispatched <= Len(accepted)
  BY <1>0 DEF Dispatched, ChannelIsTheEnd
<1>2. CASE UNCHANGED <<accepted, broadcast>>
  BY <1>1, <1>2 DEF Dispatched
<1>3. ASSUME NEW m \in callers, Enqueue(m) PROVE Dispatched' = Dispatched
  BY <1>0, <1>3 DEF Enqueue, Dispatched
<1>4. CASE Dispatch
  <2>1. /\ broadcast # <<>> /\ broadcast' = Tail(broadcast) /\ accepted' = accepted
        /\ todo' = Targets(Head(broadcast))
    BY <1>4 DEF Dispatch
  <2>2. Dispatched' = Dispatched + 1 /\ Dispatched' \in DOMAIN accepted
    BY <1>0, <2>1 DEF Dispatched, ChannelIsTheEnd
  <2>3. Head(broadcast) = accepted[Dispatched + 1]
    BY <1>0, <2>1 DEF Dispatched, ChannelIsTheEnd
  <2> QED
    BY <1>1, <1>4, <2>1, <2>2, <2>3
<1>5. \/ UNCHANGED <<accepted, broadcast>> \/ Dispatch \/ \E m \in callers : Enqueue(m)
  BY OrderSteps DEF Apart, Call, Offer, Evict, SendMessage, WriteFrame, WriteError,
     WriterReturn, HandleSubscribe, Receive, queueVars
<1> QED
  BY <1>1, <1>2, <1>3, <1>4, <1>5

LEMMA NoGapsStep ==
  Context /\ DeliveryInv /\ [Next]_vars => NoGaps'
<1> SUFFICES ASSUME Context, DeliveryInv, [Next]_vars,
                    NEW c \in Client, ~sendClosed'[c], writer'[c] # "done",
                    NEW j \in 1..Dispatched', NEW i \in 1..(j - 1),
                    Got(c, i)', Follows(c, accepted[i], accepted[j])'
             PROVE  Got(c, j)' \/ (j = Dispatched' /\ c \in todo')
  BY DEF NoGaps, Got, Follows, Scope, IsUser
<1>0. OrderInv /\ NoTargetsLeft /\ StaysTargeted /\ NoGaps
  BY DEF DeliveryInv
<1>1. /\ Dispatched \in Nat /\ Dispatched <= Len(accepted)
      /\ \/ Dispatched' = Dispatched
         \/ /\ Dispatch /\ Dispatched' = Dispatched + 1
            /\ Dispatched' \in DOMAIN accepted /\ todo' = Targets(accepted[Dispatched'])
  BY <1>0, DispatchedStep
<1>2. accepted \in Seq(BroadcastMessage) /\ TypeOK /\ MapsAgree
  BY DEF Context, TypeOK
<1>3. /\ i \in DOMAIN accepted /\ j \in DOMAIN accepted /\ i < j
      /\ i \in Nat /\ j \in Nat
  BY <1>1, <1>2
<1>4. accepted'[i] = accepted[i] /\ accepted'[j] = accepted[j] /\ i \in DOMAIN accepted'
  <2>1. UNCHANGED accepted \/ \E m \in callers : accepted' = Append(accepted, m)
    BY OrderSteps DEF Apart, Call, Enqueue, Dispatch, Offer, Evict, SendMessage, WriteFrame,
       WriteError, WriterReturn, HandleSubscribe, Receive, queueVars
  <2>2. callers \subseteq BroadcastMessage
    BY <1>2 DEF TypeOK
  <2> QED
    BY <1>2, <1>3, <2>1, <2>2
<1>5. Follows(c, accepted[i], accepted[j])
  BY <1>2, <1>4, GaveUpGrows DEF Follows, Scope, IsUser
<1>6. ~sendClosed[c] /\ writer[c] # "done"
  <2>1. \A m \in BroadcastMessage : ~sendClosed[c]
    BY <1>2, OpenStaysTargeted
  <2>2. accepted[i] \in BroadcastMessage
    BY <1>2, <1>3
  <2> QED
    BY <2>1, <2>2, WriterStaysDone DEF Context
<1>7. CASE j <= Dispatched
  <2>1. Got(c, i)
    <3>1. Got(c, i) \/ i = Dispatched
      BY <1>0, <1>4, GotIsOffered
    <3> QED
      BY <1>1, <1>3, <1>7, <3>1
  <2>2. CASE Got(c, j)
    BY <1>3, <2>2, GotIsKept
  <2>3. CASE j = Dispatched /\ c \in todo
    <3>1. ~Dispatch /\ Dispatched' = Dispatched
      <4>1. hub \in {"fanout", "panicked"}
        BY <1>0, <2>3 DEF NoTargetsLeft
      <4> QED
        BY <1>1, <4>1 DEF Dispatch
    <3>2. CASE c \in todo'
      BY <2>3, <3>1, <3>2
    <3>3. CASE Evict(c)
      BY <1>2, <1>6, <3>3 DEF Evict, TypeOK
    <3>4. CASE Offer(c)
      BY <1>0, <1>3, <2>3, <3>4, OfferIsGot DEF OrderInv
    <3>5. c \in todo' \/ Evict(c) \/ Offer(c)
      BY <2>3, <3>1, TodoSteps DEF Evict, Offer
    <3> QED
      BY <3>2, <3>3, <3>4, <3>5
  <2> QED
    BY <1>0, <1>1, <1>3, <1>5, <1>6, <1>7, <2>1, <2>2, <2>3 DEF NoGaps, Got
<1>8. CASE Dispatch /\ j = Dispatched + 1
  <2>1. Got(c, i)
    <3>1. ~Offer(c)
      BY <1>8 DEF Dispatch, Offer
    <3> QED
      BY <1>0, <1>4, <3>1, GotIsOffered
  <2>2. c \in Targets(accepted[i])
    BY <1>0, <1>3, <1>6, <2>1 DEF StaysTargeted
  <2>3. c \in Targets(accepted[j])
    <3>1. accepted[i] \in BroadcastMessage /\ accepted[j] \in BroadcastMessage
      BY <1>2, <1>3
    <3> QED
      BY <1>2, <1>5, <1>6, <2>2, <3>1, FollowsIsTarget
  <2> QED
    BY <1>1, <1>8, <2>3
<1> QED
  BY <1>1, <1>3, <1>7, <1>8

\* A connection that got a broadcast and stays subscribed gets every later one for
\* the same topic, for its user or for everybody, while the hub has not closed its
\* send channel and its writePump runs: the hub never passes over a client it keeps.
THEOREM NoGapsCorrect == Spec => []NoGaps
<1>1. Init => Context /\ DeliveryInv
  <2>1. Init => NoTargetsLeft /\ StaysTargeted /\ NoGaps
    BY DEF Init, NoTargetsLeft, StaysTargeted, NoGaps, Dispatched
  <2> QED
    BY <2>1, TypeInit, OrderInit DEF Init, Context, NotOpened, MapsAgree, FanoutWithin, DeliveryInv
<1>2. Context /\ DeliveryInv /\ [Next]_vars => (Context /\ DeliveryInv)'
  BY TypeStep, NotOpenedStep, MapsAgreeStep, FanoutWithinStep, OrderStep, NoTargetsLeftStep,
     StaysTargetedStep, NoGapsStep DEF Context, DeliveryInv
<1>3. DeliveryInv => NoGaps
  BY DEF DeliveryInv
<1> QED
  BY <1>1, <1>2, <1>3, PTL DEF Spec
=============================================================================
