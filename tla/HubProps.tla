------------------------------ MODULE HubProps ------------------------------
(***************************************************************************)
(* What is claimed of the WebSocket hub: its invariants, the contract it   *)
(* implements, what must eventually happen, and the statements of the      *)
(* repository that the hub does not meet.                                  *)
(***************************************************************************)
EXTENDS Hub

\* The types of the variables, and the channels within their capacities.
TypeOK ==
  /\ hub \in {"starting", "select", "fanout", "stopped", "panicked"}
  /\ fan \in BroadcastMessage \cup {Empty}
  /\ hub = "fanout" => fan \in BroadcastMessage
  /\ todo \in SUBSET Client
  /\ clients \in [Topic -> SUBSET Client]
  /\ allClients \in SUBSET Client
  /\ userClients \in [User -> SUBSET Client]
  /\ broadcast \in Seq(BroadcastMessage) /\ Len(broadcast) <= BroadcastCap
  /\ callers \in SUBSET BroadcastMessage
  /\ conn \in [Client -> {"none", "open", "closed"}]
  /\ reader \in [Client -> {"none", "receive", "register", "confirm",
                            "unregister", "exit", "done"}]
  /\ request \in [Client -> Request \cup {Empty}]
  /\ \A c \in Client : reader[c] \in {"register", "confirm"} => request[c] \in Request
  /\ writer \in [Client -> {"none", "run", "done"}]
  /\ subscriptions \in [Client -> SUBSET Topic]
  /\ send \in [Client -> Seq(Frame)]
  /\ \A c \in Client : Len(send[c]) <= SendCap
  /\ sendClosed \in [Client -> BOOLEAN]
  /\ stop \in {"running", "cancelled", "done"}
  /\ asked \in [Client -> SUBSET Topic] /\ gaveUp \in [Client -> SUBSET Topic]
  /\ accepted \in Seq(BroadcastMessage)
  /\ received \in [Client -> Seq(Payload)]

-----------------------------------------------------------------------------
(* Safety.                                                                 *)

\* readPump has handed the client back to the hub.
Unregistered(c) == reader[c] \in {"exit", "done"}

\* The hub closed the send channel while the client is still connected.
Evicted(c) == sendClosed[c] /\ ~Unregistered(c)

\* The map of t holds c although c gave t up.
Leftover(c, t) == c \in clients[t] /\ t \notin subscriptions[c]

\* The three maps describe the same clients: one whose channel is open is in
\* the map of all clients exactly if it is in a topic's, and in its own user's
\* map exactly then too (the registration and unregister cases of Run).
MapsAgree ==
  /\ \A u \in User : \A c \in userClients[u] : IsUser(c, u)
  /\ \A c \in Client : ~sendClosed[c] =>
       /\ c \in allClients <=> \E t \in Topic : c \in clients[t]
       /\ \A u \in User : IsUser(c, u) => (c \in allClients <=> c \in userClients[u])

\* A client that believes it is subscribed is in the hub's map, unless its
\* registration is on the way or the hub evicted it (handleMessage writes the
\* set before it sends the registration).
SubscriptionsRegistered ==
  \A c \in Client : ~sendClosed[c] => \A t \in subscriptions[c] :
    c \in clients[t] \/ (reader[c] = "register" /\ request[c].Body = t)

\* Once unregistered, a client is out of every map but those of topics it
\* unsubscribed from (the unregister case of Run).
UnregisteredIsGone ==
  \A c \in Client : Unregistered(c) =>
    /\ c \notin allClients
    /\ \A u \in User : c \notin userClients[u]
    /\ \A t \in Topic : c \in clients[t] => Leftover(c, t)

\* The hub panics for two reasons only: a client it evicted for a full channel
\* is still in a map or unregisters, or a client that is gone was left in the
\* map of a topic it unsubscribed from.
PanicHasTwoCauses ==
  hub = "panicked" =>
    \E c \in Client : sendClosed[c] /\ (Evicted(c) \/ \E t \in Topic : Leftover(c, t))

\* A fan-out skips nobody: every target it is done with holds the message, got
\* it, or has lost its writePump (the loop over targetClients).
FanoutReachesAll ==
  hub = "fanout" => \A c \in Targets(fan) \ todo :
    \/ writer[c] = "done"
    \/ \E i \in DOMAIN send[c] : send[c][i] = Event(fan.Message)
    \/ \E i \in DOMAIN received[c] : received[c][i] = fan.Message

\* Broadcasts the hub has taken out of its channel.
Dispatched == Len(accepted) - Len(broadcast)

\* The peer received the i-th broadcast accepted; it waits in the send channel.
Has(c, i) == \E r \in DOMAIN received[c] : received[c][r] = accepted[i].Message
Holds(c, i) == \E k \in DOMAIN send[c] : send[c][k] = Event(accepted[i].Message)

\* Having got m, c is to get n: a broadcast to the same topic, unless c has ever
\* unsubscribed from it, or one to its user or to everybody, unless c has ever
\* unsubscribed from anything.
Follows(c, m, n) ==
  /\ Scope(n) = "topic" => /\ Scope(m) = "topic" /\ m.Topic = n.Topic
                           /\ n.Topic \notin gaveUp[c]
  /\ Scope(n) # "topic" => gaveUp[c] = {}
  /\ Scope(n) = "user" => IsUser(c, n.UserID)

\* A connection that got one broadcast gets all the later ones of that topic, to
\* its user and to everybody: as long as it stays subscribed it misses none while
\* its send channel is open and its writePump runs (the hub drops a target only
\* together with its channel).
NoGaps ==
  \A c \in Client : ~sendClosed[c] /\ writer[c] # "done" =>
    \A j \in 1..Dispatched : \A i \in 1..(j - 1) :
      (Has(c, i) \/ Holds(c, i)) /\ Follows(c, accepted[i], accepted[j]) =>
        Has(c, j) \/ Holds(c, j) \/ (j = Dispatched /\ c \in todo)

\* The hub implements the multicast contract: at most once, in the order the
\* broadcast channel accepted, and only what is addressed to the client.
Contract == INSTANCE Multicast WITH
  Client <- Client, Topic <- Topic, User <- User, Payload <- Payload, Empty <- Empty,
  TopicGlobal <- TopicGlobal, UserID <- UserID,
  asked <- asked, accepted <- accepted, received <- received
Implements == Contract!Spec

-----------------------------------------------------------------------------
(* Liveness, under FairSpec.                                               *)

Over == hub \in {"stopped", "panicked"}

\* A closed connection eventually ends both of its goroutines and gives the
\* client back, while the hub runs: readPump may first have to get a
\* registration taken, so Run may not block on a slow client (the default case
\* of its sends).
ClosedConnectionEnds ==
  \A c \in Client :
    conn[c] = "closed" ~> ((reader[c] = "done" /\ writer[c] = "done") \/ Over)

\* Every caller of Broadcast eventually gets its message into the channel,
\* while the hub runs.
BroadcastIsAccepted == callers # {} ~> (callers = {} \/ Over)

-----------------------------------------------------------------------------
(* Statements of the repository that the code does not meet.               *)

\* "Client send channel full, closing connection" (socket.go:200): evicting a
\* slow client costs that client its connection and the hub nothing.
EvictionSparesHub == hub = "panicked" => \A c \in Client : ~Evicted(c)

\* "Hub maintains active clients" (socket.go:70): no map of the hub holds a
\* client that has been unregistered.
HubHoldsActiveClients ==
  \A t \in Topic : \A c \in clients[t] : ~Unregistered(c)
=============================================================================
