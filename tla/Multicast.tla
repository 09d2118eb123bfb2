----------------------------- MODULE Multicast -----------------------------
(***************************************************************************)
(* What the WebSocket hub promises the callers of Broadcast and the peers, *)
(* with no channel, map or goroutine in sight: broadcasts are accepted in  *)
(* one order, and a peer sees a subsequence of that order, made only of    *)
(* broadcasts addressed to everybody, to its user, or to a topic it asked  *)
(* for at some time.  Delivery is at most once and may have gaps.          *)
(***************************************************************************)
EXTENDS Naturals, Sequences

CONSTANTS Client, Topic, User, Payload, Empty, TopicGlobal, UserID

VARIABLES asked,      \* topics each client has asked to subscribe to
          accepted,   \* broadcasts in the order they were accepted
          received    \* payloads each peer has received

vars == <<asked, accepted, received>>

BroadcastMessage ==
  [Topic : Topic \cup {Empty, TopicGlobal}, UserID : User \cup {Empty},
   Message : Payload]

\* m is addressed to c.
Addressed(c, m) ==
  IF m.UserID # Empty THEN UserID[c] = m.UserID
  ELSE m.Topic \in asked[c] \cup {Empty, TopicGlobal}

\* c has received the i-th accepted broadcast.
Has(c, i) == \E k \in DOMAIN received[c] : received[c][k] = accepted[i].Message

Init ==
  /\ asked = [c \in Client |-> {}]
  /\ accepted = <<>>
  /\ received = [c \in Client |-> <<>>]

Ask(c, t) ==
  /\ asked' = [asked EXCEPT ![c] = @ \cup {t}]
  /\ UNCHANGED <<accepted, received>>

Accept(m) ==
  /\ \A i \in DOMAIN accepted : accepted[i].Message # m.Message
  /\ accepted' = Append(accepted, m)
  /\ UNCHANGED <<asked, received>>

Deliver(c, i) ==
  /\ Addressed(c, accepted[i])
  /\ \A j \in DOMAIN accepted : Has(c, j) => j < i
  /\ received' = [received EXCEPT ![c] = Append(@, accepted[i].Message)]
  /\ UNCHANGED <<asked, accepted>>

Next ==
  \/ \E c \in Client, t \in Topic : Ask(c, t)
  \/ \E m \in BroadcastMessage : Accept(m)
  \/ \E c \in Client : \E i \in DOMAIN accepted : Deliver(c, i)

Spec == Init /\ [][Next]_vars
=============================================================================
