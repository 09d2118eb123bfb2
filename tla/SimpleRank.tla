----------------------------- MODULE SimpleRank -----------------------------
(***************************************************************************)
(* The service as its users see it: the path of a score (ScoreUpdate)      *)
(* together with the peers that watch the leaderboard over WebSocket.      *)
(*                                                                         *)
(* The hub is represented by its contract, Multicast, which module Hub is  *)
(* proved to implement: what the broadcast goroutines hand over is what    *)
(* the contract calls accepted.  A connection and what the hub has queued  *)
(* are gone when the process ends; a peer that comes back is another       *)
(* connection.                                                             *)
(***************************************************************************)
EXTENDS ScoreUpdate

CONSTANTS
  Connection,   \* WebSocket connections
  topic,        \* the leaderboard's topic, TopicLeaderboard + leaderboardID
  Empty, TopicGlobal, Anonymous

ASSUME SimpleRankAssumption == topic \notin {Empty, TopicGlobal}

VARIABLES
  asked, received,   \* the peers' side of the contract
  life,              \* the start of the process a connection belongs to, or 0
  base,              \* how many events were announced before the last start
  seen               \* history: what peers had been shown when a score came in

peerVars == <<asked, received, life>>
systemVars == <<vars, peerVars, base, seen>>

\* The messages that publishEvent makes of the announced scores.
Messages(s) ==
  [i \in DOMAIN s |-> [Topic |-> topic, UserID |-> Empty, Message |-> s[i]]]

Socket == INSTANCE Multicast WITH
  Client <- Connection, Topic <- {topic}, User <- {}, Payload <- Update,
  UserID <- [c \in Connection |-> Anonymous], accepted <- Messages(announced)

SystemInit ==
  /\ Init
  /\ asked = [c \in Connection |-> {}]
  /\ received = [c \in Connection |-> <<>>]
  /\ life = [c \in Connection |-> 0] /\ base = 0
  /\ seen = [u \in Update |-> {}]

-----------------------------------------------------------------------------

\* The hub and its queues are new in every process.
StartProcess ==
  /\ Start
  /\ base' = Len(announced)
  /\ UNCHANGED <<peerVars, seen>>

Shown == UNION {{received[c][k] : k \in DOMAIN received[c]} : c \in Connection}

\* POST: whoever submits may have watched the leaderboard first.
Submit(u) ==
  /\ UpdateEntryScore(u) \/ UpdateEntryScoreFails(u)
  /\ seen' = [seen EXCEPT ![u] = Shown]
  /\ UNCHANGED <<peerVars, base>>

\* The goroutines that a request leaves behind.
Finish(u) == Publish(u) \/ PublishFails(u) \/ Broadcast(u)

Background ==
  /\ \/ SubscriberStart \/ StartTimeout \/ Crash \/ Consume
     \/ \E u \in Update : Finish(u)
  /\ UNCHANGED <<peerVars, base, seen>>

\* A connection is accepted and asks for the leaderboard's topic.
Subscribe(c) ==
  /\ process = "up" /\ life[c] = 0
  /\ life' = [life EXCEPT ![c] = starts]
  /\ UNCHANGED <<vars, base, seen>>
  /\ Socket!Ask(c, topic)

ShowOutOfOrder(c) ==
  /\ process = "up" /\ life[c] = starts
  /\ UNCHANGED <<vars, life, base, seen, asked>>
  /\ \E i \in (base + 1)..Len(announced) :
       received' = [received EXCEPT ![c] = Append(@, announced[i])]

\* The peer receives an event that this process announced.
Show(c) ==
  /\ process = "up" /\ life[c] = starts
  /\ UNCHANGED <<vars, life, base, seen>>
  /\ \E i \in (base + 1)..Len(announced) : Socket!Deliver(c, i)

SystemNext ==
  \/ StartProcess \/ Background
  \/ \E u \in Update : Submit(u)
  \/ \E c \in Connection : Subscribe(c) \/ Show(c)

System == SystemInit /\ [][SystemNext]_systemVars

\* The fairness of the path of a score; nothing makes a peer connect or read.
FairSystem == System /\ Fairness
=============================================================================
