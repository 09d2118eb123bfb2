--------------------------- MODULE HeartbeatProps ---------------------------
(***************************************************************************)
(* What is claimed of the deadlines of a WebSocket connection.             *)
(***************************************************************************)
EXTENDS Heartbeat

\* The types of the variables; no deadline is further away than its constant.
TypeOK ==
  /\ peer \in {"responsive", "mute", "gone"}
  /\ conn \in {"open", "closed"}
  /\ reader \in {"read", "handle", "unregister", "close", "done"}
  /\ readLeft \in 0..PongWait
  /\ tickLeft \in 1..PingPeriod
  /\ ticks \in 0..1
  /\ writer \in {"idle", "event", "ping", "done"}
  /\ writeLeft \in 0..WriteWait
  /\ pongs \in 0..MaxPongs /\ (peer = "responsive" => pongs <= 1)
  /\ lag \in Nat

\* A peer that takes what is written and answers every ping is never
\* disconnected, and its read deadline never passes even while readPump is
\* busy: the pong of each ping comes before the deadline the last one set.
ResponsivePeerIsKept ==
  peer = "responsive" =>
    readLeft > 0 /\ reader \in {"read", "handle"} /\ writer # "done" /\ conn = "open"

\* The time that readPump can still wait for the peer: what is left of the
\* deadline, and one pongWait for each pong that it has yet to handle.
Patience == readLeft + pongs * PongWait

\* Once a peer has stopped answering, readPump's patience is never renewed, and it
\* gets shorter whenever time passes while readPump waits, whatever else the peer
\* sends, whatever is buffered and however long a handler takes: the wait for a
\* dead peer is at most (1 + MaxPongs) times pongWait, summed up.
PatienceRunsOut ==
  [][peer # "responsive" =>
       /\ Patience' <= Patience
       /\ Tick /\ reader = "read" => Patience' < Patience]_vars

\* A peer that answers no more pings is eventually given up by both pumps,
\* whatever else it sends and whether or not it takes what is written.
UnresponsivePeerIsDropped ==
  peer # "responsive" ~> reader = "done" /\ writer = "done"
=============================================================================
