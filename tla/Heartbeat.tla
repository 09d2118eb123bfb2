----------------------------- MODULE Heartbeat -----------------------------
(***************************************************************************)
(* The deadlines of one WebSocket connection of presentation/socket:       *)
(* readPump gives up when pongWait passes without a pong, writePump pings  *)
(* every pingPeriod and gives up when a write outlasts writeWait.  Only a  *)
(* pong message that the peer writes in answer to the ping message renews  *)
(* the read deadline.                                                      *)
(*                                                                         *)
(* Time passes in Tick, one unit a step, and steps of the goroutines take  *)
(* none.  How late a responsive peer's traffic may be is bounded by three  *)
(* constants of the environment.  The maps and the queues are those of     *)
(* module Hub: here a frame is waiting or not at any moment, and the hub   *)
(* takes a registration after any time.                                    *)
(***************************************************************************)
EXTENDS Naturals

CONSTANTS
  PongWait,    \* pongWait: how long readPump waits for a pong
  WriteWait,   \* writeWait: how long a write may take
  PingDelay,   \* a due ping waits at most this long for other frames
  WriteTime,   \* a responsive peer takes a frame within this time
  ReplyTime,   \* and its pong is handled within this time of the ping
  MaxPongs     \* bound on the pongs on the way when a peer stops answering

PingPeriod == (PongWait * 9) \div 10

Late == PingDelay + WriteTime + ReplyTime

ASSUME HeartbeatAssumption ==
  /\ PongWait \in Nat /\ PongWait > 1
  /\ PingDelay \in Nat /\ ReplyTime \in Nat
  /\ WriteWait \in Nat /\ WriteTime \in Nat /\ WriteTime < WriteWait
  /\ MaxPongs \in Nat \ {0}

\* The delays fit in the tenth of pongWait that pingPeriod leaves.
ASSUME SlackAssumption == PingPeriod + Late < PongWait

VARIABLES
  peer,       \* responsive, mute (answers no ping), gone (left the connection)
  conn,       \* open, closed
  reader,     \* readPump: read, handle (a frame), unregister, close, done
  readLeft,   \* time to the read deadline
  tickLeft,   \* time to the ticker's next tick
  ticks,      \* how many ticks wait in ticker.C, at most one
  writer,     \* writePump: idle (in select), event, ping (writing it), done
  writeLeft,  \* time to the write deadline
  pongs,      \* pongs sent and not handled: at most the one that answers the ping
              \* while the peer is responsive, any it sent when it fails
  lag         \* time since the ping became due, or since the pong is on its way

readVars == <<reader, readLeft>>
tickVars == <<tickLeft, ticks>>
writeVars == <<writer, writeLeft>>
roundVars == <<pongs, lag>>
vars == <<peer, conn, readVars, tickVars, writeVars, roundVars>>

Init ==
  /\ peer = "responsive" /\ conn = "open"
  /\ reader = "read" /\ readLeft = PongWait
  /\ tickLeft = PingPeriod /\ ticks = 0
  /\ writer = "idle" /\ writeLeft = 0
  /\ pongs = 0 /\ lag = 0

Writing == writer \in {"event", "ping"}

\* The hub closes the send channel when it takes the client from readPump.
SendClosed == reader \in {"close", "done"}

-----------------------------------------------------------------------------
(* Time and the peer.                                                      *)

\* Time waits for nobody but a deadline that has passed: its error comes first.
Punctual ==
  /\ reader = "read" => readLeft > 0
  /\ Writing => writeLeft > 0

\* What makes a peer, and the traffic to it, responsive.
Responsive ==
  /\ ticks = 1 => lag < PingDelay
  /\ Writing => WriteWait - writeLeft < WriteTime
  /\ pongs = 1 => lag < ReplyTime

Down(n) == IF n = 0 THEN 0 ELSE n - 1

\* The ticker drops a tick when one is waiting already.
Tick ==
  /\ conn = "open" /\ Punctual
  /\ peer = "responsive" => Responsive
  /\ readLeft' = Down(readLeft)
  /\ writeLeft' = Down(writeLeft)
  /\ IF tickLeft = 1
     THEN tickLeft' = PingPeriod /\ ticks' = 1 /\ lag' = IF ticks = 1 THEN lag ELSE 0
     ELSE /\ tickLeft' = tickLeft - 1
          /\ lag' = IF peer = "responsive" /\ ticks + pongs > 0 THEN lag + 1 ELSE lag
          /\ UNCHANGED ticks
  /\ UNCHANGED <<peer, conn, reader, writer, pongs>>

\* The peer stops answering, or leaves.  Pongs that it sent, asked or unasked,
\* may be on the way or in the read buffer, or be lost with it.
PeerFails(p) ==
  /\ peer = "responsive" /\ p \in {"mute", "gone"}
  /\ peer' = p
  /\ pongs' \in 0..MaxPongs
  /\ UNCHANGED <<conn, readVars, tickVars, writeVars, lag>>

-----------------------------------------------------------------------------
(* readPump and handleMessage.                                             *)

\* What the connection's read buffer holds is read whether or not the deadline
\* has passed or the connection is closed; beyond the buffer Receive fails then.
Readable == reader = "read"

\* The pongs that remain when one is handled: a responsive peer may have sent the
\* one that is handled without being asked.
PongsAfter == IF peer = "responsive" THEN {pongs, 0} ELSE {pongs - 1}

HandlePongIgnoring ==
  /\ Readable /\ (pongs > 0 \/ peer = "responsive")
  /\ pongs' \in PongsAfter
  /\ UNCHANGED <<peer, conn, readVars, tickVars, writeVars, lag>>

HandlePongAdding ==
  /\ Readable /\ (pongs > 0 \/ peer = "responsive")
  /\ readLeft' = readLeft + PongWait
  /\ pongs' \in PongsAfter
  /\ UNCHANGED <<peer, conn, reader, tickVars, writeVars, lag>>

\* case MessageTypePong: the read deadline is renewed, also one that has passed.
HandlePong ==
  /\ Readable /\ (pongs > 0 \/ peer = "responsive")
  /\ readLeft' = PongWait
  /\ pongs' \in PongsAfter
  /\ UNCHANGED <<peer, conn, reader, tickVars, writeVars, lag>>

HandleOtherRenewing ==
  /\ Readable
  /\ reader' = "handle"
  /\ readLeft' = PongWait
  /\ UNCHANGED <<peer, conn, tickVars, writeVars, roundVars>>

\* Any other frame, also of a peer that has left since it sent it; a subscription
\* keeps readPump until the hub takes it.
HandleOther ==
  /\ Readable
  /\ reader' = "handle"
  /\ UNCHANGED <<peer, conn, readLeft, tickVars, writeVars, roundVars>>

HandleReturn ==
  /\ reader = "handle"
  /\ reader' = "read"
  /\ UNCHANGED <<peer, conn, readLeft, tickVars, writeVars, roundVars>>

ReadErrorWithoutDeadline ==
  /\ reader = "read" /\ (peer = "gone" \/ conn = "closed")
  /\ reader' = "unregister"
  /\ UNCHANGED <<peer, conn, readLeft, tickVars, writeVars, roundVars>>

\* Receive fails: nothing is buffered, and the deadline passed, the peer left or
\* writePump closed the connection.
ReadError ==
  /\ reader = "read"
  /\ readLeft = 0 \/ peer = "gone" \/ conn = "closed"
  /\ reader' = "unregister"
  /\ UNCHANGED <<peer, conn, readLeft, tickVars, writeVars, roundVars>>

\* The hub takes the client and closes its send channel.
Unregister ==
  /\ reader = "unregister"
  /\ reader' = "close"
  /\ UNCHANGED <<peer, conn, readLeft, tickVars, writeVars, roundVars>>

ReaderExit ==
  /\ reader = "close"
  /\ reader' = "done"
  /\ conn' = "closed"
  /\ UNCHANGED <<peer, readLeft, tickVars, writeVars, roundVars>>

-----------------------------------------------------------------------------
(* writePump.                                                              *)

\* case message := <-c.send
StartEvent ==
  /\ writer = "idle"
  /\ writer' = "event" /\ writeLeft' = WriteWait
  /\ UNCHANGED <<peer, conn, readVars, tickVars, roundVars>>

\* case <-ticker.C
StartPing ==
  /\ writer = "idle" /\ ticks = 1
  /\ ticks' = 0
  /\ writer' = "ping" /\ writeLeft' = WriteWait
  /\ UNCHANGED <<peer, conn, readVars, tickLeft, roundVars>>

\* A peer that is mute may take the frame, or leave it to fill the buffers.
WriteDone ==
  /\ Writing /\ writeLeft > 0 /\ conn = "open" /\ peer # "gone"
  /\ writer' = "idle" /\ writeLeft' = 0
  /\ IF writer = "ping" /\ peer = "responsive"
     THEN pongs' = 1 /\ lag' = 0
     ELSE UNCHANGED roundVars
  /\ UNCHANGED <<peer, conn, readVars, tickVars>>

\* The write fails, or the channel is closed: the deferred conn.Close.
WriterReturn ==
  /\ \/ Writing /\ (writeLeft = 0 \/ conn = "closed" \/ peer = "gone")
     \/ writer = "idle" /\ SendClosed
  /\ writer' = "done" /\ writeLeft' = 0
  /\ conn' = "closed"
  /\ UNCHANGED <<peer, readVars, tickVars, roundVars>>

-----------------------------------------------------------------------------

Reader == HandlePong \/ HandleOther \/ HandleReturn \/ ReadError \/ Unregister \/ ReaderExit

Writer == StartEvent \/ StartPing \/ WriteDone \/ WriterReturn

Next == Tick \/ Reader \/ Writer \/ \E p \in {"mute", "gone"} : PeerFails(p)

Spec == Init /\ [][Next]_vars

(***************************************************************************)
(* Fairness.  Time passes, and a goroutine that can run does; the hub      *)
(* takes what readPump hands it, which module Hub shows while it runs.     *)
(* What the read buffer holds is finite and is not filled once the         *)
(* deadline has passed or the connection is over, so readPump meets the    *)
(* error behind it (strong fairness, as it may handle such frames first).  *)
(* Nothing makes a peer answer, send or read.                              *)
(***************************************************************************)
Fairness ==
  /\ WF_vars(Tick)
  /\ WF_vars(HandleReturn) /\ SF_vars(ReadError)
  /\ WF_vars(Unregister) /\ WF_vars(ReaderExit) /\ WF_vars(WriterReturn)

FairSpec == Spec /\ Fairness
=============================================================================
