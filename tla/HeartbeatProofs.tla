--------------------------- MODULE HeartbeatProofs ---------------------------
(***************************************************************************)
(* A responsive peer is kept, for all durations whose delays fit in the    *)
(* slack between pingPeriod and pongWait; the wait for one that answers no *)
(* more runs out.                                                          *)
(***************************************************************************)
EXTENDS HeartbeatProps, TLAPS

USE HeartbeatAssumption

\* The slack is less than a period: a round is over when the next one begins.
LEMMA PeriodBounds ==
  PingPeriod \in Nat /\ PingPeriod > 0 /\ Late \in Nat /\ Late < PingPeriod
  /\ PingPeriod < PongWait
<1>1. PingPeriod \in Nat /\ 10 * PingPeriod <= 9 * PongWait /\ 9 * PongWait < 10 * PingPeriod + 10
  BY DEF PingPeriod
<1>2. Late \in Nat
  BY DEF Late
<1> QED
  BY <1>1, <1>2, SlackAssumption

-----------------------------------------------------------------------------

LEMMA TypeInit == Init => TypeOK
BY PeriodBounds DEF Init, TypeOK

LEMMA TypeStep == TypeOK /\ [Next]_vars => TypeOK'
<1> SUFFICES ASSUME TypeOK, [Next]_vars PROVE TypeOK'
  OBVIOUS
<1> USE PeriodBounds DEF TypeOK, readVars, tickVars, writeVars, roundVars
<1>1. CASE Tick
  BY <1>1 DEF Tick, Down
<1>2. CASE Reader
  BY <1>2 DEF Reader, HandlePong, PongsAfter, HandleOther, HandleReturn, ReadError, Unregister,
     ReaderExit
<1>3. CASE Writer
  BY <1>3 DEF Writer, StartEvent, StartPing, WriteDone, WriterReturn
<1>4. ASSUME NEW p \in {"mute", "gone"}, PeerFails(p) PROVE TypeOK'
  BY <1>4 DEF PeerFails
<1>5. CASE UNCHANGED vars
  BY <1>5 DEF vars
<1> QED
  BY <1>1, <1>2, <1>3, <1>4, <1>5 DEF Next

\* Every variable keeps its type: no deadline is ever further away than the
\* constant it was set from.
THEOREM TypeCorrect == Spec => []TypeOK
BY TypeInit, TypeStep, PTL DEF Spec

-----------------------------------------------------------------------------
(* The round of a ping: due, being written, its pong on the way.  Between  *)
(* rounds the deadline was renewed since the last tick; during one, how    *)
(* long ago the tick was is bounded by the delays met so far.              *)

Since == PingPeriod - tickLeft

InRound == ticks = 1 \/ writer = "ping" \/ pongs = 1

Round ==
  /\ ticks = 1 => writer # "ping" /\ pongs = 0 /\ Since <= lag /\ lag <= PingDelay
  /\ writer = "ping" => pongs = 0 /\ Since <= PingDelay + (WriteWait - writeLeft)
  /\ pongs = 1 => Since <= PingDelay + WriteTime + lag /\ lag <= ReplyTime
  /\ InRound => readLeft + Since >= PongWait - PingPeriod
  /\ ~InRound => readLeft + Since >= PongWait

Alive ==
  /\ conn = "open"
  /\ reader \in {"read", "handle"} /\ writer # "done"
  /\ Writing => WriteWait - writeLeft <= WriteTime

KeptInv == peer = "responsive" => Alive /\ Round

LEMMA KeptInit == Init => KeptInv
BY PeriodBounds DEF Init, KeptInv, Alive, Round, Since, InRound, Writing

\* Whatever the round is at, the deadline is ahead.
LEMMA DeadlineAhead ==
  ASSUME TypeOK, Alive, Round PROVE readLeft > 0 /\ (Writing => writeLeft > 0)
<1>1. Since \in Nat /\ readLeft \in Nat /\ writeLeft \in Nat /\ lag \in Nat /\ Since < PingPeriod
  BY PeriodBounds DEF TypeOK, Since
<1>2. InRound => Since <= Late
  BY <1>1 DEF Alive, Round, InRound, Late, Writing
<1>3. readLeft > 0
  BY <1>1, <1>2, PeriodBounds, SlackAssumption DEF Round
<1> QED
  BY <1>1, <1>3 DEF Alive

LEMMA KeptTick ==
  ASSUME TypeOK, KeptInv, Tick, peer = "responsive" PROVE Alive' /\ Round'
<1>1. /\ readLeft \in Nat /\ readLeft > 0 /\ readLeft' = readLeft - 1
      /\ writeLeft \in Nat /\ (Writing => writeLeft > 0 /\ writeLeft' = writeLeft - 1)
      /\ tickLeft \in 1..PingPeriod /\ lag \in Nat /\ ticks \in 0..1 /\ pongs \in 0..1
  BY DeadlineAhead DEF TypeOK, KeptInv, Tick, Down
<1>2. Alive /\ Round /\ Responsive /\ UNCHANGED <<conn, reader, writer, pongs>>
  BY DEF KeptInv, Tick
<1>3. Alive'
  BY <1>1, <1>2 DEF Alive, Responsive, Writing
<1>4. CASE tickLeft = 1
  <2>1. ~InRound
    BY <1>1, <1>2, <1>4, PeriodBounds DEF Round, InRound, Responsive, Since, Writing, Late
  <2>2. tickLeft' = PingPeriod /\ ticks' = 1 /\ lag' = 0
    BY <1>4, <2>1 DEF Tick, InRound
  <2>3. readLeft >= PongWait - (PingPeriod - 1)
    BY <1>1, <1>3, <1>2, <1>4, <2>1, PeriodBounds DEF Round, Since
  <2>4. pongs' = 0 /\ writer' # "ping" /\ Since' = 0
    BY <1>1, <1>3, <1>2, <2>1, <2>2, PeriodBounds DEF InRound, Since
  <2> QED
    BY <1>1, <1>3, <2>2, <2>3, <2>4, PeriodBounds DEF Round, InRound
<1>5. CASE tickLeft # 1
  <2>1. /\ tickLeft' = tickLeft - 1 /\ ticks' = ticks
        /\ lag' = IF ticks + pongs > 0 THEN lag + 1 ELSE lag
    BY <1>5 DEF Tick
  <2>2. Since \in Nat /\ Since' = Since + 1
    BY <1>1, <1>3, <2>1, PeriodBounds DEF Since
  <2>3. readLeft' + Since' = readLeft + Since /\ (InRound' <=> InRound)
    BY <1>1, <1>3, <1>2, <2>1, <2>2 DEF InRound
  <2>4. CASE ticks = 1
    BY <1>1, <1>3, <1>2, <2>1, <2>2, <2>3, <2>4 DEF Round, Responsive
  <2>5. CASE writer = "ping"
    BY <1>1, <1>3, <1>2, <2>1, <2>2, <2>3, <2>5 DEF Round, Writing
  <2>6. CASE pongs = 1
    BY <1>1, <1>3, <1>2, <2>1, <2>2, <2>3, <2>6 DEF Round, Responsive
  <2>7. CASE ~InRound
    BY <1>1, <1>3, <1>2, <2>1, <2>3, <2>7 DEF Round, InRound
  <2> QED
    BY <2>4, <2>5, <2>6, <2>7 DEF InRound
<1> QED
  BY <1>3, <1>4, <1>5

LEMMA KeptStep == TypeOK /\ KeptInv /\ [Next]_vars => KeptInv'
<1> SUFFICES ASSUME TypeOK, KeptInv, [Next]_vars, peer' = "responsive"
             PROVE  Alive' /\ Round'
  BY DEF KeptInv
<1>1. CASE Tick
  <2>1. peer = "responsive"
    BY <1>1 DEF Tick
  <2> QED
    BY <1>1, <2>1, KeptTick
<1>2. ASSUME NEW p \in {"mute", "gone"}, PeerFails(p) PROVE FALSE
  BY <1>2 DEF PeerFails
<1>3. CASE Reader \/ Writer \/ UNCHANGED vars
  <2>1. peer = "responsive" /\ Alive /\ Round /\ readLeft > 0 /\ (Writing => writeLeft > 0)
    <3>1. peer = "responsive"
      BY <1>3 DEF Reader, Writer, HandlePong, HandleOther, HandleReturn, ReadError,
         Unregister, ReaderExit, StartEvent, StartPing, WriteDone, WriterReturn, vars
    <3> QED
      BY <3>1, DeadlineAhead DEF KeptInv
  <2> USE <2>1, PeriodBounds
          DEF TypeOK, Alive, Round, InRound, Since, Writing, SendClosed, readVars,
              tickVars, writeVars, roundVars
  <2>2. CASE HandlePong
    BY <2>2 DEF HandlePong, PongsAfter
  <2>3. CASE HandleOther \/ HandleReturn
    BY <2>3 DEF HandleOther, HandleReturn
  <2>4. CASE ReadError \/ Unregister \/ ReaderExit
    BY <2>4 DEF ReadError, Unregister, ReaderExit
  <2>5. CASE StartEvent
    BY <2>5 DEF StartEvent
  <2>6. CASE StartPing
    BY <2>6 DEF StartPing
  <2>7. CASE WriteDone
    BY <2>7 DEF WriteDone
  <2>8. CASE WriterReturn
    BY <2>8 DEF WriterReturn
  <2>9. CASE UNCHANGED vars
    BY <2>9 DEF vars
  <2> QED
    BY <1>3, <2>2, <2>3, <2>4, <2>5, <2>6, <2>7, <2>8, <2>9 DEF Reader, Writer
<1> QED
  BY <1>1, <1>2, <1>3 DEF Next

\* The pong of a responsive peer always comes before the read deadline, for all
\* durations with pingPeriod and the delays together below pongWait.
THEOREM ResponsivePeerIsKeptCorrect == Spec => []ResponsivePeerIsKept
<1>1. TypeOK /\ KeptInv => ResponsivePeerIsKept
  BY DeadlineAhead DEF KeptInv, Alive, ResponsivePeerIsKept
<1> QED
  BY <1>1, TypeCorrect, KeptInit, KeptStep, PTL DEF Spec

-----------------------------------------------------------------------------
(* The wait for a peer that has stopped answering.                         *)

\* A pong that is handled takes its pongWait from those that remain.
LEMMA OnePongLess ==
  ASSUME NEW n \in Nat, n > 0 PROVE n * PongWait = (n - 1) * PongWait + PongWait
OBVIOUS

PatienceStep ==
  /\ Patience' <= Patience
  /\ Tick /\ reader = "read" => Patience' < Patience

LEMMA PatienceShrinks ==
  ASSUME TypeOK, [Next]_vars, peer # "responsive" PROVE PatienceStep
<1>1. /\ readLeft \in Nat /\ pongs \in Nat /\ pongs * PongWait \in Nat /\ PongWait \in Nat
  BY DEF TypeOK
<1>2. CASE Tick
  <2>1. /\ pongs' = pongs /\ readLeft' = Down(readLeft)
        /\ reader = "read" => readLeft > 0
    BY <1>2 DEF Tick, Punctual
  <2>2. readLeft' <= readLeft /\ (reader = "read" => readLeft' < readLeft) /\ readLeft' \in Nat
    BY <1>1, <2>1 DEF Down
  <2>3. pongs' * PongWait = pongs * PongWait
    BY <2>1
  <2> QED
    BY <1>1, <2>2, <2>3 DEF PatienceStep, Patience
<1>3. CASE HandlePong
  <2>1. pongs > 0 /\ pongs' = pongs - 1 /\ readLeft' = PongWait
    BY <1>3 DEF HandlePong, PongsAfter
  <2>2. readLeft' + pongs' * PongWait = pongs * PongWait
    BY <1>1, <2>1, OnePongLess
  <2>3. ~(Tick /\ reader = "read")
    BY <1>1, <2>1 DEF Tick
  <2> QED
    BY <1>1, <2>2, <2>3 DEF PatienceStep, Patience
<1>4. CASE UNCHANGED <<readLeft, pongs>>
  <2>1. ~(Tick /\ reader = "read")
    BY <1>1, <1>4 DEF Tick, Punctual, Down
  <2> QED
    BY <1>1, <1>4, <2>1 DEF PatienceStep, Patience
<1>5. Tick \/ HandlePong \/ UNCHANGED <<readLeft, pongs>>
  BY DEF Next, Reader, Writer, PeerFails, HandleOther, HandleReturn, ReadError, Unregister,
     ReaderExit, StartEvent, StartPing, WriteDone, WriterReturn, vars, readVars, roundVars
<1> QED
  BY <1>2, <1>3, <1>4, <1>5

\* The patience with a peer that answers no more is never renewed and shrinks while
\* readPump waits, for all durations and any number of pongs on the way: the
\* variant behind the peer's being dropped.
THEOREM PatienceRunsOutCorrect == Spec => PatienceRunsOut
<1>1. TypeOK /\ [Next]_vars => [peer # "responsive" => PatienceStep]_vars
  BY PatienceShrinks
<1>2. [peer # "responsive" => PatienceStep]_vars
        => [peer # "responsive" =>
              /\ Patience' <= Patience
              /\ Tick /\ reader = "read" => Patience' < Patience]_vars
  BY DEF PatienceStep
<1> QED
  BY <1>1, <1>2, TypeCorrect, PTL DEF Spec, PatienceRunsOut
=============================================================================
