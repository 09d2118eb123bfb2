-------------------------- MODULE ScoreUpdateProofs --------------------------
(***************************************************************************)
(* Proofs of the safety properties of the score path, for every set of     *)
(* submissions, of entries and of faults, and any number of starts.        *)
(***************************************************************************)
EXTENDS ScoreUpdateProps, SequenceTheorems, TLAPS

USE DEF historyVars

-----------------------------------------------------------------------------
(* Sequences.                                                              *)

\* The elements of a sequence that grew by one.
LEMMA AppendElements ==
  ASSUME NEW S, NEW s \in Seq(S), NEW a \in S
  PROVE  \A i \in DOMAIN Append(s, a) :
           Append(s, a)[i] = a \/ (i \in DOMAIN s /\ Append(s, a)[i] = s[i])
<1>1. /\ DOMAIN Append(s, a) = 1..(Len(s) + 1)
      /\ DOMAIN s = 1..Len(s)
      /\ \A i \in 1..Len(s) : Append(s, a)[i] = s[i]
      /\ Append(s, a)[Len(s) + 1] = a
      /\ Len(s) \in Nat
  OBVIOUS
<1>2. ASSUME NEW i \in 1..(Len(s) + 1)  PROVE i \in 1..Len(s) \/ i = Len(s) + 1
  BY <1>1
<1>3. QED
  BY <1>1, <1>2

\* What occurs in a sequence that grew by one.
LEMMA InAppend ==
  ASSUME NEW S, NEW s \in Seq(S), NEW a \in S, NEW x
  PROVE  In(x, Append(s, a)) <=> (In(x, s) \/ x = a)
<1>1. /\ DOMAIN Append(s, a) = 1..(Len(s) + 1)
      /\ DOMAIN s = 1..Len(s)
      /\ \A i \in 1..Len(s) : Append(s, a)[i] = s[i]
      /\ Append(s, a)[Len(s) + 1] = a
  OBVIOUS
<1>2. Len(s) \in Nat
  OBVIOUS
<1>3. ASSUME In(x, s)  PROVE In(x, Append(s, a))
  BY <1>1, <1>2, <1>3 DEF In
<1>4. ASSUME x = a  PROVE In(x, Append(s, a))
  <2>1. Len(s) + 1 \in DOMAIN Append(s, a)
    BY <1>1, <1>2
  <2>2. QED
    BY <1>1, <1>4, <2>1 DEF In
<1>5. ASSUME In(x, Append(s, a))  PROVE In(x, s) \/ x = a
  BY <1>1, <1>2, <1>5 DEF In
<1>6. QED
  BY <1>3, <1>4, <1>5

-----------------------------------------------------------------------------
(* Types.  The consumer holds a position only while it handles it or       *)
(* acknowledges it, and that position was delivered.                       *)

Holding == consumer \in {"handle", "ack"} => current > 0

TypeInv == TypeOK /\ Holding

LEMMA TypeInvInit == Init => TypeInv
BY ScoreUpdateAssumption
   DEF Init, TypeInv, Holding, TypeOK

\* Every step keeps the types.
LEMMA TypeInvNext == TypeInv /\ [Next]_vars => TypeInv'
<1> SUFFICES ASSUME TypeInv, [Next]_vars  PROVE TypeInv'
  OBVIOUS
<1> USE ScoreUpdateAssumption DEF TypeInv, Holding
<1>1. CASE Start
  BY <1>1 DEF Start, TypeOK, scoreVars, groupVars, consumerVars
<1>2. CASE SubscriberStart
  BY <1>2 DEF SubscriberStart, EnsureGroup, TypeOK, scoreVars
<1>3. CASE StartTimeout
  BY <1>3 DEF StartTimeout, TypeOK, scoreVars, groupVars, consumerVars
<1>4. CASE Crash
  BY <1>4 DEF Crash, TypeOK, scoreVars, groupVars
<1>5. ASSUME NEW u \in Update, UpdateEntryScore(u)  PROVE TypeInv'
  BY <1>5 DEF UpdateEntryScore, AddScore, TypeOK, processVars, groupVars, consumerVars
<1>6. ASSUME NEW u \in Update, UpdateEntryScoreFails(u)  PROVE TypeInv'
  <2>1. /\ request' \in [Update -> {"new", "answered", "failed"}]
        /\ board' \in [Entry -> Update \cup {None}]
        /\ applied' \in Seq(Update)
    <3>1. CASE AddScore(u)
      BY <1>6, <3>1 DEF UpdateEntryScoreFails, AddScore, TypeOK
    <3>2. CASE UNCHANGED <<board, applied>>
      BY <1>6, <3>2 DEF UpdateEntryScoreFails, TypeOK
    <3>3. QED
      BY <1>6, <3>1, <3>2 DEF UpdateEntryScoreFails
  <2>2. QED
    BY <1>6, <2>1 DEF UpdateEntryScoreFails, TypeOK, processVars, groupVars, consumerVars
<1>7. ASSUME NEW u \in Update, Publish(u)  PROVE TypeInv'
  <2>1. stream' \in Seq(Update) /\ Len(stream) <= Len(stream')
    <3>1. CASE stream' = Append(stream, u)
      BY <3>1 DEF TypeOK
    <3>2. CASE stream' = stream \o <<u, u>>
      <4>1. <<u, u>> \in Seq(Update) /\ Len(<<u, u>>) = 2
        OBVIOUS
      <4>2. QED
        BY <3>2, <4>1, ConcatProperties DEF TypeOK
    <3>3. QED
      BY <1>7, <3>1, <3>2 DEF Publish
  <2>2. QED
    BY <1>7, <2>1 DEF Publish, TypeOK, processVars, scoreVars, groupVars, consumerVars
<1>8. ASSUME NEW u \in Update, PublishFails(u)  PROVE TypeInv'
  BY <1>8 DEF PublishFails, TypeOK, processVars, scoreVars, groupVars, consumerVars
<1>9. ASSUME NEW u \in Update, Broadcast(u)  PROVE TypeInv'
  BY <1>9 DEF Broadcast, TypeOK, processVars, scoreVars, groupVars, consumerVars
<1>10. CASE Read
  BY <1>10 DEF Read, Deliver, TypeOK, processVars, scoreVars
<1>11. CASE ReadFails
  BY <1>11 DEF ReadFails, Deliver, TypeOK, processVars, scoreVars, consumerVars
<1>12. CASE Record
  BY <1>12 DEF Record, TypeOK, processVars, scoreVars, groupVars
<1>13. CASE RecordFails
  <2>1. current \in 1..lastDelivered
    BY <1>13 DEF RecordFails, TypeOK
  <2>2. unrecorded' \in SUBSET (1..lastDelivered)
    BY <1>13, <2>1 DEF RecordFails, TypeOK
  <2>3. history' = history \/ history' = Append(history, current)
    BY <1>13 DEF RecordFails
  <2>4. history' \in Seq(1..lastDelivered)
    <3>1. history \in Seq(1..lastDelivered)
      BY DEF TypeOK
    <3>2. Append(history, current) \in Seq(1..lastDelivered)
      BY <2>1, <3>1
    <3>3. QED
      BY <2>3, <3>1, <3>2
  <2>5. QED
    BY <1>13, <2>2, <2>4 DEF RecordFails, TypeOK, processVars, scoreVars, groupVars
<1>14. CASE Ack
  BY <1>14 DEF Ack, TypeOK, processVars, scoreVars
<1>15. CASE UNCHANGED vars
  BY <1>15 DEF vars, TypeOK, processVars, scoreVars, groupVars, consumerVars
<1>16. QED
  BY <1>1, <1>2, <1>3, <1>4, <1>5, <1>6, <1>7, <1>8, <1>9, <1>10, <1>11, <1>12,
     <1>13, <1>14, <1>15 DEF Next, Consume

\* The state variables have their types, and no position is delivered, pending
\* or recorded that the stream does not have.
THEOREM TypeCorrect == Spec => []TypeOK
<1>1. TypeInv => TypeOK
  BY DEF TypeInv
<1>2. QED
  BY <1>1, TypeInvInit, TypeInvNext, PTL DEF Spec

LEMMA TypeInvCorrect == Spec => []TypeInv
BY TypeInvInit, TypeInvNext, PTL DEF Spec

-----------------------------------------------------------------------------
(* The history table follows the stream.  While an entry is being handled  *)
(* every row is of an earlier one; rows exist only once the group does, and *)
(* the group's cursor never moves back behind its start.                   *)

GroupStarted ==
  /\ groupAt = None => consumer = "none" /\ history = <<>>
  /\ groupAt # None => groupAt <= lastDelivered

RowsAreOlder ==
  consumer = "handle" => /\ groupAt < current
                         /\ \A i \in DOMAIN history : history[i] < current

HistoryInv == TypeInv /\ GroupStarted /\ RowsAreOlder /\ HistoryFollowsStream

LEMMA HistoryInvInit == Init => HistoryInv
BY TypeInvInit DEF Init, HistoryInv, GroupStarted, RowsAreOlder, HistoryFollowsStream

\* A row of the entry being handled keeps the table in the stream's order.
LEMMA RecordInOrder ==
  ASSUME HistoryInv, consumer = "handle", history' = Append(history, current),
         UNCHANGED groupVars
  PROVE  HistoryFollowsStream'
<1>1. /\ history \in Seq(Nat) /\ current \in Nat
      /\ groupAt \in Nat
  BY DEF HistoryInv, TypeInv, TypeOK, GroupStarted
<1>2. /\ DOMAIN history' = 1..(Len(history) + 1)
      /\ DOMAIN history = 1..Len(history)
      /\ \A i \in 1..Len(history) : history'[i] = history[i]
      /\ history'[Len(history) + 1] = current
      /\ Len(history) \in Nat
  BY <1>1
<1>3. /\ groupAt < current
      /\ \A i \in 1..Len(history) : history[i] < current
  BY <1>2 DEF HistoryInv, RowsAreOlder
<1>4. \A i \in 1..Len(history) :
        history[i] > groupAt /\ \A j \in 1..(i - 1) : history[j] < history[i]
  BY <1>2 DEF HistoryInv, HistoryFollowsStream
<1>5. SUFFICES ASSUME NEW i \in 1..(Len(history) + 1)
               PROVE  /\ history'[i] > groupAt
                      /\ \A j \in 1..(i - 1) : history'[j] < history'[i]
  BY <1>2 DEF HistoryFollowsStream, groupVars
<1>6. CASE i \in 1..Len(history)
  <2>1. \A j \in 1..(i - 1) : j \in 1..Len(history)
    BY <1>2, <1>6
  <2>2. QED
    BY <1>2, <1>4, <1>6, <2>1
<1>7. CASE i = Len(history) + 1
  <2>1. 1..(i - 1) = 1..Len(history)
    BY <1>2, <1>7
  <2>2. QED
    BY <1>1, <1>2, <1>3, <1>7, <2>1
<1>8. QED
  BY <1>2, <1>6, <1>7

\* Every step keeps the history table in order.
LEMMA HistoryInvNext == HistoryInv /\ [Next]_vars => HistoryInv'
<1> SUFFICES ASSUME HistoryInv, [Next]_vars  PROVE HistoryInv'
  OBVIOUS
<1>1. TypeInv'
  BY TypeInvNext DEF HistoryInv
<1>2. TypeOK /\ TypeOK'
  BY <1>1 DEF HistoryInv, TypeInv
<1> SUFFICES GroupStarted' /\ RowsAreOlder' /\ HistoryFollowsStream'
  BY <1>1 DEF HistoryInv
<1> DEFINE Rest == GroupStarted' /\ RowsAreOlder' /\ HistoryFollowsStream'
<1>3. CASE UNCHANGED <<groupVars, consumerVars, history>>
  BY <1>3 DEF HistoryInv, GroupStarted, RowsAreOlder, HistoryFollowsStream,
     groupVars, consumerVars
<1>4. CASE SubscriberStart
  <2>1. history' = history /\ consumer' = "read" /\ groupAt' # None
    BY <1>2, <1>4, ScoreUpdateAssumption DEF SubscriberStart, EnsureGroup, TypeOK
  <2>2. GroupStarted'
    BY <1>2, <1>4, <2>1, ScoreUpdateAssumption
       DEF SubscriberStart, EnsureGroup, TypeOK, HistoryInv, GroupStarted
  <2>3. HistoryFollowsStream'
    BY <1>4, <2>1 DEF SubscriberStart, EnsureGroup, HistoryInv, GroupStarted,
       HistoryFollowsStream
  <2>4. QED
    BY <2>1, <2>2, <2>3 DEF RowsAreOlder
<1>5. CASE Crash
  BY <1>5 DEF Crash, groupVars, HistoryInv, GroupStarted, RowsAreOlder, HistoryFollowsStream
<1>6. CASE Read
  <2>1. groupAt # None /\ groupAt \in Nat /\ groupAt <= lastDelivered
    BY <1>2, <1>6 DEF Read, Deliver, TypeOK, HistoryInv, GroupStarted
  <2>2. /\ groupAt' = groupAt /\ history' = history
        /\ lastDelivered' = lastDelivered + 1 /\ current' = lastDelivered + 1
    BY <1>6 DEF Read, Deliver
  <2>3. \A i \in DOMAIN history : history[i] <= lastDelivered
    BY <1>2 DEF TypeOK
  <2>4. QED
    BY <1>2, <2>1, <2>2, <2>3
       DEF TypeOK, HistoryInv, GroupStarted, RowsAreOlder, HistoryFollowsStream
<1>7. CASE ReadFails
  BY <1>2, <1>7 DEF ReadFails, Deliver, consumerVars, TypeOK, HistoryInv, GroupStarted,
     RowsAreOlder, HistoryFollowsStream
<1>8. ASSUME consumer = "handle", consumer' = "ack", UNCHANGED groupVars,
             history' = Append(history, current)
      PROVE  Rest
  <2>1. HistoryFollowsStream'
    BY <1>8, RecordInOrder
  <2>2. QED
    BY <1>8, <2>1 DEF groupVars, HistoryInv, GroupStarted, RowsAreOlder
<1>9. ASSUME consumer = "handle", consumer' = "ack", UNCHANGED groupVars,
             UNCHANGED history
      PROVE  Rest
  BY <1>9 DEF groupVars, HistoryInv, GroupStarted, RowsAreOlder, HistoryFollowsStream
<1>10. CASE Record
  BY <1>8, <1>10 DEF Record
<1>11. CASE RecordFails
  BY <1>8, <1>9, <1>11 DEF RecordFails
<1>12. CASE Ack
  BY <1>12 DEF Ack, HistoryInv, GroupStarted, RowsAreOlder, HistoryFollowsStream
<1>13. CASE Start
  BY <1>3, <1>13 DEF Start
<1>14. CASE StartTimeout
  BY <1>3, <1>14 DEF StartTimeout
<1>15. ASSUME NEW u \in Update,
             \/ UpdateEntryScore(u) \/ UpdateEntryScoreFails(u)
             \/ Publish(u) \/ PublishFails(u) \/ Broadcast(u)
      PROVE  Rest
  BY <1>3, <1>15 DEF UpdateEntryScore, UpdateEntryScoreFails, Publish, PublishFails,
     Broadcast
<1>16. CASE UNCHANGED vars
  BY <1>3, <1>16 DEF vars
<1>17. QED
  BY <1>4, <1>5, <1>6, <1>7, <1>10, <1>11, <1>12, <1>13, <1>14, <1>15, <1>16
     DEF Next, Consume

\* At most one history row per stream entry, in the stream's order, and only for
\* entries after the group's start, whatever crashes and whatever is lost.
THEOREM HistoryFollowsStreamCorrect == Spec => []HistoryFollowsStream
<1>1. HistoryInv => HistoryFollowsStream
  BY DEF HistoryInv
<1>2. QED
  BY <1>1, HistoryInvInit, HistoryInvNext, PTL DEF Spec

-----------------------------------------------------------------------------
(* Nothing is published that was not applied.                              *)

LEMMA PublishedInit == Init => PublishedWasApplied
BY DEF Init, PublishedWasApplied, In

\* Every step keeps it: only AddScore starts the two goroutines, and what was
\* applied stays applied.
LEMMA PublishedNext ==
  TypeInv /\ PublishedWasApplied /\ [Next]_vars => PublishedWasApplied'
<1> SUFFICES ASSUME TypeInv, PublishedWasApplied, [Next]_vars
             PROVE  PublishedWasApplied'
  OBVIOUS
<1>1. /\ applied \in Seq(Update) /\ stream \in Seq(Update) /\ announced \in Seq(Update)
      /\ publishing \in SUBSET Update /\ broadcasting \in SUBSET Update
  BY DEF TypeInv, TypeOK
<1>2. /\ \A i \in DOMAIN stream : stream[i] \in Update
      /\ \A i \in DOMAIN announced : announced[i] \in Update
  BY <1>1
<1>3. CASE UNCHANGED <<applied, publishing, broadcasting, announced, stream>>
  BY <1>3 DEF PublishedWasApplied, In
<1>4. ASSUME NEW u \in Update, AddScore(u), UNCHANGED <<announced, stream>>,
             publishing' \subseteq publishing \cup {u},
             broadcasting' \subseteq broadcasting \cup {u}
      PROVE  PublishedWasApplied'
  <2>1. \A x : In(x, applied') <=> In(x, applied) \/ x = u
    BY <1>1, <1>4, InAppend DEF AddScore
  <2>2. QED
    BY <1>1, <1>4, <2>1 DEF PublishedWasApplied
<1>5. ASSUME NEW u \in Update, UpdateEntryScore(u)  PROVE PublishedWasApplied'
  BY <1>4, <1>5 DEF UpdateEntryScore
<1>6. ASSUME NEW u \in Update, UpdateEntryScoreFails(u)  PROVE PublishedWasApplied'
  BY <1>3, <1>4, <1>6 DEF UpdateEntryScoreFails
<1>7. ASSUME NEW u \in Update, Publish(u)  PROVE PublishedWasApplied'
  <2>1. In(u, applied)
    BY <1>7 DEF Publish, PublishedWasApplied
  <2>2. \A i \in DOMAIN stream' : stream'[i] = u \/ (i \in DOMAIN stream /\ stream'[i] = stream[i])
    <3>1. CASE stream' = Append(stream, u)
      BY <1>1, <3>1, AppendElements
    <3>2. CASE stream' = stream \o <<u, u>>
      <4>1. /\ <<u, u>> \in Seq(Update) /\ Len(<<u, u>>) = 2
            /\ \A k \in 1..2 : <<u, u>>[k] = u
        OBVIOUS
      <4>2. /\ stream' \in Seq(Update) /\ Len(stream') = Len(stream) + 2
            /\ \A i \in 1..(Len(stream) + 2) :
                 stream'[i] = IF i <= Len(stream) THEN stream[i] ELSE <<u, u>>[i - Len(stream)]
        BY <1>1, <3>2, <4>1, ConcatProperties
      <4>3. /\ DOMAIN stream' = 1..(Len(stream) + 2) /\ DOMAIN stream = 1..Len(stream)
            /\ Len(stream) \in Nat
        BY <1>1, <4>2
      <4>4. ASSUME NEW i \in 1..(Len(stream) + 2), ~(i <= Len(stream))
            PROVE  stream'[i] = u
        <5>1. i - Len(stream) \in 1..2
          BY <4>3, <4>4
        <5>2. QED
          BY <4>1, <4>2, <4>4, <5>1
      <4>5. ASSUME NEW i \in 1..(Len(stream) + 2), i <= Len(stream)
            PROVE  i \in DOMAIN stream /\ stream'[i] = stream[i]
        BY <4>2, <4>3, <4>5
      <4>6. SUFFICES ASSUME NEW i \in DOMAIN stream'
                     PROVE  stream'[i] = u \/ (i \in DOMAIN stream /\ stream'[i] = stream[i])
        OBVIOUS
      <4>7. i \in 1..(Len(stream) + 2)
        BY <4>3
      <4>8. QED
        BY <4>4, <4>5, <4>7
    <3>3. QED
      BY <1>7, <3>1, <3>2 DEF Publish
  <2>3. QED
    BY <1>7, <2>1, <2>2 DEF Publish, scoreVars, PublishedWasApplied
<1>8. ASSUME NEW u \in Update, PublishFails(u)  PROVE PublishedWasApplied'
  BY <1>8 DEF PublishFails, scoreVars, PublishedWasApplied
<1>9. ASSUME NEW u \in Update, Broadcast(u)  PROVE PublishedWasApplied'
  <2>1. In(u, applied)
    BY <1>9 DEF Broadcast, PublishedWasApplied
  <2>2. \A i \in DOMAIN announced' :
          announced'[i] = u \/ (i \in DOMAIN announced /\ announced'[i] = announced[i])
    BY <1>1, <1>9, AppendElements DEF Broadcast
  <2>3. QED
    BY <1>9, <2>1, <2>2 DEF Broadcast, scoreVars, PublishedWasApplied
<1>10. CASE Crash
  BY <1>10 DEF Crash, scoreVars, PublishedWasApplied
<1>11. CASE Start \/ SubscriberStart \/ StartTimeout
  BY <1>3, <1>11 DEF Start, SubscriberStart, StartTimeout, scoreVars
<1>12. CASE Consume
  BY <1>3, <1>12 DEF Consume, Read, ReadFails, Deliver, Record, RecordFails, Ack, scoreVars
<1>13. CASE UNCHANGED vars
  BY <1>3, <1>13 DEF vars, scoreVars
<1>14. QED
  BY <1>5, <1>6, <1>7, <1>8, <1>9, <1>10, <1>11, <1>12, <1>13 DEF Next

\* The stream and the hub are only told of scores the sorted set has taken.
THEOREM PublishedWasAppliedCorrect == Spec => []PublishedWasApplied
<1>1. Init => TypeInv /\ PublishedWasApplied
  BY TypeInvInit, PublishedInit
<1>2. (TypeInv /\ PublishedWasApplied) /\ [Next]_vars => (TypeInv /\ PublishedWasApplied)'
  BY TypeInvNext, PublishedNext
<1>3. QED
  BY <1>1, <1>2, PTL DEF Spec

-----------------------------------------------------------------------------
(* Nothing is skipped.  An entry leaves the pending list only when the     *)
(* consumer is done with it, and the group starts with none delivered.     *)

Accounted(i) == In(i, history) \/ i \in unrecorded \/ i \in pending

Handled ==
  /\ consumer = "handle" => current \in pending
  /\ consumer = "ack" => In(current, history) \/ current \in unrecorded

AccountInv == HistoryInv /\ Handled /\ DeliveredIsAccounted

LEMMA AccountInvInit == Init => AccountInv
BY HistoryInvInit DEF Init, AccountInv, Handled, DeliveredIsAccounted

\* What was recorded, or given up, stays so.
LEMMA FatesStay ==
  ASSUME TypeInv, [Next]_vars
  PROVE  /\ unrecorded \subseteq unrecorded'
         /\ \A i : In(i, history) => In(i, history')
<1>1. CASE UNCHANGED history
  BY <1>1 DEF Next, Consume, Start, SubscriberStart, StartTimeout, Crash, UpdateEntryScore,
     UpdateEntryScoreFails, Publish, PublishFails, Broadcast, Read, ReadFails, Deliver,
     Record, RecordFails, Ack, vars
<1>2. CASE history' = Append(history, current) /\ (Record \/ RecordFails)
  <2>1. history \in Seq(1..lastDelivered) /\ current \in 1..lastDelivered
    BY <1>2 DEF TypeInv, Holding, TypeOK, Record, RecordFails
  <2> QED
    BY <1>2, <2>1, InAppend DEF Record, RecordFails
<1> QED
  BY <1>1, <1>2 DEF Next, Consume, Start, SubscriberStart, StartTimeout, Crash,
     UpdateEntryScore, UpdateEntryScoreFails, Publish, PublishFails, Broadcast, Read,
     ReadFails, Deliver, Record, RecordFails, Ack, vars

LEMMA AccountInvNext == AccountInv /\ [Next]_vars => AccountInv'
<1> SUFFICES ASSUME AccountInv, [Next]_vars  PROVE Handled' /\ DeliveredIsAccounted'
  BY HistoryInvNext DEF AccountInv
<1>0. /\ TypeInv /\ TypeOK /\ GroupStarted /\ Handled /\ DeliveredIsAccounted
  BY DEF AccountInv, HistoryInv, TypeInv
<1> DEFINE Rest == Handled' /\ DeliveredIsAccounted'
<1>1. /\ lastDelivered \in Nat /\ groupAt \in Nat \cup {None} /\ Len(stream) \in Nat
      /\ unrecorded \subseteq unrecorded'
      /\ \A i : In(i, history) => In(i, history')
  BY <1>0, FatesStay DEF TypeOK
<1>2. CASE UNCHANGED <<groupVars, consumerVars>>
  BY <1>0, <1>1, <1>2 DEF groupVars, consumerVars, Handled, DeliveredIsAccounted
<1>3. CASE SubscriberStart
  <2>1. CASE groupAt = None
    BY <1>1, <1>3, <2>1, ScoreUpdateAssumption DEF SubscriberStart, EnsureGroup, Handled, DeliveredIsAccounted
  <2>2. CASE groupAt # None
    BY <1>0, <1>1, <1>3, <2>2 DEF SubscriberStart, EnsureGroup, Handled, DeliveredIsAccounted
  <2> QED
    BY <2>1, <2>2
<1>4. CASE Crash
  BY <1>0, <1>1, <1>4 DEF Crash, groupVars, Handled, DeliveredIsAccounted
<1>5. CASE Deliver /\ (Read \/ ReadFails)
  <2>1. \A i \in (groupAt' + 1)..lastDelivered' :
          groupAt' # None => i \in (groupAt + 1)..lastDelivered \/ i \in pending'
    BY <1>1, <1>5 DEF Deliver
  <2>2. DeliveredIsAccounted'
    BY <1>0, <1>1, <1>5, <2>1 DEF Deliver, DeliveredIsAccounted
  <2>3. Handled'
    BY <1>5 DEF Deliver, Read, ReadFails, consumerVars, Handled
  <2> QED
    BY <2>2, <2>3
<1>6. CASE Record \/ RecordFails
  <2>1. In(current, history') \/ current \in unrecorded'
    <3>1. history \in Seq(1..lastDelivered) /\ current \in 1..lastDelivered
      BY <1>0, <1>6 DEF TypeInv, Holding, TypeOK, Record, RecordFails
    <3> QED
      <4>1. CASE history' = Append(history, current)
        BY <3>1, <4>1, InAppend
      <4>2. CASE current \in unrecorded'
        BY <4>2
      <4> QED
        BY <1>6, <4>1, <4>2 DEF Record, RecordFails
  <2>2. Handled'
    BY <1>6, <2>1 DEF Record, RecordFails, Handled
  <2>3. DeliveredIsAccounted'
    BY <1>0, <1>1, <1>6 DEF Record, RecordFails, groupVars, DeliveredIsAccounted
  <2> QED
    BY <2>2, <2>3
<1>7. CASE Ack
  <2>1. Accounted(current)' /\ UNCHANGED <<groupAt, lastDelivered, current, history, unrecorded>>
    BY <1>0, <1>7 DEF Ack, Handled, Accounted
  <2>2. \A i \in pending : i = current \/ i \in pending'
    BY <1>7 DEF Ack
  <2>3. DeliveredIsAccounted'
    BY <1>0, <2>1, <2>2 DEF DeliveredIsAccounted, Accounted
  <2> QED
    BY <1>7, <2>3 DEF Ack, Handled
<1>8. ASSUME NEW u \in Update,
             \/ UpdateEntryScore(u) \/ UpdateEntryScoreFails(u)
             \/ Publish(u) \/ PublishFails(u) \/ Broadcast(u)
      PROVE  UNCHANGED <<groupVars, consumerVars>>
  BY <1>8 DEF UpdateEntryScore, UpdateEntryScoreFails, Publish, PublishFails, Broadcast
<1>9. CASE Start \/ StartTimeout \/ UNCHANGED vars
  BY <1>2, <1>9 DEF Start, StartTimeout, vars
<1>10. QED
  BY <1>2, <1>3, <1>4, <1>5, <1>6, <1>7, <1>8, <1>9 DEF Next, Consume, Read, ReadFails

\* Every entry delivered since the group exists is recorded, or was given up by a
\* failed insert, or is pending, for any number of crashes, restarts and lost
\* replies: the consumer neither passes an entry over nor acknowledges one that
\* its handler has not ended.
THEOREM DeliveredIsAccountedCorrect == Spec => []DeliveredIsAccounted
<1>1. AccountInv => DeliveredIsAccounted
  BY DEF AccountInv
<1>2. QED
  BY <1>1, AccountInvInit, AccountInvNext, PTL DEF Spec
=============================================================================
