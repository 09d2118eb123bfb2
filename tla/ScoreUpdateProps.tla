-------------------------- MODULE ScoreUpdateProps --------------------------
(***************************************************************************)
(* What is claimed of the path a score takes from the request to the       *)
(* sorted set, the history table and the WebSocket hub.                    *)
(***************************************************************************)
EXTENDS ScoreUpdate

\* A value occurs in a sequence.
In(x, s) == \E i \in DOMAIN s : s[i] = x

TypeOK ==
  /\ process \in {"down", "http", "up"}
  /\ starts \in 0..MaxStarts
  /\ startCtx \in {"live", "expired"}
  /\ request \in [Update -> {"new", "answered", "failed"}]
  /\ board \in [Entry -> Update \cup {None}]
  /\ applied \in Seq(Update) /\ announced \in Seq(Update) /\ stream \in Seq(Update)
  /\ publishing \in SUBSET Update /\ broadcasting \in SUBSET Update
  /\ groupAt \in Nat \cup {None}
  /\ lastDelivered \in Nat /\ lastDelivered <= Len(stream)
  /\ pending \in SUBSET (1..lastDelivered)
  /\ consumer \in {"none", "read", "handle", "ack"}
  /\ current \in 0..lastDelivered
  /\ history \in Seq(1..lastDelivered)
  /\ unrecorded \in SUBSET (1..lastDelivered)

-----------------------------------------------------------------------------
(* Safety.                                                                 *)

\* The history table has at most one row for each stream entry, in the order of
\* the stream and of entries after the group's creation only, through crashes,
\* restarts and lost replies: Subscribe reads ">" with one consumer.
HistoryFollowsStream ==
  \A i \in DOMAIN history :
    /\ history[i] > groupAt
    /\ \A j \in 1..(i - 1) : history[j] < history[i]

\* Nothing is skipped: every entry that the group was given since its creation
\* has a row, or is one whose insert failed, or is still pending, through crashes,
\* restarts and lost replies: none is passed over or acknowledged unhandled (the
\* order of XREADGROUP, handler and XACK in Subscribe).
DeliveredIsAccounted ==
  groupAt # None => \A i \in (groupAt + 1)..lastDelivered :
    In(i, history) \/ i \in unrecorded \/ i \in pending

\* Nothing is made up: what the stream and the hub are told of was written to
\* the sorted set first (UpdateEntryScore returns before publishEvent when
\* AddScore fails).
PublishedWasApplied ==
  /\ \A i \in DOMAIN stream : In(stream[i], applied)
  /\ \A i \in DOMAIN announced : In(announced[i], applied)
  /\ publishing \cup broadcasting \subseteq {u \in Update : In(u, applied)}

-----------------------------------------------------------------------------
(* Liveness, under FairSpec.                                               *)

\* While the process is up, the consumer gets to every entry of the stream: no
\* failure of the handler, of a read or of an acknowledgement stops its loop.
StreamDrains ==
  \A n \in 1..(2 * Cardinality(Update)) :
    (process = "up" /\ Len(stream) >= n) ~> (lastDelivered >= n \/ process = "down")

-----------------------------------------------------------------------------
(* Statements of the repository that the code does not meet.               *)

\* The entry at position i has been dealt with: it precedes the group, or was
\* delivered and is not in the consumer's hands.
Settled(i) == i <= lastDelivered /\ ~(consumer = "handle" /\ current = i)

\* "Track score changes and user activity over time" (README.md:61): a score
\* that was accepted has a row once the stream is done with it.
EveryScoreIsTracked ==
  \A i \in DOMAIN stream : Settled(i) => In(i, history)

\* "Historical tracking and analytics" (README.md:76): without any fault, an
\* entry that was taken by the consumer and acknowledged has a row.
AcknowledgedIsRecorded ==
  \A i \in DOMAIN stream :
    Settled(i) /\ groupAt # None /\ i > groupAt /\ i \notin pending => In(i, history)
=============================================================================
