---------------------------- MODULE ScoreUpdate ----------------------------
(***************************************************************************)
(* The life of a submitted score: UpdateEntryScore writes it to the sorted *)
(* set and starts two goroutines, one that appends it to the Redis stream  *)
(* and one that hands it to the WebSocket hub; the stream's only consumer  *)
(* inserts it in ClickHouse (internal/service, pkg/cache,                  *)
(* presentation/rstream).                                                  *)
(*                                                                         *)
(* Redis and ClickHouse keep their state when the process stops.  The      *)
(* process keeps nothing, and neither of its two goroutines nor the        *)
(* consumer is waited for, so stopping it and crashing are the same step.  *)
(***************************************************************************)
EXTENDS Naturals, Sequences, FiniteSets

CONSTANTS
  Update,     \* score submissions; each is one request
  Entry,      \* the entries of one leaderboard
  EntryOf,    \* the entry a submission is about
  None,
  Faults,     \* the kinds of fault that may happen, a subset of Fault
  MaxStarts   \* bound on the number of times the process is started

Fault == {"crash", "score", "publish", "reply", "record", "ack"}

ASSUME ScoreUpdateAssumption ==
  /\ EntryOf \in [Update -> Entry]
  /\ None \notin Update \cup Nat
  /\ Faults \subseteq Fault
  /\ MaxStarts \in Nat

VARIABLES
  process,        \* down, http (the server accepts requests), up
  starts,         \* times the process was started
  startCtx,       \* the context of the fx start hooks: live, expired
  request,        \* each submission: new, answered, failed
  board,          \* the sorted set: the submission each entry's score is from
  applied,        \* history: submissions in the order they reached the board
  publishing,     \* submissions whose publishing goroutine has not finished
  broadcasting,   \* submissions whose broadcast goroutine has not finished
  announced,      \* submissions in the order the hub accepted them
  stream,         \* the Redis stream
  groupAt,        \* entries the stream had when its group was created, or None
  lastDelivered,  \* the group's last delivered entry, a position in stream
  pending,        \* the group's pending entries list, positions in stream
  consumer,       \* the Subscribe goroutine: none, read, handle, ack
  current,        \* the entry it is busy with
  history,        \* the ClickHouse rows, as positions in stream
  unrecorded      \* history: positions whose handler ended without a row

processVars == <<process, starts, startCtx>>
scoreVars == <<request, board, applied>>
groupVars == <<groupAt, lastDelivered, pending>>
consumerVars == <<consumer, current>>
historyVars == <<history, unrecorded>>
vars == <<processVars, scoreVars, publishing, broadcasting, announced, stream,
          groupVars, consumerVars, historyVars>>

Init ==
  /\ process = "down" /\ starts = 0 /\ startCtx = "expired"
  /\ request = [u \in Update |-> "new"]
  /\ board = [e \in Entry |-> None]
  /\ applied = <<>>
  /\ publishing = {} /\ broadcasting = {} /\ announced = <<>>
  /\ stream = <<>>
  /\ groupAt = None /\ lastDelivered = 0 /\ pending = {}
  /\ consumer = "none" /\ current = 0
  /\ history = <<>> /\ unrecorded = {}

-----------------------------------------------------------------------------
(* The process.                                                            *)

\* The fx hooks run in the order http, rstream, socket, and the first only
\* starts a goroutine: requests are served before the subscriber starts.
Start ==
  /\ process = "down" /\ starts < MaxStarts
  /\ process' = "http" /\ starts' = starts + 1 /\ startCtx' = "live"
  /\ UNCHANGED <<scoreVars, publishing, broadcasting, announced, stream,
                 groupVars, consumerVars, historyVars>>

EnsureGroupFromZero ==
  /\ groupAt' = 0 /\ lastDelivered' = 0
  /\ UNCHANGED pending

\* XGROUP CREATE at "$": a new group starts after the stream's last entry, and
\* one that exists (BUSYGROUP) keeps its position.
EnsureGroup ==
  /\ groupAt' = IF groupAt = None THEN Len(stream) ELSE groupAt
  /\ lastDelivered' = IF groupAt = None THEN Len(stream) ELSE lastDelivered
  /\ UNCHANGED pending

\* subscribeToLeaderboardUpdates: the group, then the Subscribe goroutine.
SubscriberStart ==
  /\ process = "http"
  /\ EnsureGroup
  /\ process' = "up" /\ consumer' = "read"
  /\ UNCHANGED <<starts, startCtx, scoreVars, publishing, broadcasting,
                 announced, stream, current, historyVars>>

\* The start timeout (15 s) passes.  The context belongs to the start hooks,
\* but the handler of the subscription holds on to it.
StartTimeout ==
  /\ process # "down" /\ startCtx = "live"
  /\ startCtx' = "expired"
  /\ UNCHANGED <<process, starts, scoreVars, publishing, broadcasting,
                 announced, stream, groupVars, consumerVars, historyVars>>

\* A panic of the hub, a failed start, a kill, or a stop, which waits for none
\* of the goroutines (Stop does nothing).
Crash ==
  /\ process # "down" /\ "crash" \in Faults
  /\ process' = "down" /\ consumer' = "none"
  /\ publishing' = {} /\ broadcasting' = {}
  /\ UNCHANGED <<starts, startCtx, scoreVars, announced, stream, groupVars,
                 current, historyVars>>

-----------------------------------------------------------------------------
(* UpdateEntryScore and publishEvent.                                      *)

\* AddScore: the entry's score is replaced, whatever it was.
AddScore(u) ==
  /\ board' = [board EXCEPT ![EntryOf[u]] = u]
  /\ applied' = Append(applied, u)

UpdateEntryScore(u) ==
  /\ process # "down" /\ request[u] = "new"
  /\ AddScore(u)
  /\ request' = [request EXCEPT ![u] = "answered"]
  /\ publishing' = publishing \cup {u}
  /\ broadcasting' = broadcasting \cup {u}
  /\ UNCHANGED <<processVars, announced, stream, groupVars, consumerVars, historyVars>>

PublishBeforeScore(u) ==
  /\ process # "down" /\ request[u] = "new" /\ "score" \in Faults
  /\ request' = [request EXCEPT ![u] = "failed"]
  /\ publishing' = publishing \cup {u}
  /\ UNCHANGED <<processVars, board, applied, broadcasting, announced, stream,
                 groupVars, consumerVars, historyVars>>

\* The leaderboard cannot be read, or ZADD fails, its effect unknown: the
\* caller gets an error and nothing is published.
UpdateEntryScoreFails(u) ==
  /\ process # "down" /\ request[u] = "new" /\ "score" \in Faults
  /\ AddScore(u) \/ UNCHANGED <<board, applied>>
  /\ request' = [request EXCEPT ![u] = "failed"]
  /\ UNCHANGED <<processVars, publishing, broadcasting, announced, stream,
                 groupVars, consumerVars, historyVars>>

\* XADD.  The client library repeats a command whose reply it lost, so the
\* entry can be stored twice.
Publish(u) ==
  /\ u \in publishing
  /\ publishing' = publishing \ {u}
  /\ \/ stream' = Append(stream, u)
     \/ "reply" \in Faults /\ stream' = stream \o <<u, u>>
  /\ UNCHANGED <<processVars, scoreVars, broadcasting, announced, groupVars,
                 consumerVars, historyVars>>

\* XADD fails: the error is logged, the event is gone.
PublishFails(u) ==
  /\ u \in publishing /\ "publish" \in Faults
  /\ publishing' = publishing \ {u}
  /\ UNCHANGED <<processVars, scoreVars, broadcasting, announced, stream,
                 groupVars, consumerVars, historyVars>>

BroadcastAgain(u) ==
  /\ u \in broadcasting
  /\ announced' = Append(announced, u)
  /\ UNCHANGED <<processVars, scoreVars, publishing, broadcasting, stream,
                 groupVars, consumerVars, historyVars>>

\* broadcaster.Broadcast returns once the hub's channel took the message.
Broadcast(u) ==
  /\ u \in broadcasting
  /\ broadcasting' = broadcasting \ {u}
  /\ announced' = Append(announced, u)
  /\ UNCHANGED <<processVars, scoreVars, publishing, stream, groupVars,
                 consumerVars, historyVars>>

-----------------------------------------------------------------------------
(* Subscribe and its handler.                                              *)

DeliverPastEnd ==
  /\ consumer = "read" /\ lastDelivered <= Len(stream)
  /\ lastDelivered' = lastDelivered + 1
  /\ pending' = pending \cup {lastDelivered + 1}
  /\ UNCHANGED <<processVars, scoreVars, publishing, broadcasting, announced,
                 stream, groupAt, historyVars>>

\* XREADGROUP ">" COUNT 1 takes the next entry for this consumer.
Deliver ==
  /\ consumer = "read" /\ lastDelivered < Len(stream)
  /\ lastDelivered' = lastDelivered + 1
  /\ pending' = pending \cup {lastDelivered + 1}
  /\ UNCHANGED <<processVars, scoreVars, publishing, broadcasting, announced,
                 stream, groupAt, historyVars>>

ReadNewest ==
  /\ consumer = "read" /\ lastDelivered < Len(stream)
  /\ lastDelivered' = Len(stream) /\ pending' = pending \cup {Len(stream)}
  /\ consumer' = "handle" /\ current' = Len(stream)
  /\ UNCHANGED <<processVars, scoreVars, publishing, broadcasting, announced,
                 stream, groupAt, historyVars>>

Read ==
  /\ Deliver
  /\ consumer' = "handle" /\ current' = lastDelivered + 1

\* The reply is lost: the entry is pending, the goroutine logs and loops.
ReadFails ==
  /\ Deliver /\ "reply" \in Faults
  /\ UNCHANGED consumerVars

\* The handler: decodeMessage, HistorySvc.Record, one ClickHouse insert under
\* the context of the start hooks.
Record ==
  /\ consumer = "handle" /\ startCtx = "live"
  /\ history' = Append(history, current)
  /\ consumer' = "ack"
  /\ UNCHANGED <<processVars, scoreVars, publishing, broadcasting, announced,
                 stream, groupVars, current, unrecorded>>

\* The insert fails: its context has expired, or ClickHouse is at fault, which
\* may have stored the row.  The error is logged.
RecordFails ==
  /\ consumer = "handle"
  /\ \/ /\ startCtx = "expired" \/ "record" \in Faults
        /\ unrecorded' = unrecorded \cup {current}
        /\ UNCHANGED history
     \/ /\ startCtx = "live" /\ "record" \in Faults
        /\ history' = Append(history, current)
        /\ UNCHANGED unrecorded
  /\ consumer' = "ack"
  /\ UNCHANGED <<processVars, scoreVars, publishing, broadcasting, announced,
                 stream, groupVars, current>>

AckAndReturn ==
  /\ consumer = "ack"
  /\ consumer' = "none"
  /\ pending' = pending \ {current}
  /\ UNCHANGED <<processVars, scoreVars, publishing, broadcasting, announced,
                 stream, groupAt, lastDelivered, current, historyVars>>

\* XACK, whatever the handler did; its own error is ignored.
Ack ==
  /\ consumer = "ack"
  /\ consumer' = "read"
  /\ \/ pending' = pending \ {current}
     \/ "ack" \in Faults /\ UNCHANGED pending
  /\ UNCHANGED <<processVars, scoreVars, publishing, broadcasting, announced,
                 stream, groupAt, lastDelivered, current, historyVars>>

-----------------------------------------------------------------------------

Consume == Read \/ ReadFails \/ Record \/ RecordFails \/ Ack

Next ==
  \/ Start \/ SubscriberStart \/ StartTimeout \/ Crash
  \/ \E u \in Update : \/ UpdateEntryScore(u) \/ UpdateEntryScoreFails(u)
                       \/ Publish(u) \/ PublishFails(u) \/ Broadcast(u)
  \/ Consume

Spec == Init /\ [][Next]_vars

(***************************************************************************)
(* Fairness.  Started goroutines are scheduled, the calls they make return *)
(* and the timer of the start context fires.  Nothing makes anyone submit  *)
(* a score or start the process.                                           *)
(***************************************************************************)
Fairness ==
  /\ WF_vars(SubscriberStart) /\ WF_vars(StartTimeout)
  /\ WF_vars(Consume)
  /\ \A u \in Update : WF_vars(Publish(u) \/ PublishFails(u)) /\ WF_vars(Broadcast(u))

FairSpec == Spec /\ Fairness
=============================================================================
