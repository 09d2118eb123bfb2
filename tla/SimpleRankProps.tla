--------------------------- MODULE SimpleRankProps ---------------------------
(***************************************************************************)
(* What is claimed of the service as a whole.                              *)
(***************************************************************************)
EXTENDS SimpleRank, ScoreUpdateProps

\* A score that somebody submitted after seeing another one is never shown
\* before it, to anyone, although every event is broadcast by a goroutine of
\* its own and whatever restarts: the hub had accepted what was seen.
CausalOrder ==
  \A c \in Connection : \A l \in DOMAIN received[c] : \A k \in 1..(l - 1) :
    received[c][l] \notin seen[received[c][k]]

\* The path of a score uses the hub as its contract demands, each event being
\* handed over once, and peers see of it what the contract allows.
SocketContract == Socket!Spec

\* An event that is being published while the subscriber runs reaches the handler:
\* it gets its row, or its own insert is tried and fails, unless the process ends.
\* Neither the other events, whatever became of them before, nor the expiry of the
\* start context keeps it from being handled.
PublishedIsHandled ==
  \A u \in Update : (u \in publishing /\ process = "up") ~>
    \/ \E i \in DOMAIN stream : stream[i] = u /\ (In(i, history) \/ i \in unrecorded)
    \/ process = "down"
=============================================================================
