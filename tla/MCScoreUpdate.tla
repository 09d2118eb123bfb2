--------------------------- MODULE MCScoreUpdate ---------------------------
(* Small instances of the score path for TLC. *)
EXTENDS ScoreUpdateProps

CONSTANT e1

\* All scores are for the same entry.
OneEntry == [u \in Update |-> e1]

AllFaults == Fault
NoFaults == {}
=============================================================================
