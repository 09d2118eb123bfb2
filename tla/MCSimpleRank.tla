---------------------------- MODULE MCSimpleRank ----------------------------
(* The service with two watching connections and scores for two entries. *)
EXTENDS SimpleRankProps

CONSTANTS s1, s2, e1, e2

EachItsEntry == [u \in Update |-> IF u = s1 THEN e1 ELSE e2]
StopsAndFailedScores == {"crash", "score"}
=============================================================================
