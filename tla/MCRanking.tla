------------------------------ MODULE MCRanking ------------------------------
(* Small instances of the sorted-set operations for TLC. *)
EXTENDS RankingProps
=============================================================================
