--------------------------- MODULE MCLeaderboards ---------------------------
(* Small instances of the leaderboard metadata for TLC. *)
EXTENDS LeaderboardsProps
=============================================================================
