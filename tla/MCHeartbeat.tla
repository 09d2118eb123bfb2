---------------------------- MODULE MCHeartbeat ----------------------------
(* The deadlines of a connection, in units of 60/31 seconds (pongWait 60 s, *)
(* writeWait 10 s), with delays that use up the slack.                      *)
EXTENDS HeartbeatProps
=============================================================================
