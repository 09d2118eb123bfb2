------------------------- MODULE LeaderboardsProps -------------------------
(***************************************************************************)
(* What is claimed of leaderboard metadata and its cached copies.          *)
(***************************************************************************)
EXTENDS Leaderboards

\* The rows i has had.
Had(i) == {versions[i][k] : k \in DOMAIN versions[i]}

TypeOK ==
  /\ table \in [Id -> Row \cup {None}]
  /\ versions \in [Id -> Seq(Row)]
  /\ cached \in [Id -> Row \cup {None}]
  /\ pc \in [Request -> {"idle", "get", "find", "set", "use", "done", "failed"}]
  /\ op \in [Request -> Operation \cup {None}]
  /\ \A r \in Request : pc[r] # "idle" => op[r] \in Operation
  /\ model \in [Request -> Row \cup {None}]
  /\ \A r \in Request : pc[r] \in {"set", "use", "done"} => model[r] \in Row

-----------------------------------------------------------------------------
(* Safety.                                                                 *)

\* A cached copy, and the leaderboard a request answers with, is a row the
\* table really had: fills and updates never mix two versions
\* (getCacheLeaderboard, UpdateLeaderboard).
CopiesAreRows ==
  /\ \A i \in Id : cached[i] # None => cached[i] \in Had(i)
  /\ \A r \in Request : model[r] # None => model[r] \in Had(op[r].Id)

\* r is over and may have set column f of i to v.
MaySet(r, i, f, v) ==
  /\ pc[r] \in {"done", "failed"}
  /\ op[r].Kind = "update" /\ op[r].Id = i
  /\ f \in DOMAIN op[r].Patch /\ op[r].Patch[f] = v

\* No update is undone by a stale copy: a column that a successful update set
\* holds that update's value or one that another update of the same column asked
\* for, earlier or later.  A value that no other request asked for, like the one
\* of the copy the request began with, never comes back (UpdateLeaderboard reads
\* a copy that may be stale, but writes only the columns of the request).
NoLostUpdate ==
  \A r \in Request : pc[r] = "done" /\ op[r].Kind = "update" =>
    \A f \in DOMAIN op[r].Patch :
      LET i == op[r].Id IN
        \/ table[i][f] = op[r].Patch[f]
        \/ \E q \in Request \ {r} : MaySet(q, i, f, table[i][f])

-----------------------------------------------------------------------------
(* Liveness, under FairSpec.                                               *)

\* Once no request writes any more, the cache stops serving old rows: the TTL
\* bounds how long a stale copy lives, whatever fills were in flight.
StaleCopiesGo ==
  \A i \in Id :
    <>[](cached[i] \in {None, table[i]})
=============================================================================
