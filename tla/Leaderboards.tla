---------------------------- MODULE Leaderboards ----------------------------
(***************************************************************************)
(* Leaderboard metadata: the PostgreSQL table, the copies Redis keeps for  *)
(* DefaultTTL, and the requests that read and update them through          *)
(* getCacheLeaderboard (internal/service/leaderboard.go).                  *)
(*                                                                         *)
(* A request is a goroutine of the HTTP server.  Each call it makes to     *)
(* Redis or PostgreSQL is one action, so other requests, and the expiry of *)
(* a key, fall between any two of them.  Submitting a score starts with    *)
(* the same lookup as reading a leaderboard and uses nothing of it, so     *)
(* "detail" stands for both here; what a submission does next is           *)
(* ScoreUpdate.                                                            *)
(***************************************************************************)
EXTENDS Naturals, Sequences

CONSTANTS
  Id,        \* leaderboard ids
  Field,     \* the columns an update may set: name, description, expired_at
  Value,     \* values of a column
  Request,   \* HTTP requests
  None       \* no row, no key, no model

Row == [Field -> Value]

ASSUME LeaderboardsAssumption == None \notin Row

\* UpdateLeaderboardReq.ToModel: the fields present, and their values.
Patch == UNION {[F -> Value] : F \in SUBSET Field}

Operation == [Kind : {"detail"}, Id : Id] \cup [Kind : {"update"}, Id : Id, Patch : Patch]

VARIABLES
  table,     \* the leaderboards table
  versions,  \* history: every row each id has had, oldest first
  cached,    \* the Redis keys
  pc,        \* where each request is
  op,        \* what it was asked
  model      \* the leaderboard it holds, which is the answer of a detail request

requestVars == <<pc, op, model>>
vars == <<table, versions, cached, requestVars>>

Init ==
  /\ table = [i \in Id |-> None]
  /\ versions = [i \in Id |-> <<>>]
  /\ cached = [i \in Id |-> None]
  /\ pc = [r \in Request |-> "idle"]
  /\ op = [r \in Request |-> None]
  /\ model = [r \in Request |-> None]

-----------------------------------------------------------------------------
(* PostgreSQL and Redis.                                                   *)

\* The row of i becomes v.
Write(i, v) ==
  /\ table' = [table EXCEPT ![i] = v]
  /\ versions' = [versions EXCEPT ![i] = Append(@, v)]

\* CreateLeaderboard: BeforeCreate gives the row an id of its own.
CreateLeaderboard(i, v) ==
  /\ table[i] = None
  /\ Write(i, v)
  /\ UNCHANGED <<cached, requestVars>>

\* Repository.Update: only the selected columns, of the row as it is now; a row
\* that is not there is not an error.
Update(i, patch) ==
  IF table[i] = None THEN UNCHANGED <<table, versions>>
  ELSE Write(i, [f \in Field |-> IF f \in DOMAIN patch THEN patch[f] ELSE table[i][f]])

NeverExpire(i) == FALSE /\ UNCHANGED vars

\* The key's TTL is over, or Redis evicts it.
Expire(i) ==
  /\ cached[i] # None
  /\ cached' = [cached EXCEPT ![i] = None]
  /\ UNCHANGED <<table, versions, requestVars>>

-----------------------------------------------------------------------------
(* A request.                                                              *)

Goto(r, l) == pc' = [pc EXCEPT ![r] = l]

Begin(r, o) ==
  /\ pc[r] = "idle"
  /\ Goto(r, "get")
  /\ op' = [op EXCEPT ![r] = o]
  /\ UNCHANGED <<table, versions, cached, model>>

GetIgnoringNil(r) ==
  /\ pc[r] = "get"
  /\ model' = [model EXCEPT ![r] = cached[op[r].Id]]
  /\ Goto(r, "use")
  /\ UNCHANGED <<table, versions, cached, op>>

\* cache.Get hits.
GetHit(r) ==
  /\ pc[r] = "get" /\ cached[op[r].Id] # None
  /\ model' = [model EXCEPT ![r] = cached[op[r].Id]]
  /\ Goto(r, "use")
  /\ UNCHANGED <<table, versions, cached, op>>

\* It misses; an error of Redis counts as a miss.
GetMiss(r) ==
  /\ pc[r] = "get"
  /\ Goto(r, "find")
  /\ UNCHANGED <<table, versions, cached, op, model>>

FindOneById(r) ==
  /\ pc[r] = "find" /\ table[op[r].Id] # None
  /\ model' = [model EXCEPT ![r] = table[op[r].Id]]
  /\ Goto(r, "set")
  /\ UNCHANGED <<table, versions, cached, op>>

\* No row, or an error of the database: FindOneById returns nil for both, and
\* the answer is ErrLeaderboardNotFound.
NotFound(r) ==
  /\ pc[r] = "find"
  /\ Goto(r, "failed")
  /\ UNCHANGED <<table, versions, cached, op, model>>

Set(r) ==
  /\ pc[r] = "set"
  /\ cached' = [cached EXCEPT ![op[r].Id] = model[r]]
  /\ Goto(r, "use")
  /\ UNCHANGED <<table, versions, op, model>>

\* Set fails, its effect unknown: the lookup fails with ErrInternal although
\* the row was read.
SetFails(r) ==
  /\ pc[r] = "set"
  /\ \/ cached' = [cached EXCEPT ![op[r].Id] = model[r]]
     \/ UNCHANGED cached
  /\ Goto(r, "failed")
  /\ UNCHANGED <<table, versions, op, model>>

\* GetLeaderboardDetail reads the entries (Ranking) and answers, or fails.
GetLeaderboardDetail(r) ==
  /\ pc[r] = "use" /\ op[r].Kind = "detail"
  /\ Goto(r, "done") \/ Goto(r, "failed")
  /\ UNCHANGED <<table, versions, cached, op, model>>

UpdateWholeModel(r) ==
  /\ pc[r] = "use" /\ op[r].Kind = "update"
  /\ Update(op[r].Id, [f \in Field |-> IF f \in DOMAIN op[r].Patch THEN op[r].Patch[f]
                                       ELSE model[r][f]])
  /\ Goto(r, "done")
  /\ UNCHANGED <<cached, op, model>>

UpdateWritingThrough(r) ==
  /\ pc[r] = "use" /\ op[r].Kind = "update"
  /\ Update(op[r].Id, op[r].Patch)
  /\ cached' = [cached EXCEPT ![op[r].Id] =
                  [f \in Field |-> IF f \in DOMAIN op[r].Patch THEN op[r].Patch[f]
                                   ELSE model[r][f]]]
  /\ Goto(r, "done")
  /\ UNCHANGED <<op, model>>

\* UpdateLeaderboard: nothing to do, or one UPDATE.  The key is left alone.
UpdateLeaderboard(r) ==
  /\ pc[r] = "use" /\ op[r].Kind = "update"
  /\ IF DOMAIN op[r].Patch = {} THEN UNCHANGED <<table, versions>>
     ELSE Update(op[r].Id, op[r].Patch)
  /\ Goto(r, "done")
  /\ UNCHANGED <<cached, op, model>>

\* The UPDATE fails, its effect unknown.
UpdateLeaderboardFails(r) ==
  /\ pc[r] = "use" /\ op[r].Kind = "update" /\ DOMAIN op[r].Patch # {}
  /\ Update(op[r].Id, op[r].Patch) \/ UNCHANGED <<table, versions>>
  /\ Goto(r, "failed")
  /\ UNCHANGED <<cached, op, model>>

-----------------------------------------------------------------------------

Serve(r) ==
  \/ GetHit(r) \/ GetMiss(r) \/ FindOneById(r) \/ NotFound(r) \/ Set(r) \/ SetFails(r)
  \/ GetLeaderboardDetail(r) \/ UpdateLeaderboard(r) \/ UpdateLeaderboardFails(r)

Next ==
  \/ \E i \in Id : Expire(i) \/ \E v \in Row : CreateLeaderboard(i, v)
  \/ \E r \in Request : Serve(r) \/ \E o \in Operation : Begin(r, o)

Spec == Init /\ [][Next]_vars

\* A request that has begun goes on, and a key does not outlive its TTL.
Fairness ==
  /\ \A r \in Request : WF_vars(Serve(r))
  /\ \A i \in Id : WF_vars(Expire(i))

FairSpec == Spec /\ Fairness
=============================================================================
