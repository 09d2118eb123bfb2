---------------------------- MODULE RankingProps ----------------------------
(***************************************************************************)
(* What is claimed of the sorted-set operations of pkg/cache, stated with  *)
(* positions and sets only, never with ZRevRange.                          *)
(***************************************************************************)
EXTENDS Ranking

\* a is a run of entries of the board b, in rank order.
RunOf(a, b) ==
  \A k \in DOMAIN a :
    /\ a[k].Member \in Present(b) /\ a[k].Score = b[a[k].Member]
    /\ k > 1 => ZRevRank(b, a[k].Member) = ZRevRank(b, a[k - 1].Member) + 1

Members(a) == {a[k].Member : k \in DOMAIN a}

TypeOK ==
  /\ board \in Board
  /\ past \in Seq(Board) /\ past # <<>> /\ past[Len(past)] = board
  /\ pc \in [Request -> {"idle", "first", "second", "done", "failed"}]
  /\ op \in [Request -> Operation \cup {None}]
  /\ \A r \in Request : pc[r] # "idle" => op[r] \in Operation
  /\ rank \in [Request -> 0..Cardinality(Member)]
  /\ since \in [Request -> 0..Len(past)]
  /\ \A r \in Request : pc[r] # "idle" => since[r] > 0
  /\ answer = [r \in Request |-> answer[r]]
  /\ \A r \in Request :
       IF pc[r] # "done" THEN answer[r] = None
       ELSE IF op[r].Kind = "rank" THEN answer[r] \in [Rank : 1..Cardinality(Member), Score : Score]
       ELSE answer[r] \in Seq(LeaderboardEntry)

-----------------------------------------------------------------------------
(* Safety.                                                                 *)

\* The rank and the score GetRank returns were each right at a moment of the
\* call, the rank first (GetRank).
RankWasTrue ==
  \A r \in Request : pc[r] = "done" /\ op[r].Kind = "rank" =>
    \E i, j \in since[r]..Len(past) :
      /\ i <= j
      /\ op[r].Member \in Present(past[i]) /\ answer[r].Score = past[j][op[r].Member]
      /\ answer[r].Rank = 1 + Cardinality({n \in Member : past[i][n] # None
                                                          /\ Before(past[i], n, op[r].Member)})

\* GetAroundMember returns exactly the entries whose rank is within the radius
\* of a rank the member had during the call, best first: at most 2 * radius + 1.
WindowIsAroundRank ==
  \A r \in Request : pc[r] = "done" /\ op[r].Kind = "around" =>
    /\ Len(answer[r]) <= 2 * op[r].Radius + 1
    /\ \E i, j \in since[r]..Len(past) :
         /\ i <= j
         /\ op[r].Member \in Present(past[i])
         /\ RunOf(answer[r], past[j])
         /\ Members(answer[r]) =
              {n \in Present(past[j]) :
                 ZRevRank(past[j], n) - ZRevRank(past[i], op[r].Member)
                   \in (-op[r].Radius)..op[r].Radius}

\* GetTopN returns min(n, size) entries, in order, and nobody left out comes
\* before anybody returned (GetTopN, for n > 0).
TopIsBest ==
  \A r \in Request : pc[r] = "done" /\ op[r].Kind = "top" /\ op[r].N > 0 =>
    \E i \in since[r]..Len(past) :
      /\ RunOf(answer[r], past[i])
      /\ \/ Len(answer[r]) = op[r].N
         \/ Len(answer[r]) < op[r].N /\ Members(answer[r]) = Present(past[i])
      /\ \A m \in Members(answer[r]), n \in Present(past[i]) \ Members(answer[r]) :
           Before(past[i], m, n)
=============================================================================
