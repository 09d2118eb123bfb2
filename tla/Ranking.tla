------------------------------- MODULE Ranking -------------------------------
(***************************************************************************)
(* One leaderboard's Redis sorted set and the operations pkg/cache offers  *)
(* on it.  GetRank and GetAroundMember are two Redis commands each, so     *)
(* AddScore and RemoveMember of others fall between them.                  *)
(***************************************************************************)
EXTENDS Integers, Sequences, FiniteSets

CONSTANTS
  Member,    \* entry ids, numbered in the lexicographic order Redis compares them in
  Score,
  Request,   \* calls of the operations that read; each is made once
  Radius,    \* radii asked for
  TopN,      \* numbers of top entries asked for (100 by GetLeaderboardDetail)
  None,
  MaxWrites  \* bound on the number of writes to the sorted set

ASSUME RankingAssumption ==
  /\ Member \subseteq Int /\ IsFiniteSet(Member)
  /\ Score \subseteq Int
  /\ Radius \subseteq Nat /\ TopN \subseteq Nat
  /\ None \notin Score
  /\ MaxWrites \in Nat

Board == [Member -> Score \cup {None}]

Operation ==
  [Kind : {"rank"}, Member : Member]
  \cup [Kind : {"around"}, Member : Member, Radius : Radius]
  \cup [Kind : {"top"}, N : TopN]

LeaderboardEntry == [Member : Member, Score : Score]

-----------------------------------------------------------------------------
(* Redis: the order of a sorted set, highest score first.                  *)

\* The members that have a score.
Present(b) == {m \in Member : b[m] # None}

\* n comes before m: by score, and among equals by the name, last first.
Before(b, n, m) == b[n] > b[m] \/ (b[n] = b[m] /\ n > m)

Ahead(b, m) == {n \in Present(b) : Before(b, n, m)}

ZRevRank(b, m) == Cardinality(Ahead(b, m))

\* A negative index counts from the end.
FromEnd(b, i) == IF i < 0 THEN Cardinality(Present(b)) + i ELSE i

\* The range asked for, clipped to the set.
ClipStart(b, start) == IF FromEnd(b, start) < 0 THEN 0 ELSE FromEnd(b, start)

ClipStop(b, stop) ==
  IF FromEnd(b, stop) < Cardinality(Present(b)) THEN FromEnd(b, stop)
  ELSE Cardinality(Present(b)) - 1

MemberAt(b, i) == CHOOSE m \in Present(b) : ZRevRank(b, m) = i

\* The entries from one position to another.
ZRevRange(b, start, stop) ==
  LET from == ClipStart(b, start)
      to == ClipStop(b, stop)
  IN  [k \in 1..(IF to < from THEN 0 ELSE to - from + 1) |->
         [Member |-> MemberAt(b, from + k - 1), Score |-> b[MemberAt(b, from + k - 1)]]]

-----------------------------------------------------------------------------

VARIABLES
  board,   \* the sorted set
  past,    \* history: every content it has had, the present one last
  pc,      \* each call: idle, first, second, done, failed
  op,      \* what it is
  rank,    \* the rank it read first, 0-based
  since,   \* history: the place in past of the content when it began
  answer   \* what it returned

vars == <<board, past, pc, op, rank, since, answer>>

Init ==
  /\ board = [m \in Member |-> None]
  /\ past = <<board>>
  /\ pc = [r \in Request |-> "idle"]
  /\ op = [r \in Request |-> None]
  /\ rank = [r \in Request |-> 0]
  /\ since = [r \in Request |-> 0]
  /\ answer = [r \in Request |-> None]

\* A write by anybody; MaxWrites bounds how many there are.
Write(m, s) ==
  /\ Len(past) <= MaxWrites
  /\ board' = [board EXCEPT ![m] = s]
  /\ past' = Append(past, board')
  /\ UNCHANGED <<pc, op, rank, since, answer>>

\* ZADD: the score is set, the member is added if need be.
AddScore(m, s) == Write(m, s)

\* ZREM: no error when the member is not there.
RemoveMember(m) == Write(m, None)

Begin(r, o) ==
  /\ pc[r] = "idle"
  /\ pc' = [pc EXCEPT ![r] = "first"]
  /\ op' = [op EXCEPT ![r] = o]
  /\ since' = [since EXCEPT ![r] = Len(past)]
  /\ UNCHANGED <<board, past, rank, answer>>

Answer(r, a) ==
  /\ pc' = [pc EXCEPT ![r] = "done"]
  /\ answer' = [answer EXCEPT ![r] = a]
  /\ UNCHANGED <<board, past, op, rank, since>>

\* ZREVRANK, the first command of GetRank and of GetAroundMember.
ReadRank(r) ==
  /\ pc[r] = "first" /\ op[r].Kind \in {"rank", "around"}
  /\ op[r].Member \in Present(board)
  /\ rank' = [rank EXCEPT ![r] = ZRevRank(board, op[r].Member)]
  /\ pc' = [pc EXCEPT ![r] = "second"]
  /\ UNCHANGED <<board, past, op, since, answer>>

GetRankFromZero(r) ==
  /\ pc[r] = "second" /\ op[r].Kind = "rank"
  /\ op[r].Member \in Present(board)
  /\ Answer(r, [Rank |-> rank[r], Score |-> board[op[r].Member]])

\* GetRank: ZSCORE, and the rank made 1-based.
GetRank(r) ==
  /\ pc[r] = "second" /\ op[r].Kind = "rank"
  /\ op[r].Member \in Present(board)
  /\ Answer(r, [Rank |-> rank[r] + 1, Score |-> board[op[r].Member]])

GetAroundUnclipped(r) ==
  /\ pc[r] = "second" /\ op[r].Kind = "around"
  /\ Answer(r, ZRevRange(board, rank[r] - op[r].Radius, rank[r] + op[r].Radius))

\* GetAroundMember: the positions within the radius of the rank read.
GetAroundMember(r) ==
  /\ pc[r] = "second" /\ op[r].Kind = "around"
  /\ LET start == IF rank[r] - op[r].Radius < 0 THEN 0 ELSE rank[r] - op[r].Radius
     IN  Answer(r, ZRevRange(board, start, rank[r] + op[r].Radius))

GetTopNAndOne(r) ==
  /\ pc[r] = "first" /\ op[r].Kind = "top"
  /\ Answer(r, ZRevRange(board, 0, op[r].N))

\* GetTopN: positions 0 to n - 1.
GetTopN(r) ==
  /\ pc[r] = "first" /\ op[r].Kind = "top"
  /\ Answer(r, ZRevRange(board, 0, op[r].N - 1))

FailKeepingAnswer(r) ==
  /\ pc[r] \in {"first", "second"}
  /\ pc' = [pc EXCEPT ![r] = "failed"]
  /\ answer' = [answer EXCEPT ![r] = [Rank |-> rank[r], Score |-> 0]]
  /\ UNCHANGED <<board, past, op, rank, since>>

\* A command fails, or finds no such member: (0, 0, err) or (nil, err).
Fail(r) ==
  /\ pc[r] \in {"first", "second"}
  /\ pc' = [pc EXCEPT ![r] = "failed"]
  /\ UNCHANGED <<board, past, op, rank, since, answer>>

Next ==
  \/ \E m \in Member : RemoveMember(m) \/ \E s \in Score : AddScore(m, s)
  \/ \E r \in Request : \/ \E o \in Operation : Begin(r, o)
                        \/ ReadRank(r) \/ GetRank(r) \/ GetAroundMember(r)
                        \/ GetTopN(r) \/ Fail(r)

Spec == Init /\ [][Next]_vars
=============================================================================
