---------------------------- MODULE RankingProofs ----------------------------
(***************************************************************************)
(* Proofs about the sorted set of a leaderboard, for any finite set of     *)
(* entries, any integer scores, any radius and any number of calls.        *)
(***************************************************************************)
EXTENDS RankingProps, FiniteSetTheorems, FunctionTheorems, TLAPS

USE RankingAssumption

-----------------------------------------------------------------------------
(* The order of a sorted set.                                              *)

LEMMA PresentScores ==
  ASSUME NEW b \in Board, NEW m \in Present(b)
  PROVE  m \in Int /\ m \in Member /\ b[m] \in Int /\ b[m] \in Score
BY DEF Present, Board

\* Before is a strict total order on the members present.
LEMMA BeforeIsOrder ==
  ASSUME NEW b \in Board
  PROVE  /\ \A m \in Present(b) : ~Before(b, m, m)
         /\ \A l, m, n \in Present(b) : Before(b, l, m) /\ Before(b, m, n) => Before(b, l, n)
         /\ \A m, n \in Present(b) : m # n => Before(b, m, n) \/ Before(b, n, m)
<1>1. \A m \in Present(b) : m \in Int /\ b[m] \in Int
  BY PresentScores
<1>2. QED
  BY <1>1 DEF Before

LEMMA PresentFinite ==
  ASSUME NEW b \in Board
  PROVE  /\ IsFiniteSet(Present(b)) /\ Cardinality(Present(b)) \in Nat
         /\ Cardinality(Present(b)) <= Cardinality(Member)
         /\ Cardinality(Member) \in Nat
<1>1. Present(b) \in SUBSET Member
  BY DEF Present
<1>2. QED
  BY <1>1, FS_Subset, FS_CardinalityType

\* A rank is a position of the set.
LEMMA RankRange ==
  ASSUME NEW b \in Board, NEW m \in Present(b)
  PROVE  /\ IsFiniteSet(Ahead(b, m))
         /\ ZRevRank(b, m) \in 0..(Cardinality(Present(b)) - 1)
<1>1. Ahead(b, m) \in SUBSET Present(b) /\ m \notin Ahead(b, m)
  BY BeforeIsOrder DEF Ahead
<1>2. IsFiniteSet(Present(b)) /\ Cardinality(Present(b)) \in Nat
  BY PresentFinite
<1>3. /\ IsFiniteSet(Ahead(b, m))
      /\ Cardinality(Ahead(b, m)) <= Cardinality(Present(b))
      /\ Cardinality(Present(b)) = Cardinality(Ahead(b, m)) => Present(b) = Ahead(b, m)
  BY <1>1, <1>2, FS_Subset
<1>4. Cardinality(Ahead(b, m)) # Cardinality(Present(b))
  BY <1>1, <1>3
<1>5. Cardinality(Ahead(b, m)) \in Nat
  BY <1>3, FS_CardinalityType
<1>6. QED
  BY <1>2, <1>3, <1>4, <1>5 DEF ZRevRank

\* Who comes before has the smaller rank.
LEMMA RankOrders ==
  ASSUME NEW b \in Board, NEW m \in Present(b), NEW n \in Present(b), Before(b, n, m)
  PROVE  ZRevRank(b, n) < ZRevRank(b, m)
<1>1. /\ Ahead(b, n) \in SUBSET Ahead(b, m)
      /\ n \in Ahead(b, m) /\ n \notin Ahead(b, n)
  BY BeforeIsOrder DEF Ahead
<1>2. IsFiniteSet(Ahead(b, m)) /\ IsFiniteSet(Ahead(b, n))
  BY RankRange
<1>3. /\ Cardinality(Ahead(b, n)) <= Cardinality(Ahead(b, m))
      /\ Cardinality(Ahead(b, m)) # Cardinality(Ahead(b, n))
  BY <1>1, <1>2, FS_Subset
<1>4. Cardinality(Ahead(b, n)) \in Nat /\ Cardinality(Ahead(b, m)) \in Nat
  BY <1>2, FS_CardinalityType
<1>5. QED
  BY <1>3, <1>4 DEF ZRevRank

\* ZREVRANK numbers the members from 0 without gaps or ties, best first: every
\* position of the set belongs to exactly one member, and a member comes before
\* another exactly if its rank is smaller.
LEMMA RanksAreAnOrder ==
  ASSUME NEW b \in Board
  PROVE  /\ \A m, n \in Present(b) : ZRevRank(b, m) < ZRevRank(b, n) <=> Before(b, m, n)
         /\ \A m, n \in Present(b) : ZRevRank(b, m) = ZRevRank(b, n) => m = n
         /\ \A i \in 0..(Cardinality(Present(b)) - 1) :
              \E m \in Present(b) : ZRevRank(b, m) = i
<1>1. \A m, n \in Present(b) : Before(b, m, n) => ZRevRank(b, m) < ZRevRank(b, n)
  BY RankOrders
<1>2. \A m \in Present(b) : ZRevRank(b, m) \in 0..(Cardinality(Present(b)) - 1)
  BY RankRange
<1>3. Cardinality(Present(b)) \in Nat /\ IsFiniteSet(Present(b))
  BY PresentFinite
<1>4. \A m, n \in Present(b) : ZRevRank(b, m) = ZRevRank(b, n) => m = n
  BY <1>1, <1>2, <1>3, BeforeIsOrder
<1>5. \A m, n \in Present(b) : ZRevRank(b, m) < ZRevRank(b, n) => Before(b, m, n)
  BY <1>1, <1>2, <1>3, BeforeIsOrder
<1>6. ASSUME NEW i \in 0..(Cardinality(Present(b)) - 1)
      PROVE  \E m \in Present(b) : ZRevRank(b, m) = i
  <2> DEFINE P == 0..(Cardinality(Present(b)) - 1)
             f == [m \in Present(b) |-> ZRevRank(b, m)]
  <2>1. f \in Injection(Present(b), P)
    <3>1. f \in [Present(b) -> P]
      BY <1>2
    <3>2. \A m, n \in Present(b) : f[m] = f[n] => m = n
      BY <1>4
    <3>3. QED
      BY <3>1, <3>2, Fun_IsInj
  <2>2. IsFiniteSet(P) /\ Cardinality(P) = Cardinality(Present(b))
    BY <1>3, FS_Interval
  <2>3. f \in Surjection(Present(b), P)
    <3> HIDE DEF f, P
    <3>1. QED
      BY <2>1, <2>2, FS_Injection
  <2>4. \A t \in P : \E m \in Present(b) : f[m] = t
    <3> HIDE DEF f, P
    <3>1. QED
      BY <2>3, Fun_SurjectionProperties
  <2>5. PICK m \in Present(b) : f[m] = i
    BY <2>4
  <2>6. QED
    BY <2>5
<1>7. QED
  BY <1>1, <1>4, <1>5, <1>6

-----------------------------------------------------------------------------
(* Ranges of the sorted set.                                               *)

\* Where ZREVRANGE starts and stops, whatever was asked for.
LEMMA ClipRange ==
  ASSUME NEW b \in Board, NEW start \in Int, NEW stop \in Int
  PROVE  /\ ClipStart(b, start) \in Nat
         /\ ClipStop(b, stop) \in Int /\ ClipStop(b, stop) <= Cardinality(Present(b)) - 1
BY PresentFinite DEF ClipStart, ClipStop, FromEnd

LEMMA MemberAtRank ==
  ASSUME NEW b \in Board, NEW i \in 0..(Cardinality(Present(b)) - 1)
  PROVE  MemberAt(b, i) \in Present(b) /\ ZRevRank(b, MemberAt(b, i)) = i
BY RanksAreAnOrder DEF MemberAt

\* The number of entries of a range.
Size(b, start, stop) ==
  IF ClipStop(b, stop) < ClipStart(b, start) THEN 0
  ELSE ClipStop(b, stop) - ClipStart(b, start) + 1

\* ZREVRANGE returns the members at consecutive positions, each with its score.
LEMMA RangeEntries ==
  ASSUME NEW b \in Board, NEW start \in Int, NEW stop \in Int
  PROVE  /\ ZRevRange(b, start, stop) \in Seq(LeaderboardEntry)
         /\ Len(ZRevRange(b, start, stop)) = Size(b, start, stop)
         /\ DOMAIN ZRevRange(b, start, stop) = 1..Size(b, start, stop)
         /\ Size(b, start, stop) \in Nat
         /\ \A k \in 1..Size(b, start, stop) :
              LET e == ZRevRange(b, start, stop)[k]
              IN  /\ e.Member \in Present(b) /\ e.Score = b[e.Member]
                  /\ ZRevRank(b, e.Member) = ClipStart(b, start) + k - 1
<1> DEFINE from == ClipStart(b, start)
           to == ClipStop(b, stop)
           n == Size(b, start, stop)
           a == ZRevRange(b, start, stop)
           at(k) == MemberAt(b, from + k - 1)
<1>1. from \in Nat /\ to \in Int /\ to <= Cardinality(Present(b)) - 1
  BY ClipRange
<1>2. n \in Nat
  BY <1>1 DEF Size
<1>3. ASSUME NEW k \in 1..n
      PROVE  from + k - 1 \in 0..(Cardinality(Present(b)) - 1)
  BY <1>1, <1>3, PresentFinite DEF Size
<1>4. \A k \in 1..n : at(k) \in Present(b) /\ ZRevRank(b, at(k)) = from + k - 1
  BY <1>3, MemberAtRank
<1>5. a = [k \in 1..n |-> [Member |-> at(k), Score |-> b[at(k)]]]
  BY DEF ZRevRange, Size
<1>6. \A k \in 1..n : [Member |-> at(k), Score |-> b[at(k)]] \in LeaderboardEntry
  BY <1>4, PresentScores DEF LeaderboardEntry
<1>7. a \in [1..n -> LeaderboardEntry]
  <2> HIDE DEF a, n, at
  <2>1. QED
    BY <1>5, <1>6
<1>8. a \in Seq(LeaderboardEntry) /\ Len(a) = n /\ DOMAIN a = 1..n
  <2> HIDE DEF a, n
  <2>1. QED
    BY <1>2, <1>7
<1>9. \A k \in 1..n : a[k].Member = at(k) /\ a[k].Score = b[at(k)]
  <2> HIDE DEF a, n, at
  <2>1. QED
    BY <1>5
<1>10. QED
  BY <1>2, <1>4, <1>8, <1>9

-----------------------------------------------------------------------------
(* Types.  A call between its two commands holds a rank its member had     *)
(* since the call began.                                                   *)

RankSeen ==
  \A r \in Request : pc[r] = "second" =>
    /\ op[r].Kind \in {"rank", "around"}
    /\ \E i \in since[r]..Len(past) :
         op[r].Member \in Present(past[i]) /\ rank[r] = ZRevRank(past[i], op[r].Member)

TypeInv == TypeOK /\ RankSeen

LEMMA PastBoards ==
  ASSUME TypeOK
  PROVE  /\ past \in Seq(Board) /\ Len(past) \in Nat \ {0}
         /\ \A i \in 1..Len(past) : past[i] \in Board
         /\ past[Len(past)] = board /\ board \in Board
BY DEF TypeOK

LEMMA OperationType ==
  ASSUME NEW o \in Operation
  PROVE  /\ o.Kind \in {"rank", "around", "top"}
         /\ o.Kind \in {"rank", "around"} => o.Member \in Member
         /\ o.Kind = "around" => o.Radius \in Nat
         /\ o.Kind = "top" => o.N \in Nat
BY DEF Operation

\* A call that is under way knows its operation and when it began.
LEMMA CallType ==
  ASSUME TypeOK, NEW r \in Request, pc[r] # "idle"
  PROVE  /\ op[r] \in Operation
         /\ since[r] \in 1..Len(past)
BY DEF TypeOK

\* The rank a call holds is a position.
LEMMA HeldRank ==
  ASSUME TypeInv, NEW r \in Request, pc[r] = "second"
  PROVE  rank[r] \in 0..(Cardinality(Member) - 1)
<1>1. PICK i \in since[r]..Len(past) :
        op[r].Member \in Present(past[i]) /\ rank[r] = ZRevRank(past[i], op[r].Member)
  BY DEF TypeInv, RankSeen
<1>2. past[i] \in Board
  BY CallType, PastBoards DEF TypeInv
<1>3. QED
  BY <1>1, <1>2, RankRange, PresentFinite

LEMMA TypeInvInit == Init => TypeInv
<1> SUFFICES ASSUME Init  PROVE TypeInv
  OBVIOUS
<1>1. Cardinality(Member) \in Nat
  BY FS_CardinalityType
<1>2. board \in Board
  BY DEF Init, Board
<1>3. past \in Seq(Board) /\ past # <<>> /\ Len(past) = 1 /\ past[1] = board
  BY <1>2 DEF Init
<1>4. QED
  BY <1>1, <1>2, <1>3 DEF Init, TypeInv, TypeOK, RankSeen

\* What a write does to the history of contents.
LEMMA WriteGrows ==
  ASSUME TypeOK, NEW m \in Member, NEW s \in Score \cup {None}, Write(m, s)
  PROVE  /\ board' \in Board
         /\ past' \in Seq(Board) /\ Len(past') = Len(past) + 1 /\ past' # <<>>
         /\ past'[Len(past')] = board'
         /\ \A i \in 1..Len(past) : past'[i] = past[i]
<1>1. board' \in Board
  BY DEF Write, TypeOK, Board
<1>2. past' = Append(past, board') /\ past \in Seq(Board)
  BY DEF Write, TypeOK
<1>3. QED
  BY <1>1, <1>2

\* No content is forgotten.
LEMMA PastGrows ==
  ASSUME TypeOK, [Next]_vars
  PROVE  /\ Len(past) \in Nat /\ Len(past') \in Nat /\ Len(past) <= Len(past')
         /\ \A i \in 1..Len(past) : past'[i] = past[i]
<1>1. Len(past) \in Nat
  BY PastBoards
<1>2. CASE past' = past
  BY <1>1, <1>2
<1>3. ASSUME NEW m \in Member, NEW s \in Score \cup {None}, Write(m, s)
      PROVE  /\ Len(past') = Len(past) + 1
             /\ \A i \in 1..Len(past) : past'[i] = past[i]
  BY <1>3, WriteGrows
<1>4. ASSUME NEW m \in Member, RemoveMember(m) \/ \E s \in Score : AddScore(m, s)
      PROVE  /\ Len(past') = Len(past) + 1
             /\ \A i \in 1..Len(past) : past'[i] = past[i]
  <2>1. PICK s \in Score \cup {None} : Write(m, s)
    BY <1>4 DEF RemoveMember, AddScore
  <2>2. QED
    BY <1>3, <2>1
<1>5. CASE ~\E m \in Member : RemoveMember(m) \/ \E s \in Score : AddScore(m, s)
  BY <1>2, <1>5 DEF Next, Begin, ReadRank, GetRank, GetAroundMember, GetTopN, Answer, Fail, vars
<1>6. QED
  BY <1>1, <1>4, <1>5

\* Returning an answer of the right type.
LEMMA AnswerType ==
  ASSUME TypeInv, NEW r \in Request, pc[r] \in {"first", "second"}, NEW a, Answer(r, a),
         IF op[r].Kind = "rank" THEN a \in [Rank : 1..Cardinality(Member), Score : Score]
         ELSE a \in Seq(LeaderboardEntry)
  PROVE  TypeInv'
<1>1. /\ pc' \in [Request -> {"idle", "first", "second", "done", "failed"}]
      /\ pc'[r] = "done" /\ answer'[r] = a
      /\ \A q \in Request \ {r} : pc'[q] = pc[q] /\ answer'[q] = answer[q]
      /\ UNCHANGED <<board, past, op, rank, since>>
  BY DEF Answer, TypeInv, TypeOK
<1>2. TypeOK'
  <2>1. answer' = [q \in Request |-> answer'[q]]
    BY DEF Answer, TypeInv, TypeOK
  <2>2. \A q \in Request \ {r} :
          IF pc[q] # "done" THEN answer[q] = None
          ELSE IF op[q].Kind = "rank" THEN answer[q] \in [Rank : 1..Cardinality(Member), Score : Score]
          ELSE answer[q] \in Seq(LeaderboardEntry)
    BY DEF TypeInv, TypeOK
  <2>3. \A q \in Request :
          IF pc'[q] # "done" THEN answer'[q] = None
          ELSE IF op'[q].Kind = "rank" THEN answer'[q] \in [Rank : 1..Cardinality(Member), Score : Score]
          ELSE answer'[q] \in Seq(LeaderboardEntry)
    BY <1>1, <2>2
  <2>4. QED
    BY <1>1, <2>1, <2>3 DEF TypeInv, TypeOK
<1>3. RankSeen'
  BY <1>1 DEF TypeInv, RankSeen
<1>4. QED
  BY <1>2, <1>3 DEF TypeInv

LEMMA RangeType ==
  ASSUME TypeInv, NEW start \in Int, NEW stop \in Int
  PROVE  ZRevRange(board, start, stop) \in Seq(LeaderboardEntry)
BY RangeEntries, PastBoards DEF TypeInv

\* The bounds GetAroundMember asks for.
LEMMA AroundBounds ==
  ASSUME TypeInv, NEW r \in Request, pc[r] = "second", op[r].Kind = "around"
  PROVE  /\ op[r].Member \in Member /\ op[r].Radius \in Nat
         /\ (IF rank[r] - op[r].Radius < 0 THEN 0 ELSE rank[r] - op[r].Radius) \in Nat
         /\ rank[r] + op[r].Radius \in Nat
         /\ rank[r] \in Nat
<1>1. op[r] \in Operation
  BY CallType DEF TypeInv
<1>2. op[r].Radius \in Nat /\ op[r].Member \in Member
  BY <1>1, OperationType
<1>3. rank[r] \in Nat
  BY HeldRank, PresentFinite, FS_CardinalityType
<1>4. QED
  BY <1>2, <1>3

\* What a reading call returns has the type of its operation.
LEMMA CallKeepsTypes ==
  ASSUME TypeInv, NEW r \in Request, GetRank(r) \/ GetAroundMember(r) \/ GetTopN(r)
  PROVE  TypeInv'
<1>1. CASE GetRank(r)
  <2> DEFINE a == [Rank |-> rank[r] + 1, Score |-> board[op[r].Member]]
  <2>1. Answer(r, a) /\ pc[r] = "second" /\ op[r].Kind = "rank" /\ op[r].Member \in Present(board)
    BY <1>1 DEF GetRank
  <2>2. rank[r] + 1 \in 1..Cardinality(Member)
    BY <2>1, HeldRank, FS_CardinalityType
  <2>3. board[op[r].Member] \in Score
    BY <2>1, PresentScores, PastBoards DEF TypeInv
  <2>4. a \in [Rank : 1..Cardinality(Member), Score : Score]
    BY <2>2, <2>3
  <2> HIDE DEF a
  <2>5. QED
    BY <2>1, <2>4, AnswerType
<1>2. CASE GetAroundMember(r)
  <2> DEFINE start == IF rank[r] - op[r].Radius < 0 THEN 0 ELSE rank[r] - op[r].Radius
             a == ZRevRange(board, start, rank[r] + op[r].Radius)
  <2>1. Answer(r, a) /\ pc[r] = "second" /\ op[r].Kind = "around"
    BY <1>2 DEF GetAroundMember
  <2>2. start \in Int /\ rank[r] + op[r].Radius \in Int
    BY <2>1, AroundBounds
  <2>3. a \in Seq(LeaderboardEntry)
    <3> HIDE DEF start
    <3>1. QED
      BY <2>2, RangeType
  <2> HIDE DEF a
  <2>4. QED
    BY <2>1, <2>3, AnswerType
<1>3. CASE GetTopN(r)
  <2> DEFINE a == ZRevRange(board, 0, op[r].N - 1)
  <2>1. Answer(r, a) /\ pc[r] = "first" /\ op[r].Kind = "top"
    BY <1>3 DEF GetTopN
  <2>2. op[r].N \in Nat
    BY <2>1, CallType, OperationType DEF TypeInv
  <2>3. a \in Seq(LeaderboardEntry)
    <3>1. 0 \in Int /\ op[r].N - 1 \in Int
      BY <2>2
    <3>2. QED
      BY <3>1, RangeType
  <2> HIDE DEF a
  <2>4. QED
    BY <2>1, <2>3, AnswerType
<1>4. QED
  BY <1>1, <1>2, <1>3

LEMMA WriteKeepsTypes ==
  ASSUME TypeInv, NEW m \in Member, NEW s \in Score \cup {None}, Write(m, s)
  PROVE  TypeInv'
<1>1. /\ board' \in Board
      /\ past' \in Seq(Board) /\ Len(past') = Len(past) + 1 /\ past' # <<>>
      /\ past'[Len(past')] = board'
      /\ \A i \in 1..Len(past) : past'[i] = past[i]
  BY WriteGrows DEF TypeInv
<1>2. UNCHANGED <<pc, op, rank, since, answer>>
  BY DEF Write
<1>3. Len(past) \in Nat
  BY PastBoards DEF TypeInv
<1>4. since \in [Request -> 0..Len(past')]
  BY <1>1, <1>3 DEF TypeInv, TypeOK
<1>5. TypeOK'
  BY <1>1, <1>2, <1>4 DEF TypeInv, TypeOK
<1>6. ASSUME NEW r \in Request, pc[r] = "second"
      PROVE  \E i \in since[r]..Len(past') :
               op[r].Member \in Present(past'[i]) /\ rank[r] = ZRevRank(past'[i], op[r].Member)
  <2>1. PICK i \in since[r]..Len(past) :
          op[r].Member \in Present(past[i]) /\ rank[r] = ZRevRank(past[i], op[r].Member)
    BY <1>6 DEF TypeInv, RankSeen
  <2>2. since[r] \in 1..Len(past)
    BY <1>6, CallType DEF TypeInv
  <2>3. i \in since[r]..Len(past') /\ past'[i] = past[i]
    BY <1>1, <1>3, <2>2
  <2>4. QED
    BY <2>1, <2>3
<1>7. RankSeen'
  BY <1>2, <1>6 DEF TypeInv, RankSeen
<1>8. QED
  BY <1>5, <1>7 DEF TypeInv

LEMMA TypeInvNext == TypeInv /\ [Next]_vars => TypeInv'
<1> SUFFICES ASSUME TypeInv, [Next]_vars
             PROVE  TypeInv'
  OBVIOUS
<1>1. CASE UNCHANGED vars
  BY <1>1 DEF vars, TypeInv, TypeOK, RankSeen
<1>2. ASSUME NEW m \in Member, RemoveMember(m) \/ \E s \in Score : AddScore(m, s)
      PROVE  TypeInv'
  <2>1. PICK s \in Score \cup {None} : Write(m, s)
    BY <1>2 DEF RemoveMember, AddScore
  <2>2. QED
    BY <2>1, WriteKeepsTypes
<1>3. ASSUME NEW r \in Request, NEW o \in Operation, Begin(r, o)
      PROVE  TypeInv'
  <2>1. Len(past) \in Nat \ {0}
    BY PastBoards DEF TypeInv
  <2>2. TypeOK'
    BY <1>3, <2>1 DEF Begin, TypeInv, TypeOK
  <2>3. RankSeen'
    BY <1>3 DEF Begin, TypeInv, TypeOK, RankSeen
  <2>4. QED
    BY <2>2, <2>3 DEF TypeInv
<1>4. ASSUME NEW r \in Request, ReadRank(r)
      PROVE  TypeInv'
  <2>1. /\ pc[r] = "first" /\ op[r].Kind \in {"rank", "around"}
        /\ op[r].Member \in Present(board)
    BY <1>4 DEF ReadRank
  <2>2. ZRevRank(board, op[r].Member) \in 0..Cardinality(Member)
    BY <2>1, RankRange, PresentFinite, PastBoards DEF TypeInv
  <2>3. TypeOK'
    BY <1>4, <2>2 DEF ReadRank, TypeInv, TypeOK
  <2>4. Len(past) \in since[r]..Len(past) /\ past[Len(past)] = board
    BY <2>1, CallType, PastBoards DEF TypeInv
  <2>5. RankSeen'
    BY <1>4, <2>1, <2>4 DEF ReadRank, TypeInv, TypeOK, RankSeen
  <2>6. QED
    BY <2>3, <2>5 DEF TypeInv
<1>5. ASSUME NEW r \in Request, Fail(r)
      PROVE  TypeInv'
  <2>1. TypeOK'
    BY <1>5 DEF Fail, TypeInv, TypeOK
  <2>2. RankSeen'
    BY <1>5 DEF Fail, TypeInv, TypeOK, RankSeen
  <2>3. QED
    BY <2>1, <2>2 DEF TypeInv
<1>6. QED
  BY <1>1, <1>2, <1>3, <1>4, <1>5, CallKeepsTypes DEF Next

LEMMA TypeInvAlways == Spec => []TypeInv
BY TypeInvInit, TypeInvNext, PTL DEF Spec

\* Contents, calls and answers always have their types: a rank is between 1 and
\* the number of members, an answer is there exactly when the call is done
\* (GetRank, GetAroundMember, GetTopN).
THEOREM TypeCorrect == Spec => []TypeOK
<1>1. TypeInv => TypeOK
  BY DEF TypeInv
<1>2. QED
  BY <1>1, TypeInvAlways, PTL

-----------------------------------------------------------------------------
(* Answers.  An answer given stays as it is and no content is forgotten,   *)
(* so what was true of it stays true; what remains is the step that gives  *)
(* it.                                                                     *)

LEMMA AnswerStays ==
  ASSUME TypeInv, [Next]_vars, NEW r \in Request, pc[r] = "done"
  PROVE  /\ pc'[r] = "done" /\ op'[r] = op[r]
         /\ since'[r] = since[r] /\ answer'[r] = answer[r]
<1>1. ASSUME NEW q \in Request, NEW a, Answer(q, a), pc[q] # "done"
      PROVE  pc'[r] = pc[r] /\ op'[r] = op[r] /\ since'[r] = since[r] /\ answer'[r] = answer[r]
  BY <1>1 DEF Answer, TypeInv, TypeOK
<1>2. ASSUME NEW q \in Request, GetRank(q) \/ GetAroundMember(q) \/ GetTopN(q)
      PROVE  pc'[r] = pc[r] /\ op'[r] = op[r] /\ since'[r] = since[r] /\ answer'[r] = answer[r]
  BY <1>1, <1>2 DEF GetRank, GetAroundMember, GetTopN
<1>3. ASSUME NEW q \in Request,
             (\E o \in Operation : Begin(q, o)) \/ ReadRank(q) \/ Fail(q)
      PROVE  pc'[r] = pc[r] /\ op'[r] = op[r] /\ since'[r] = since[r] /\ answer'[r] = answer[r]
  BY <1>3 DEF Begin, ReadRank, Fail, TypeInv, TypeOK
<1>4. ASSUME NEW m \in Member, RemoveMember(m) \/ \E s \in Score : AddScore(m, s)
      PROVE  UNCHANGED <<pc, op, since, answer>>
  BY <1>4 DEF RemoveMember, AddScore, Write
<1>5. QED
  BY <1>2, <1>3, <1>4 DEF Next, vars

LEMMA AnswerGiven ==
  ASSUME TypeInv, [Next]_vars, NEW r \in Request, pc[r] # "done", pc'[r] = "done"
  PROVE  /\ GetRank(r) \/ GetAroundMember(r) \/ GetTopN(r)
         /\ UNCHANGED <<board, past, op, rank, since>>
<1>1. ASSUME NEW q \in Request, q # r, GetRank(q) \/ GetAroundMember(q) \/ GetTopN(q)
      PROVE  FALSE
  BY <1>1 DEF GetRank, GetAroundMember, GetTopN, Answer, TypeInv, TypeOK
<1>2. ASSUME NEW q \in Request,
             (\E o \in Operation : Begin(q, o)) \/ ReadRank(q) \/ Fail(q)
      PROVE  FALSE
  BY <1>2 DEF Begin, ReadRank, Fail, TypeInv, TypeOK
<1>3. ASSUME NEW m \in Member, RemoveMember(m) \/ \E s \in Score : AddScore(m, s)
      PROVE  FALSE
  BY <1>3 DEF RemoveMember, AddScore, Write
<1>4. CASE UNCHANGED vars
  BY <1>4 DEF vars
<1>5. GetRank(r) \/ GetAroundMember(r) \/ GetTopN(r)
  BY <1>1, <1>2, <1>3, <1>4 DEF Next
<1>6. QED
  BY <1>5 DEF GetRank, GetAroundMember, GetTopN, Answer

\* The contents since a finished call began are still there after a step.
LEMMA SinceStays ==
  ASSUME TypeInv, [Next]_vars, NEW r \in Request, pc[r] = "done",
         NEW i \in since[r]..Len(past)
  PROVE  i \in since'[r]..Len(past') /\ past'[i] = past[i]
BY AnswerStays, PastGrows, CallType DEF TypeInv

LEMMA RankWasTrueNext == TypeInv /\ RankWasTrue /\ [Next]_vars => RankWasTrue'
<1> SUFFICES ASSUME TypeInv, RankWasTrue, [Next]_vars,
                    NEW r \in Request, pc'[r] = "done", op'[r].Kind = "rank"
             PROVE  \E i, j \in since'[r]..Len(past') :
                      /\ i <= j
                      /\ op'[r].Member \in Present(past'[i])
                      /\ answer'[r].Score = past'[j][op'[r].Member]
                      /\ answer'[r].Rank = 1 + Cardinality({n \in Member :
                           past'[i][n] # None /\ Before(past'[i], n, op'[r].Member)})
  BY DEF RankWasTrue
<1>1. CASE pc[r] = "done"
  <2>1. op'[r] = op[r] /\ answer'[r] = answer[r]
    BY <1>1, AnswerStays
  <2>2. PICK i \in since[r]..Len(past), j \in since[r]..Len(past) :
          /\ i <= j
          /\ op[r].Member \in Present(past[i]) /\ answer[r].Score = past[j][op[r].Member]
          /\ answer[r].Rank = 1 + Cardinality({n \in Member : past[i][n] # None
                                                   /\ Before(past[i], n, op[r].Member)})
    BY <1>1, <2>1 DEF RankWasTrue
  <2>3. QED
    BY <1>1, <2>1, <2>2, SinceStays
<1>2. CASE pc[r] # "done"
  <2>1. GetRank(r) /\ UNCHANGED <<past, op, since>>
    BY <1>2, AnswerGiven DEF GetAroundMember, GetTopN
  <2>2. /\ pc[r] = "second" /\ op[r].Member \in Present(board)
        /\ answer'[r] = [Rank |-> rank[r] + 1, Score |-> board[op[r].Member]]
    BY <2>1 DEF GetRank, Answer, TypeInv, TypeOK
  <2>3. PICK i \in since[r]..Len(past) :
          op[r].Member \in Present(past[i]) /\ rank[r] = ZRevRank(past[i], op[r].Member)
    BY <2>2 DEF TypeInv, RankSeen
  <2>4. Len(past) \in since[r]..Len(past) /\ past[Len(past)] = board /\ i <= Len(past)
    BY <1>2, <2>2, CallType, PastBoards DEF TypeInv
  <2>5. Ahead(past[i], op[r].Member)
          = {n \in Member : past[i][n] # None /\ Before(past[i], n, op[r].Member)}
    BY DEF Ahead, Present
  <2>6. rank[r] \in Nat
    BY <2>2, HeldRank, FS_CardinalityType
  <2>7. answer'[r].Rank = 1 + Cardinality({n \in Member : past[i][n] # None
                                                 /\ Before(past[i], n, op[r].Member)})
    BY <2>2, <2>3, <2>5, <2>6 DEF ZRevRank
  <2>8. answer'[r].Score = past[Len(past)][op[r].Member]
    BY <2>2, <2>4
  <2>9. QED
    BY <2>1, <2>3, <2>4, <2>7, <2>8
<1>3. QED
  BY <1>1, <1>2

\* What GetRank returns was true: at some moment of the call the member was on
\* the board at that rank, and at that moment or later it had that score.
THEOREM RankWasTrueCorrect == Spec => []RankWasTrue
<1>1. Init => RankWasTrue
  BY DEF Init, RankWasTrue
<1>2. QED
  BY <1>1, RankWasTrueNext, TypeInvAlways, PTL DEF Spec

-----------------------------------------------------------------------------
(* A range is a run of entries in rank order, and holds exactly the        *)
(* members whose rank is between its ends.                                 *)

LEMMA RangeIsRun ==
  ASSUME NEW b \in Board, NEW start \in Int, NEW stop \in Int
  PROVE  /\ RunOf(ZRevRange(b, start, stop), b)
         /\ Members(ZRevRange(b, start, stop)) =
              {n \in Present(b) : ZRevRank(b, n) \in ClipStart(b, start)..ClipStop(b, stop)}
<1> DEFINE a == ZRevRange(b, start, stop)
           from == ClipStart(b, start)
           to == ClipStop(b, stop)
           n == Size(b, start, stop)
<1>1. from \in Nat /\ to \in Int
  BY ClipRange
<1>2. /\ DOMAIN a = 1..n /\ n \in Nat
      /\ \A k \in 1..n : /\ a[k].Member \in Present(b) /\ a[k].Score = b[a[k].Member]
                         /\ ZRevRank(b, a[k].Member) = from + k - 1
  BY RangeEntries
<1>3. n = IF to < from THEN 0 ELSE to - from + 1
  BY DEF Size
<1> HIDE DEF a, from, to, n
<1>4. RunOf(a, b)
  BY <1>1, <1>2 DEF RunOf
<1>5. Members(a) \subseteq {m \in Present(b) : ZRevRank(b, m) \in from..to}
  <2> SUFFICES ASSUME NEW k \in 1..n
               PROVE  ZRevRank(b, a[k].Member) \in from..to
    BY <1>2 DEF Members
  <2>1. from + k - 1 \in from..to
    BY <1>1, <1>2, <1>3
  <2>2. QED
    BY <1>2, <2>1
<1>6. ASSUME NEW m \in Present(b), ZRevRank(b, m) \in from..to
      PROVE  m \in Members(a)
  <2> DEFINE k == ZRevRank(b, m) - from + 1
  <2>1. k \in 1..n /\ from + k - 1 = ZRevRank(b, m)
    BY <1>1, <1>3, <1>6
  <2> HIDE DEF k
  <2>2. a[k].Member \in Present(b) /\ ZRevRank(b, a[k].Member) = ZRevRank(b, m)
    BY <1>2, <2>1
  <2>3. a[k].Member = m
    BY <2>2, RanksAreAnOrder
  <2>4. QED
    BY <1>2, <2>1, <2>3 DEF Members
<1>7. QED
  BY <1>4, <1>5, <1>6 DEF a, from, to

\* The first n positions.
LEMMA TopIsRange ==
  ASSUME NEW b \in Board, NEW n \in Nat \ {0}, NEW a, a = ZRevRange(b, 0, n - 1)
  PROVE  /\ RunOf(a, b)
         /\ \/ Len(a) = n
            \/ Len(a) < n /\ Members(a) = Present(b)
         /\ \A m \in Members(a), l \in Present(b) \ Members(a) : Before(b, m, l)
<1> DEFINE C == Cardinality(Present(b))
<1>1. C \in Nat /\ 0 \in Int /\ n - 1 \in Int
  BY PresentFinite
<1>2. ClipStart(b, 0) = 0 /\ ClipStop(b, n - 1) = IF n - 1 < C THEN n - 1 ELSE C - 1
  BY <1>1 DEF ClipStart, ClipStop, FromEnd
<1>3. /\ RunOf(a, b)
      /\ Members(a) = {m \in Present(b) : ZRevRank(b, m) \in 0..ClipStop(b, n - 1)}
      /\ Len(a) = Size(b, 0, n - 1)
  BY <1>1, <1>2, RangeIsRun, RangeEntries
<1>4. Len(a) = IF n - 1 < C THEN n ELSE C
  BY <1>1, <1>2, <1>3 DEF Size
<1>5. \A m \in Present(b) : ZRevRank(b, m) \in 0..(C - 1)
  BY RankRange
<1>6. ASSUME ~(n - 1 < C)
      PROVE  Len(a) < n /\ Members(a) = Present(b)
  <2>1. Len(a) = C /\ C < n
    BY <1>1, <1>4, <1>6
  <2>2. ClipStop(b, n - 1) = C - 1
    BY <1>2, <1>6
  <2>3. Members(a) = {m \in Present(b) : ZRevRank(b, m) \in 0..(C - 1)}
    BY <1>3, <2>2
  <2>4. QED
    BY <1>5, <2>1, <2>3
<1>7. ASSUME NEW m \in Members(a), NEW l \in Present(b) \ Members(a)
      PROVE  Before(b, m, l)
  <2>1. ZRevRank(b, m) < ZRevRank(b, l)
    BY <1>1, <1>2, <1>3, <1>5
  <2>2. QED
    BY <1>3, <2>1, RanksAreAnOrder
<1>8. QED
  BY <1>3, <1>4, <1>6, <1>7

\* The members of b whose rank is within d of k.
Around(b, k, d) == {n \in Present(b) : ZRevRank(b, n) - k \in (-d)..d}

\* The positions around one of them.
LEMMA WindowIsRange ==
  ASSUME NEW b \in Board
  PROVE  \A k, d \in Nat :
           LET start == IF k - d < 0 THEN 0 ELSE k - d
               a == ZRevRange(b, start, k + d)
           IN  Len(a) <= 2 * d + 1 /\ RunOf(a, b) /\ Members(a) = Around(b, k, d)
<1> TAKE k, d \in Nat
<1> DEFINE C == Cardinality(Present(b))
           start == IF k - d < 0 THEN 0 ELSE k - d
           a == ZRevRange(b, start, k + d)
<1>1. C \in Nat /\ start \in Nat /\ k + d \in Nat
  BY PresentFinite
<1>2. ClipStart(b, start) = start /\ ClipStop(b, k + d) = IF k + d < C THEN k + d ELSE C - 1
  BY <1>1 DEF ClipStart, ClipStop, FromEnd
<1>3. /\ RunOf(a, b)
      /\ Members(a) = {m \in Present(b) : ZRevRank(b, m) \in start..ClipStop(b, k + d)}
      /\ Len(a) = Size(b, start, k + d)
  BY <1>1, <1>2, RangeIsRun, RangeEntries
<1>4. Len(a) <= 2 * d + 1
  BY <1>1, <1>2, <1>3 DEF Size
<1>5. ASSUME NEW m \in Present(b)
      PROVE  ZRevRank(b, m) \in start..ClipStop(b, k + d) <=> ZRevRank(b, m) - k \in (-d)..d
  <2>1. ZRevRank(b, m) \in 0..(C - 1)
    BY RankRange
  <2>2. QED
    BY <1>1, <1>2, <2>1
<1>6. Members(a) = Around(b, k, d)
  BY <1>3, <1>5 DEF Around
<1>7. QED
  BY <1>3, <1>4, <1>6

LEMMA TopIsBestNext == TypeInv /\ TopIsBest /\ [Next]_vars => TopIsBest'
<1> DEFINE Top(a, n, b) ==
             /\ RunOf(a, b)
             /\ \/ Len(a) = n
                \/ Len(a) < n /\ Members(a) = Present(b)
             /\ \A m \in Members(a), l \in Present(b) \ Members(a) : Before(b, m, l)
<1> SUFFICES ASSUME TypeInv, TopIsBest, [Next]_vars,
                    NEW r \in Request, pc'[r] = "done", op'[r].Kind = "top", op'[r].N > 0
             PROVE  \E i \in since'[r]..Len(past') : Top(answer'[r], op'[r].N, past'[i])
  BY DEF TopIsBest
<1>1. CASE pc[r] = "done"
  <2>1. op'[r] = op[r] /\ answer'[r] = answer[r]
    BY <1>1, AnswerStays
  <2>2. PICK i \in since[r]..Len(past) : Top(answer[r], op[r].N, past[i])
    BY <1>1, <2>1 DEF TopIsBest
  <2>3. i \in since'[r]..Len(past') /\ past'[i] = past[i]
    BY <1>1, SinceStays
  <2> HIDE DEF Top
  <2>4. QED
    BY <2>1, <2>2, <2>3
<1>2. CASE pc[r] # "done"
  <2>1. GetTopN(r) /\ UNCHANGED <<past, op, since>>
    BY <1>2, AnswerGiven DEF GetAroundMember, GetRank
  <2>2. pc[r] = "first" /\ answer'[r] = ZRevRange(board, 0, op[r].N - 1)
    BY <2>1 DEF GetTopN, Answer, TypeInv, TypeOK
  <2>3. Len(past) \in since[r]..Len(past) /\ past[Len(past)] = board /\ board \in Board
    BY <2>2, CallType, PastBoards DEF TypeInv
  <2>4. op[r].N \in Nat \ {0}
    BY <2>1, <2>2, CallType, OperationType DEF TypeInv
  <2>5. Top(answer'[r], op[r].N, board)
    BY <2>2, <2>3, <2>4, TopIsRange
  <2> HIDE DEF Top
  <2>6. QED
    BY <2>1, <2>3, <2>5
<1>3. QED
  BY <1>1, <1>2

\* GetTopN returns the best n entries of a content the board had during the
\* call, or all of them if there are no n, best first.
THEOREM TopIsBestCorrect == Spec => []TopIsBest
<1>1. Init => TopIsBest
  BY DEF Init, TopIsBest
<1>2. QED
  BY <1>1, TopIsBestNext, TypeInvAlways, PTL DEF Spec

LEMMA WindowIsAroundRankNext ==
  TypeInv /\ WindowIsAroundRank /\ [Next]_vars => WindowIsAroundRank'
<1> DEFINE Window(a, o, b, c) ==
             /\ o.Member \in Present(b)
             /\ RunOf(a, c)
             /\ Members(a) = {n \in Present(c) : ZRevRank(c, n) - ZRevRank(b, o.Member)
                                                   \in (-o.Radius)..o.Radius}
<1> SUFFICES ASSUME TypeInv, WindowIsAroundRank, [Next]_vars,
                    NEW r \in Request, pc'[r] = "done", op'[r].Kind = "around"
             PROVE  /\ Len(answer'[r]) <= 2 * op'[r].Radius + 1
                    /\ \E i, j \in since'[r]..Len(past') :
                         i <= j /\ Window(answer'[r], op'[r], past'[i], past'[j])
  BY DEF WindowIsAroundRank
<1>1. CASE pc[r] = "done"
  <2>1. op'[r] = op[r] /\ answer'[r] = answer[r]
    BY <1>1, AnswerStays
  <2>2. /\ Len(answer[r]) <= 2 * op[r].Radius + 1
        /\ \E i, j \in since[r]..Len(past) :
             i <= j /\ Window(answer[r], op[r], past[i], past[j])
    BY <1>1, <2>1 DEF WindowIsAroundRank
  <2> HIDE DEF Window
  <2>3. PICK i \in since[r]..Len(past), j \in since[r]..Len(past) :
          i <= j /\ Window(answer[r], op[r], past[i], past[j])
    BY <2>2
  <2>4. /\ i \in since'[r]..Len(past') /\ past'[i] = past[i]
        /\ j \in since'[r]..Len(past') /\ past'[j] = past[j]
    BY <1>1, SinceStays
  <2>5. QED
    BY <2>1, <2>2, <2>3, <2>4
<1>2. CASE pc[r] # "done"
  <2>1. GetAroundMember(r) /\ UNCHANGED <<past, op, since>>
    BY <1>2, AnswerGiven DEF GetTopN, GetRank
  <2>2. /\ pc[r] = "second"
        /\ answer'[r] = ZRevRange(board,
                                  IF rank[r] - op[r].Radius < 0 THEN 0 ELSE rank[r] - op[r].Radius,
                                  rank[r] + op[r].Radius)
    BY <2>1 DEF GetAroundMember, Answer, TypeInv, TypeOK
  <2>3. PICK i \in since[r]..Len(past) :
          op[r].Member \in Present(past[i]) /\ rank[r] = ZRevRank(past[i], op[r].Member)
    BY <2>2 DEF TypeInv, RankSeen
  <2>4. /\ Len(past) \in since[r]..Len(past) /\ i <= Len(past)
        /\ past[Len(past)] = board /\ board \in Board
    BY <2>2, CallType, PastBoards DEF TypeInv
  <2>5. op[r].Radius \in Nat /\ rank[r] \in Nat
    BY <2>1, <2>2, AroundBounds
  <2>6. /\ Len(answer'[r]) <= 2 * op[r].Radius + 1
        /\ RunOf(answer'[r], board)
        /\ Members(answer'[r]) = Around(board, rank[r], op[r].Radius)
    <3>1. \A k, d \in Nat :
            LET start == IF k - d < 0 THEN 0 ELSE k - d
                a == ZRevRange(board, start, k + d)
            IN  Len(a) <= 2 * d + 1 /\ RunOf(a, board) /\ Members(a) = Around(board, k, d)
      BY <2>4, WindowIsRange
    <3>2. QED
      BY <2>2, <2>5, <3>1
  <2>7. Window(answer'[r], op[r], past[i], past[Len(past)])
    BY <2>3, <2>4, <2>6 DEF Around
  <2> HIDE DEF Window
  <2>8. QED
    BY <2>1, <2>4, <2>6, <2>7
<1>3. QED
  BY <1>1, <1>2

\* GetAroundMember returns exactly the entries within the radius of a rank the
\* member had during the call, in rank order.
THEOREM WindowIsAroundRankCorrect == Spec => []WindowIsAroundRank
<1>1. Init => WindowIsAroundRank
  BY DEF Init, WindowIsAroundRank
<1>2. QED
  BY <1>1, WindowIsAroundRankNext, TypeInvAlways, PTL DEF Spec
=============================================================================
