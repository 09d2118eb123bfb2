SPECIFICATION Spec
CONSTANTS
  Member = {1, 2, 3}
  Score = {10, 20}
  Request = {r1}
  Radius = {0, 1}
  TopN = {0, 1, 2, 100}
  None = NoScore
  MaxWrites = 4
CHECK_DEADLOCK FALSE
INVARIANTS
  TypeOK
  RankWasTrue
  WindowIsAroundRank
  TopIsBest
