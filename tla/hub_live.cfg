SPECIFICATION FairSpec
CONSTANTS
  c1 = c1
  u1 = u1
  NoId = NoId
  Client = {c1}
  Topic = {t1}
  User = {}
  Payload = {p1, p2}
  Empty = NoId
  TopicGlobal = TopicGlobal
  UserID <- Anonymous
  SendCap = 1
  BroadcastCap = 1
CHECK_DEADLOCK FALSE
PROPERTIES
  ClosedConnectionEnds
  BroadcastIsAccepted
