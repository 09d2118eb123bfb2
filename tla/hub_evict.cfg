SPECIFICATION Spec
CONSTANTS
  c1 = c1
  u1 = u1
  NoId = NoId
  Client = {c1}
  Topic = {t1}
  User = {u1}
  Payload = {p1, p2}
  Empty = NoId
  TopicGlobal = TopicGlobal
  UserID <- SameUser
  SendCap = 1
  BroadcastCap = 1
CHECK_DEADLOCK FALSE
INVARIANT EvictionSparesHub
