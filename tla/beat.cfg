SPECIFICATION FairSpec
CONSTANTS
  PongWait = 31
  WriteWait = 5
  PingDelay = 1
  WriteTime = 1
  ReplyTime = 1
  MaxPongs = 2
CHECK_DEADLOCK FALSE
INVARIANTS
  TypeOK
  ResponsivePeerIsKept
PROPERTIES
  PatienceRunsOut
  UnresponsivePeerIsDropped
