SPECIFICATION FairSpec
CONSTANTS
  e1 = e1
  Update = {s1, s2}
  Entry = {e1}
  EntryOf <- OneEntry
  None = None
  Faults <- AllFaults
  MaxStarts = 2
CHECK_DEADLOCK FALSE
INVARIANTS
  TypeOK
  HistoryFollowsStream
  DeliveredIsAccounted
  PublishedWasApplied
PROPERTIES
  StreamDrains
