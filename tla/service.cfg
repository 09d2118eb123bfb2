SPECIFICATION FairSystem
CONSTANTS
  s1 = s1
  s2 = s2
  e1 = e1
  e2 = e2
  Update = {s1, s2}
  Entry = {e1, e2}
  EntryOf <- EachItsEntry
  None = None
  Faults <- StopsAndFailedScores
  MaxStarts = 2
  Connection = {c1, c2}
  topic = topic
  Empty = Empty
  TopicGlobal = TopicGlobal
  Anonymous = Anonymous
CHECK_DEADLOCK FALSE
INVARIANTS
  CausalOrder
PROPERTIES
  SocketContract
  PublishedIsHandled
