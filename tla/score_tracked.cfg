SPECIFICATION Spec
CONSTANTS
  e1 = e1
  Update = {s1, s2}
  Entry = {e1}
  EntryOf <- OneEntry
  None = None
  Faults <- NoFaults
  MaxStarts = 2
CHECK_DEADLOCK FALSE
INVARIANT EveryScoreIsTracked
