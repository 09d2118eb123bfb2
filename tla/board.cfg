SPECIFICATION FairSpec
CONSTANTS
  Id = {b1}
  Field = {name, description}
  Value = {old, new}
  Request = {r1, r2}
  None = None
CHECK_DEADLOCK FALSE
INVARIANTS
  TypeOK
  CopiesAreRows
  NoLostUpdate
PROPERTY StaleCopiesGo
