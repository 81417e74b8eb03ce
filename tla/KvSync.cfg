SPECIFICATION Spec
CONSTANTS
  Key = {k1}
  Value = {v1, junk}
  Removed = removed
  Garbage = junk
  Call = {1, 2}
  Resolution = 2
  Permits = 1
  MaxNow = 3
  MaxWrites = 2
  MaxOthers = 1
  MaxRestarts = 1
INVARIANTS
  TypeOK
  RecordedAgrees
PROPERTIES
  SuccessMeansSame
  NewerKept
  SyncEnds
CHECK_DEADLOCK FALSE
