SPECIFICATION Spec
CONSTANTS
  Readers = {r1}
  NoRead = NoRead
  StartTime = 4
  MaxTime = 10
  MaxEdits = 3
  Second = 2
INVARIANTS TypeOK ReadWhole
PROPERTIES NeverOlder EditsApplied
CHECK_DEADLOCK FALSE
