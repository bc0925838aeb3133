SPECIFICATION Spec
CONSTANTS
  CaptureIds = {1}
  Readers = {}
  Cleaners = {1}
  MaxObjs = 3
INVARIANT StatusKept
CHECK_DEADLOCK FALSE
