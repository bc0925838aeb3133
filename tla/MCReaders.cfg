SPECIFICATION Spec
CONSTANTS
  CaptureIds = {1}
  Readers = {1}
  Cleaners = {}
  MaxObjs = 3
INVARIANT ReadsAllocated
CHECK_DEADLOCK FALSE
