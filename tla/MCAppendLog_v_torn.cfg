SPECIFICATION Spec
CONSTANTS
  Callers = {c1}
  Failures = {}
  Tears = {"torn"}
  MaxRecords = 2
  MaxCrashes = 1
  Capacity = 3
INVARIANTS AckedIsReadable
CHECK_DEADLOCK FALSE
