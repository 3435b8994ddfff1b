SPECIFICATION FairSpec
CONSTANTS
  Callers = {c1, c2}
  Failures = {"short", "sync"}
  Tears = {"lost", "torn"}
  MaxRecords = 3
  MaxCrashes = 1
  Capacity = 3
PROPERTIES FlushVouches ImplementsDurableLog AppendSettles
CHECK_DEADLOCK FALSE
