SPECIFICATION Spec
CONSTANTS
  Sessions = {s1, s2}
  Ops = {"rewind", "edit", "aside", "fault", "discard", "crash", "close"}
  MaxEntries = 3
  MaxRecords = 6
SYMMETRY SessionSymmetry
CONSTRAINT WhileIntact
INVARIANTS LogMatchesLive RestartShowsAPast
CHECK_DEADLOCK FALSE
