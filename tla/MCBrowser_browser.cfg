SPECIFICATION Spec
CONSTANTS
  Sessions = {s1, s2}
  Threads = {c1}
  None = None
  Ops = {"focus", "peek", "submit", "new", "close", "answer"}
  MaxWire = 1
  MaxPosts = 2
  Drops = 1
SYMMETRY SessionSymmetry
INVARIANTS ScreenIsTheServer MessagesFindTheirThread PromotionKeepsFocus HandBackIsTold
CHECK_DEADLOCK FALSE
CONSTRAINT MayGoOn
