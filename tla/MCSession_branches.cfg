SPECIFICATION Spec
CONSTANTS
  Activations = {f1, f2}
  NoActivation = NoActivation
  Ops = {"send", "edit", "rewind", "enqueue", "setQueue", "notice", "compact", "triggerMode"}
  CallKinds = {"run"}
  ModelErrors = {"over-window", "permanent"}
  AutoTitle = FALSE
  TriggerModes = {"auto", "cancelable", "hard"}
  Configs = {"c1", "c2"}
  MaxToolIterations = 2
  MaxFailures = 2
  MaxAutoRetries = 1
  Caps = {}
  MaxSpend = 0
  MaxCalls = 1
  MaxEntries = 4
  MaxQueue = 1
  MaxBudget = 1
SYMMETRY ActivationSymmetry
INVARIANTS CompactionCoversBranch PinFollowsTurn
PROPERTIES AdoptsAtBoundary
CHECK_DEADLOCK FALSE
