SPECIFICATION Spec
CONSTANTS
  Activations = {f1, f2}
  NoActivation = NoActivation
  Ops = {"send", "rewind", "retry", "stopHard", "stopSoft"}
  CallKinds = {"run", "refused"}
  ModelErrors = {"transient", "permanent"}
  AutoTitle = FALSE
  TriggerModes = {"manual"}
  Configs = {"c1"}
  MaxToolIterations = 2
  MaxFailures = 9
  MaxAutoRetries = 1
  Caps = {}
  MaxSpend = 0
  MaxCalls = 1
  MaxEntries = 4
  MaxQueue = 0
  MaxBudget = 1
SYMMETRY ActivationSymmetry
INVARIANTS OneLoop
PROPERTIES NoTurnAfterStop
CHECK_DEADLOCK FALSE
