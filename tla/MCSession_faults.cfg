SPECIFICATION Spec
CONSTANTS
  Activations = {f1, f2}
  NoActivation = NoActivation
  Ops = {"send", "enqueue", "cap", "approve", "fault", "retryWrites", "discard", "compactNow"}
  CallKinds = {"run", "throws", "approval-throws"}
  ModelErrors = {}
  AutoTitle = FALSE
  TriggerModes = {"manual"}
  Configs = {"c1"}
  MaxToolIterations = 2
  MaxFailures = 9
  MaxAutoRetries = 1
  Caps = {1}
  MaxSpend = 2
  MaxCalls = 1
  MaxEntries = 3
  MaxQueue = 1
  MaxBudget = 1
SYMMETRY ActivationSymmetry
INVARIANTS FaultIsAnswerable
CHECK_DEADLOCK FALSE
