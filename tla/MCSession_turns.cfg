SPECIFICATION Spec
CONSTANTS
  Activations = {f1, f2}
  NoActivation = NoActivation
  Ops = {"send", "edit", "rewind", "enqueue", "approve", "answer", "continue", "retry", "cap"}
  CallKinds = {"run", "refused", "approval", "question"}
  ModelErrors = {"permanent"}
  AutoTitle = FALSE
  TriggerModes = {"manual"}
  Configs = {"c1"}
  MaxToolIterations = 1
  MaxFailures = 2
  MaxAutoRetries = 1
  Caps = {1}
  MaxSpend = 2
  MaxCalls = 2
  MaxEntries = 3
  MaxQueue = 1
  MaxBudget = 1
SYMMETRY ActivationSymmetry
INVARIANTS ToolResultsUnbroken CardMatchesStatus
PROPERTIES CallsAreGranted
CHECK_DEADLOCK FALSE
