SPECIFICATION FairSpec
CONSTANTS
  Activations = {f1, f2}
  NoActivation = NoActivation
  Ops = {"send", "enqueue", "approve", "stopHard", "stopSoft"}
  CallKinds = {"run", "approval"}
  ModelErrors = {"length", "permanent"}
  AutoTitle = TRUE
  TriggerModes = {"auto"}
  Configs = {"c1"}
  MaxToolIterations = 1
  MaxFailures = 2
  MaxAutoRetries = 1
  Caps = {}
  MaxSpend = 0
  MaxCalls = 1
  MaxEntries = 3
  MaxQueue = 1
  MaxBudget = 1
PROPERTIES TurnEnds QueueLands StopSettles
CHECK_DEADLOCK FALSE
