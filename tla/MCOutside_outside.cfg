SPECIFICATION OutsideSpec
CONSTANTS
  Tasks = {t1, t2}
  Overlap = 2
  WatchSettings = {TRUE, FALSE}
  Keys = {k1, k2}
  None = None
  CancelSettleTries = 2
  MaxGen = 6
  Letters = {"a", "t", "u", "w", "x", "y"}
  Words = {"", "s", "p", "f", "g", "c1", "c2"}
  Asked <- MCAsked
  ModelAnswers <- MCAnswers
  MaxAttempts = 2
  BaseModelId <- MCBase
  Offers <- MCOffers
  Configurations <- MCConfigurations
  FallbackWindow = 5
  DefaultBuffer = 2
  Measures = {2, 5, 9}
  MaxChanges = 2
  McpNames = {s1, s2}
  Questions = {"path"}
  NoEntry = NoEntry
  MaxStarts = 2
  MaxEdits = 1
  Ports = {1, 2, 3}
  DefaultPort = 1
  PortScanCount = 2
  MaxPosts = 2
INVARIANTS AnswerIsKept BudgetIsReal AskedOnce ExitVouches
PROPERTIES ImplementsTaskVerdict CallReturns ReadEnds ServersSettle ShutdownEnds
CHECK_DEADLOCK FALSE
