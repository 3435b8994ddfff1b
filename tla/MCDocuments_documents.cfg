SPECIFICATION DocumentsSpec
CONSTANTS
  None = None
  Absent = "absent"
  Blank = "blank"
  IdNames <- MCIdNames
  Requests <- MCRequests
  TypedTexts = {"a", "blank"}
  TypedNotes = {"n", "blank"}
  MaxEntries = 4
  Rows = {"r1", "r2", "r3"}
  ApiKeys = {"k1"}
  Models = {"m1", "m2"}
  Dirs = {"d1", "d2"}
  Up <- MCUp
  Terminals = {"t1"}
  RecentLimit = 2
  Providers = {"p"}
  Unknown = "unknown"
  MaxCalls = 2
  MinTurns = 2
  Growth = 2
  MaxMade = 6
  Tokens = {"a", "b", "c"}
  FileNamed <- MCFileNamed
  NoFile = NoFile
  FirstFiles <- MCFirstFiles
  FileCalls <- MCFileCalls
  ForeignBodies <- MCForeignBodies
  MaxForeign = 1
  Bodies <- MCBodies
  Limits = {1, 2, NoLimit}
  NoLimit = NoLimit
  MaxReadChars = 4
  Corpora <- MCCorpora
  MaxGrepMatches = 3
  MaxGrepScan = 2
  MaxGrepOutput = 5
INVARIANTS
  ListStaysAddressable
  FileIsClosed SwitchConverges
  Sendable RequestsStayCheap
  BatchIsWhole SilenceIsAbsence
PROPERTIES WritesWhatItSaw
CHECK_DEADLOCK FALSE
CONSTRAINT MayGoOn
