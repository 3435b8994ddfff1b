SPECIFICATION Spec
CONSTANTS
  Sessions = {s1, s2}
  None = None
  Native = {"read_file", "run_command"}
  Classifies = {}
  NativeKind <- MCKind
  Bridged = {"server__look"}
  Hinted = {}
  AlwaysAllow = {}
  Fields = {"path", "file"}
  Paths <- MCPaths
  Dirs <- MCDirs
  Above <- MCAbove
  Dir <- MCDir
  FsRoot = "/"
  Workspace = "/work"
  Calls <- MCCalls
  Settings <- MCSettings
SYMMETRY SessionSymmetry
PROPERTIES StartsWithConsent GuessIsNoConsent
CONSTRAINTS OneActs NamesBelow
CHECK_DEADLOCK FALSE
