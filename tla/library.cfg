SPECIFICATION MenuSpec
CONSTANTS
  NoFile = NoFile
  NoEntry = NoEntry
  UserProgramDirs <- TwoDirs
  Stems <- MCStems
  builtins <- MCBuiltins
  RepoHex = {}
  Contents = {"x", "y", "torn"}
  Metadata <- MCMetadata
  Procs = {"menu", "shell"}
  MenuProc = "menu"
  Inputs <- MCInputs
  OptNames <- MCOptNames
  Typed <- MCTyped
  Selections <- MCSelections
  FirstLibraries <- MCFirstLibraries
  MaxCommands = 2
  Tools = {"sdk", "gcc", "python"}
  HandEdits <- MCHandEdits
  MaxEdits = 1
INVARIANTS MenuTypeOK ListedIsFound AddTakesEffect SuggestionsMatch
PROPERTIES BuiltinsKept DeleteAsShown RunAsShown
CHECK_DEADLOCK FALSE
