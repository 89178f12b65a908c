SPECIFICATION Spec
CONSTANTS
  Versions = {"v1", "v2", "repo"}
  Programs <- MCPrograms
  SdkFiles <- MCSdkFiles
  Packages <- MCPackages
  RepoPrograms <- MCRepoPrograms
  RepoSdk = TRUE
  Shells = {"bash", "fish"}
  FirstShell = "bash"
  FirstTrees = {"none", "v1"}
  FirstRcs <- MCFirstRcs
  FirstLists <- MCFirstLists
  UserLine = "export"
  MaxTries = 2
  MaxCommands = 2
  MaxEdits = 1
  PayloadVersion = "v2"
  PayloadPrograms = {"matrix"}
PROPERTY UserLinesKept
CHECK_DEADLOCK FALSE
