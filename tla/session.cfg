SPECIFICATION Spec
CONSTANTS
  Chunk = 2
  Caps = {0, 4}
  Runs = {1, 2}
  ReadCap = 2
  MaxBuffered = 4
  MaxSent = 5
  MaxPrograms = 3
INVARIANTS SessionTypeOK OutputOfThisRun ExitTellsVerdict SpinnerQuiet
PROPERTIES BenchEnds
CHECK_DEADLOCK FALSE
