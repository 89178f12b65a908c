SPECIFICATION SimSpec
CONSTANTS
  Base = 2
  WordBase = 256
  LaneBase = 4
  ByteBase = 1
  MaxBuffered = 1
  RegCount = 2
  UartPage = 1
  ClintPage = 2
  CountBase = 2
  Programs <- NoProgram
  HexFiles <- Files
  TohostIndex = 24
  Window = 3
  Budgets = {2, 7}
  MaxCycleCount = 8
INVARIANTS OvershootBounded TimerTracksCycles
PROPERTIES ResetLeavesOnlyLatch
