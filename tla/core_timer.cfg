SPECIFICATION Running
CONSTANTS
  Base = 256
  WordBase = 256
  LaneBase = 4
  ByteBase = 2
  MaxBuffered = 1
  RegCount = 11
  UartPage = 1
  ClintPage = 2
  CountBase = 4
  Deltas = {1,2,3,4,5,6,7,8,9,10,11,12,13,14,15,16,17,18,19,20,21,22,23,24,25,26,27,28,29,30,31,32,33,34,35,36,37,38,39,40}
  TargetTicks = 3
  MaxCycles = 400
  Programs <- TimerPrograms
PROPERTIES InterruptsTransparent DeadlinesServed
CHECK_DEADLOCK FALSE
