SPECIFICATION RunningWithHost
CONSTANTS
  Base = 4
  WordBase = 256
  LaneBase = 4
  ByteBase = 2
  MaxBuffered = 2
  RegCount = 2
  UartPage = 1
  ClintPage = 2
  CountBase = 2
  Programs <- EchoPrograms
PROPERTIES ByteTakenOnlyByCommit
