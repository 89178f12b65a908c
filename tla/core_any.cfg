SPECIFICATION Spec
CONSTANTS
  Base = 3
  WordBase = 256
  LaneBase = 4
  ByteBase = 2
  MaxBuffered = 1
  RegCount = 2
  UartPage = 1
  ClintPage = 2
  CountBase = 2
  Programs <- AnyPrograms
INVARIANTS TypeOK TrapCountersAgree MtipIsCompare
PROPERTIES TrapCommitsNothing InterruptsStayOff MtimeCounts MemoryIsBytes
