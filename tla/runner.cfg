SPECIFICATION FairSpec
CONSTANTS
  Keys = {"ctrl_c", "esc", "enter", "r", "control"}
  Final = {"r", "[", "A"}
  Sequences <- ArrowUp
  KeyCap = 2
  MaxSwallow = 2
  MaxTyped = 3
  MaxChunks = 0
INVARIANTS TypeOK KeysInOrder
PROPERTIES RunEnds CtrlCAnswered PauseAnswered ReaderStops
CHECK_DEADLOCK FALSE
