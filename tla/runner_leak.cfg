SPECIFICATION FairSpec
CONSTANTS
  Keys = {"ctrl_c", "esc", "enter", "r", "control"}
  Final = {"r", "[", "A"}
  Sequences <- ArrowUp
  KeyCap = 2
  MaxSwallow = 2
  MaxTyped = 3
  MaxChunks = 1
INVARIANTS SequenceNeverLeaks
CHECK_DEADLOCK FALSE
