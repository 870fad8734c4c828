CONSTANTS
  NUM_ROWS = 2
  NUM_COLS = 2
  Char = {a}
  Blank = b
  NUM_TERMINALS = 2
  LINE_MAX = 1
  Prompt = a
  Leftover = {a}
SPECIFICATION Spec
CHECK_DEADLOCK FALSE
INVARIANTS
  RoomToErase
PROPERTIES
  IndependentScreens
