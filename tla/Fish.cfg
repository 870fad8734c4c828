CONSTANTS
  NUM_COLS = 3
  NUM_ROWS = 2
  WORD = 8
  OFFSET = 2
  LENGTH = 3
  EXTRA = 5
  EXTRA_ON = 1
  EXTRA_OFF = 2
  WAIT = 4
  MAX_TEXT = 3
  MAX_CALLS = 4
  Lengths = {2, 4}
  Clients = {"start", "any"}
SPECIFICATION FairSpec
INVARIANTS
  ListSound
  Timely
  WholeFrame
  InStep
PROPERTIES
  FishEnds
CHECK_DEADLOCK FALSE
