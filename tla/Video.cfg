CONSTANTS
  PROC_NUM = 4
  NUM_TERMINALS = 3
SPECIFICATION FairSpec
INVARIANTS
  OwnFrameOnly
  TickMapsRight
PROPERTIES
  MismatchEnds
