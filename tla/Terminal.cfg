CONSTANTS
  NUM_TERMINALS = 2
  LINE_MAX = 1
  PRINT_LIM = 2
  WriteCounts = {1, 2}
  ReadCounts = {1, 3}
SPECIFICATION FairSpec
INVARIANTS
  TerminalsApart
  
PROPERTIES
  WaitEnds
