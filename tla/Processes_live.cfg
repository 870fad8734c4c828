CONSTANTS
  PROC_NUM = 3
  NUM_TERMINALS = 3
  MAX_DEPTH = 0
  MAX_NEST = 0
SPECIFICATION FairSpec
CHECK_DEADLOCK FALSE
PROPERTIES
  RoundRobin
