CONSTANTS
  PROC_NUM = 3
  NUM_TERMINALS = 2
  MAX_DEPTH = 1
  MAX_NEST = 0
SPECIFICATION Spec
CHECK_DEADLOCK FALSE
INVARIANT
  NoWildTick
