CONSTANTS
  DATABLK_SIZE = 3
  NUM_INODES = 2
  MAX_LEN = 7
  MAX_READ = 4
SPECIFICATION FairSpec
INVARIANTS
  InOrder
  LoadExact
PROPERTIES
  ReachesEnd
