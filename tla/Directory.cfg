CONSTANTS
  Procs = {p1, p2}
  num_dentry = 2
  FNAME_SIZE = 2
  Char = {1, 2}
  INT_MAX = 3
SPECIFICATION FairDirSpec
INVARIANTS
  LookupExact
  SoloExact
PROPERTIES
  ListingEnds
