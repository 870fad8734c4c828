CONSTANTS
  PROC_NUM = 3
  NUM_TERMINALS = 2
  MAX_DEPTH = 1
  MAX_NEST = 1
SPECIFICATION Spec
CHECK_DEADLOCK FALSE
INVARIANTS
  TopOfTerminal
  WaitingChain
  MachineFollowsCurr
  OneBottom
  NoneStranded
  SoundUntilLaunch
PROPERTIES
  ImplementsStacks
