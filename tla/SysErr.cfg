CONSTANTS
  PROC_NUM = 3
  FDESC_SIZE = 5
  FLAG_WORD = 4
  MAX_FD = 5
  BOOT_WORDS = {0}
SPECIFICATION Spec
INVARIANTS
  SysErrPasses
  CleanSlot
  HeldIsOpen
