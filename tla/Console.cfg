CONSTANTS
  MEM = 12
  VALUES = 4095
  Files <- OneFile
  Commands <- TwoCommands
  TypedKeys = {30, 57}
  LINE_MAX = 3
  Callers = {0}
  Requests = {1, 3}
  MAX_HELD = 2
SPECIFICATION ConsoleSpec
INVARIANTS
  TypedRight
  ArgsOwn
  LibraryRight
PROPERTIES
  GetargsEnds
