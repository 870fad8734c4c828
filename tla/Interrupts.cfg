CONSTANTS
  Reader = {r1, r2}
  Unused = {6, 14}
  MAX_BYTES = 2
  WriteFreqs = {32, 128, 256}
SPECIFICATION IntSpec
INVARIANTS
  FreqAsWritten
  OnePerInterrupt
  OwnService
  OwnHandler
PROPERTIES
  RtcServed
  KeysFetched
