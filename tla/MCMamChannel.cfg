SPECIFICATION FairSpec
CONSTANTS
  Seed = {seed1}
  ConfSeed = ConfSeed
  None = None
  Depth = {1, 2}
  Encrypt = {TRUE}
  ChidIter = 0
  MaxMsgs = 3
  MaxReads = 1
  MaxFaults = 1
INVARIANTS
  TypeOK
  ReaderMissesNone
PROPERTIES
  SpentKeyRests
  NoChid1IsEnd
  SendEnds
CHECK_DEADLOCK FALSE
