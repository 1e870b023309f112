SPECIFICATION Spec
CONSTANTS
  Seed = {seed1}
  ConfSeed = ConfSeed
  None = None
  Depth = {1, 2}
  Encrypt = {TRUE}
  ChidIter = 0
  MaxMsgs = 3
  MaxReads = 1
  MaxFaults = 1
CHECK_DEADLOCK FALSE
INVARIANT MsgIdUnique
