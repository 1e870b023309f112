SPECIFICATION Spec
CONSTANTS
  NodeCount = 2
  Worker = {w1}
  Options <- MCOptions
  MaxChanges = 2
  MaxCommands = 1
  MaxRequestLen = 4
  MaxChunks = 3
  MaxRequests = 1
  Endless = {TRUE, FALSE}
PROPERTIES
  UnsyncIsLeft
CHECK_DEADLOCK FALSE
