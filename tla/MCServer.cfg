SPECIFICATION Spec
CONSTANTS
  NodeCount = 2
  Worker = {w1}
  Options <- MCOptions
  MaxChanges = 2
  MaxCommands = 1
  MaxRequestLen = 4
  MaxChunks = 3
  MaxRequests = 1
  Endless = {TRUE, FALSE}
INVARIANTS
  TypesOK
  SharedStateAgrees
  StatusIsTrue
  TimerIsSafe
PROPERTIES
  FailoverConverges
  EveryoneEnds
CHECK_DEADLOCK FALSE
