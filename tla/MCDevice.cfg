SPECIFICATION Spec
CONSTANTS
  MaxSent = 3
  MaxLinkFaults = 2
  Sensor <- MCSensor
  MaxNoise = 1
  MaxFaults = 1
  Key = {k1, k2}
  MessageLens = {15, 16, 1023, 1024}
  MaxMsgLen = 1024
  FlatOverhead = 88
  BodyOverhead = 139
  MaxParts = 2
  MaxCrashes = 2
INVARIANTS
  TypesOK
  AnswersAreDue
  ReadingsMatch
  SendOutcome
  KeySurvives
PROPERTIES
  EveryoneEnds
CHECK_DEADLOCK FALSE
