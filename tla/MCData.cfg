SPECIFICATION Spec
CONSTANTS
  ListLen = 2
  MaxThreads = 8
  MaxArgs = 3
  MaxLines = 1
  Bundle = {b1, b2}
  Copies = 2
  BundleLen = 2
  ResultLimit = 1
  MaxAsked = 2
  HashLen = 2
  TagLen = 2
  MessageLen = 3
  MaxLen = 3
  MaxPayloads = 2
INVARIANTS
  TypesOK
  ConfigAsGiven
  QueryIsRight
  ReadIsRight
  FreedOnEveryPath
CHECK_DEADLOCK FALSE
