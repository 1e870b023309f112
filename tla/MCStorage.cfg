SPECIFICATION Spec
CONSTANTS
  t1 = t1
  t2 = t2
  x1 = x1
  x2 = x2
  x3 = x3
  genesis = genesis
  Txn = {t1, t2}
  Persistent = 0
  MaxAttach = 3
  ReattachFaults = 1
  Stored = {x1, x2, x3}
  Missing = {genesis}
  Trunk <- MCTrunk
  Branch <- MCBranch
  Column <- MCColumn
  Fields <- MCFields
  Limit = 2
  PermanodeFaults = 1
INVARIANTS
  TypesOK
  RowsMatchTangle
  SearchIsRight
PROPERTIES
  RenewedWhenDue
CHECK_DEADLOCK FALSE
