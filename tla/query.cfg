CONSTANTS
  p = p
  q = q
  v = v
  w = w
  Query <- TwoQueries
  Value <- TwoValues
  Null = Null
  None = None
  MaxStatements = 2
  MaxRows = 3
SYMMETRY Symmetry
SPECIFICATION Spec
INVARIANTS
  TypeOK
  OwnedOnce
  ReadsFromFirst
  FirstInsertAsAsked
