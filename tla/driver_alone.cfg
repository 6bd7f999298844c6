CONSTANTS
  p = p
  q = q
  v = v
  list = list
  Result <- OneResult
  Value <- TwoValues
  List = list
  None = None
  Surplus = Surplus
  Table <- TwoTables
  MaxRows = 2
  MaxNotes = 2
SPECIFICATION Spec
INVARIANTS
  ExecOnce
PROPERTIES
  NotifiesSubscribers
