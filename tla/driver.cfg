CONSTANTS
  p = p
  q = q
  v = v
  list = list
  Result <- TwoResults
  Value <- OneValue
  List = list
  None = None
  Surplus = Surplus
  Table = {}
  MaxRows = 2
  MaxNotes = 0
SYMMETRY Symmetry
SPECIFICATION Spec
INVARIANTS
  TypeOK
  ReadsEveryRow
  NothingHeldBack
