CONSTANTS
  Client <- Three
  Rank <- Order
  Table <- OneTable
  Key <- OneKey
  TableOf <- InTable
  Col <- OneCol
  Val <- Values
  None = None
  AutoCapture <- NoClients
  Explicit <- AllClients
  Faults <- NoFaults
  Wall <- Reading
  InitDb <- Empty
  InitTables <- AllTables
  InitVersion <- Version0
  TopVersion = 0
  Statements <- InsertUpdate
  FreshValues = TRUE
  MaxWrites = 2
  MaxRestarts = 0
  MaxLogical = 9
SPECIFICATION Spec
INVARIANTS
  Convergence
CHECK_DEADLOCK FALSE
