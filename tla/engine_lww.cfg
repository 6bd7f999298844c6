CONSTANTS
  Client <- Two
  Rank <- Order
  Table <- OneTable
  Key <- OneKey
  TableOf <- InTable
  Col <- OneCol
  Val <- Values
  None = None
  AutoCapture <- NoClients
  Explicit <- AllClients
  Faults <- NoFaults
  Wall <- Readings
  InitDb <- RowsAtA
  InitTables <- AllTables
  InitVersion <- Version0
  TopVersion = 0
  Statements <- InsertUpdate
  FreshValues = TRUE
  MaxWrites = 3
  MaxRestarts = 0
  MaxLogical = 9
SPECIFICATION Spec
INVARIANTS
  HigherHlcWins
  Convergence
PROPERTIES
  ImplementsLastWriterWins
