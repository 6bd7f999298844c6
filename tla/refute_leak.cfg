CONSTANTS
  Client <- Three
  Rank <- Order
  Table <- OneTable
  Key <- OneKey
  TableOf <- InTable
  Col <- OneCol
  Val <- Values
  None = None
  AutoCapture <- OnlyA
  Explicit <- AllClients
  Faults <- Delays
  Wall <- Reading
  InitDb <- Empty
  InitTables <- AllTables
  InitVersion <- Version0
  TopVersion = 0
  Statements <- InsertUpdate
  FreshValues = TRUE
  MaxWrites = 1
  MaxRestarts = 0
  MaxLogical = 9
SPECIFICATION Spec
PROPERTIES
  MarksAreOwn
CHECK_DEADLOCK FALSE
