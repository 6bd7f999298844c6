CONSTANTS
  Client <- Two
  Rank <- Order
  Table <- OneTable
  Key <- OneKey
  TableOf <- InTable
  Col <- TwoCols
  Val <- Values
  None = None
  AutoCapture <- AllClients
  Explicit <- AllClients
  Faults <- StopsAndNesting
  Wall <- Reading
  InitDb <- Empty
  InitTables <- AllTables
  InitVersion <- Version0
  TopVersion = 0
  Statements <- InsertUpdateDelete
  FreshValues = TRUE
  MaxWrites = 2
  MaxRestarts = 1
  MaxLogical = 4
SPECIFICATION Spec
INVARIANTS
  CapturedIsQueued
  StampsAboveSynced
  ClockCoversDb
PROPERTIES
  RowHlcMonotone
CHECK_DEADLOCK FALSE
