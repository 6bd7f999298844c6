CONSTANTS
  Client <- Two
  Rank <- Order
  Table <- BothTables
  Key <- BothRows
  TableOf <- InTable
  Col <- OneCol
  Val <- Values
  None = None
  AutoCapture <- NoClients
  Explicit <- AllClients
  Faults <- Benign
  Wall <- Reading
  InitDb <- Empty
  InitTables <- BLacksZ
  InitVersion <- ANewest
  TopVersion = 1
  Statements <- InsertUpdateDelete
  FreshValues = TRUE
  MaxWrites = 2
  MaxRestarts = 1
  MaxLogical = 4
SPECIFICATION Spec
INVARIANTS
  TypeOK
  AppliedInFull
  NothingTwice
  StampsAboveSynced
  ClockCoversDb
PROPERTIES
  FilesImmutable
  RowHlcMonotone
CHECK_DEADLOCK FALSE
