CONSTANTS
  Client <- Two
  Rank <- Order
  Table <- OneTable
  Key <- OneKey
  TableOf <- InTable
  Col <- OneCol
  Val <- Values
  None = None
  AutoCapture <- NoClients
  Explicit <- AllClients
  Faults <- DelaysAndRestarts
  Wall <- Reading
  InitDb <- Empty
  InitTables <- AllTables
  InitVersion <- ANewest
  TopVersion = 1
  Statements <- InsertUpdate
  FreshValues = TRUE
  MaxWrites = 2
  MaxRestarts = 1
  MaxLogical = 9
SPECIFICATION FairSpec
PROPERTIES
  CatchesUp
  OwnReplayHarmless
  UnmarkedIsKept
  RecordsUnderClock
