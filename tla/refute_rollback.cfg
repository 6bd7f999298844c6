CONSTANTS
  r1 = r1
  r2 = r2
  x1 = x1
  x2 = x2
  Local <- TwoRows
  Remote <- OneFile
  None = None
  Explicit = FALSE
  MaxCalls = 2
SPECIFICATION Spec
PROPERTIES
  RolledBackNotSynced
