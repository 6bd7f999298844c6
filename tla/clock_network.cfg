CONSTANTS
  c1 = c1
  c2 = c2
  c3 = c3
  Client <- ThreeClients
  Wall <- TwoReadings
  StartLogical <- NearLimit
  MaxStamps = 3
  MaxRepeats = 1
SYMMETRY Symmetry
SPECIFICATION Spec
INVARIANTS
  TypeOK
  ClockCoversKnown
  CausalOrder
  NotAheadOfTop
PROPERTIES
  ClockForward
CHECK_DEADLOCK FALSE
