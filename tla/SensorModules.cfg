CONSTANTS
  m1 = m1
  m2 = m2
  m3 = m3
  Paths <- MCPaths
  Sensors <- MCSensors
  Version <- MCVersion
  MayFail = {m1, m2, m3}
  MaxOpens = 3
  NULL = NULL
SPECIFICATION Spec
INVARIANT RoutedToOwner
PROPERTY ReopenSafe
CHECK_DEADLOCK FALSE
