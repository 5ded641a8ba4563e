SPECIFICATION Spec
CONSTANTS
  a = a
  b = b
  Clients = {a, b}
  Streams = {"out"}
  Main = Main
  None = None
  Protocol = TRUE
  ReadyWait = FALSE
  ReadyMarker = TRUE
  HasWarmup = TRUE
  Restart = FALSE
  ResponseTimeout = TRUE
  Orphans = TRUE
SYMMETRY Interchangeable
INVARIANTS
  TypeOK
  LockOrder
  NoCircularWait
  
