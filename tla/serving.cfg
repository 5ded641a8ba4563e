SPECIFICATION Spec
CONSTANTS
  a = a
  b = b
  Clients = {a, b}
  None = None
  Streams = {"out"}
  Protocol = TRUE
  ReadyWait = FALSE
  ReadyMarker = TRUE
  HasWarmup = TRUE
  Restart = FALSE
  ReadyMarkerTimeout = FALSE
  WarmupMarker = TRUE
  WarmupWait = FALSE
  WarmupMarkerTimeout = FALSE
  ResponseTimeout = TRUE
  MaxStartupFailures = 2
  Signals = FALSE
  Prompting = TRUE
  MaxSpawns = 2
  MaxOutput = 3
  MaxSends = 1
  PipeSize = 1
SYMMETRY Interchangeable
INVARIANTS
  TypeOK
  SlotHasThread
  BusyHasThread
  ServingHasThread
  DrainingUnlessDropped
  IsolationInTurn
  QuietStartInTurn
