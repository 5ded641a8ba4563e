SPECIFICATION Spec
CONSTANTS
  a = a
  Clients = {a}
  None = None
  Streams = {"out"}
  Protocol = TRUE
  ReadyWait = FALSE
  ReadyMarker = TRUE
  HasWarmup = TRUE
  Restart = TRUE
  ReadyMarkerTimeout = TRUE
  WarmupMarker = TRUE
  WarmupWait = TRUE
  WarmupMarkerTimeout = TRUE
  ResponseTimeout = FALSE
  MaxStartupFailures = 2
  Signals = FALSE
  Prompting = TRUE
  MaxSpawns = 4
  MaxOutput = 3
  MaxSends = 1
  PipeSize = 1
INVARIANTS
  IInv
  WarmupBeforeInput
  KillReasonsAreFresh
  RestartsAreBounded
PROPERTIES
  ImplementsLifecycle
