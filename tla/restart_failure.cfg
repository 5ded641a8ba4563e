SPECIFICATION Spec
CONSTANTS
  a = a
  Clients = {a}
  None = None
  Streams = {"out"}
  Protocol = TRUE
  ReadyWait = FALSE
  ReadyMarker = FALSE
  HasWarmup = FALSE
  Restart = TRUE
  ReadyMarkerTimeout = FALSE
  WarmupMarker = FALSE
  WarmupWait = FALSE
  WarmupMarkerTimeout = FALSE
  ResponseTimeout = FALSE
  MaxStartupFailures = 2
  Signals = FALSE
  Prompting = TRUE
  MaxSpawns = 2
  MaxOutput = 2
  MaxSends = 1
  PipeSize = 1
INVARIANTS
  RestartFailureReported
