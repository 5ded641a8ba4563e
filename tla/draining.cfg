SPECIFICATION Spec
CONSTANTS
  a = a
  b = b
  Clients = {a, b}
  None = None
  Streams = {"out"}
  Protocol = TRUE
  ReadyWait = FALSE
  ReadyMarker = FALSE
  HasWarmup = FALSE
  Restart = FALSE
  ReadyMarkerTimeout = FALSE
  WarmupMarker = FALSE
  WarmupWait = FALSE
  WarmupMarkerTimeout = FALSE
  ResponseTimeout = TRUE
  MaxStartupFailures = 2
  Signals = FALSE
  Prompting = TRUE
  MaxSpawns = 2
  MaxOutput = 2
  MaxSends = 1
  PipeSize = 1
SYMMETRY Interchangeable
INVARIANTS
  DrainingHasNoClient
