SPECIFICATION FairSpec
CONSTANTS
  a = a
  Clients = {a}
  None = None
  Streams = {"out"}
  Protocol = TRUE
  ReadyWait = TRUE
  ReadyMarker = FALSE
  HasWarmup = FALSE
  Restart = TRUE
  ReadyMarkerTimeout = FALSE
  WarmupMarker = FALSE
  WarmupWait = FALSE
  WarmupMarkerTimeout = FALSE
  ResponseTimeout = TRUE
  MaxStartupFailures = 2
  Signals = TRUE
  Prompting = TRUE
  MaxSpawns = 2
  MaxOutput = 1
  MaxSends = 1
  PipeSize = 1
PROPERTIES
  DrainingEnds
  SlotIsFreed
  InputIsForwarded
  ShutdownCompletes
