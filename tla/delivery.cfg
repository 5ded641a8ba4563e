SPECIFICATION Spec
CONSTANTS
  a = a
  b = b
  Clients = {a, b}
  None = None
  Streams <- MCStreams
  Symbols <- MCSymbols
  EndMarkers <- MCEnd
  ReadyMarkers <- MCReady
  WarmupMarkers <- MCWarmup
  Strip <- MCStrip
  Scenarios <- MCScenarios
  Protocol = TRUE
  ReadyWait = FALSE
  ReadyMarker = TRUE
  HasWarmup = TRUE
SYMMETRY Interchangeable
INVARIANTS
  TypeOK
  EachSymbolOnce
  AnswersAreForwarded
  LateMarkersAreSecond
  SplitsDoNotMatter
  PhasesFollowMarkers
