SPECIFICATION Spec
CONSTANTS
  r1 = r1
  r2 = r2
  Requests = {r1, r2}
  Scenarios <- MCScenarios
  PeerBodies <- MCPeerBodies
  InputSize = 2
  PeerSize = 2
  MaxChunks = 2
  MaxBeats = 0
  CanClose = FALSE
INVARIANTS
  AnsweredOnce
  ResponseIsWhole
  InputIsComplete
  PanicHasACause
CHECK_DEADLOCK FALSE
