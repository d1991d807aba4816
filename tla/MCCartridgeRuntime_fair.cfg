SPECIFICATION FairSpec
CONSTANTS
  r1 = r1
  r2 = r2
  Requests = {r1, r2}
  Scenarios <- PeerScenarios
  PeerBodies <- MCPeerBodies
  InputSize = 1
  PeerSize = 1
  MaxChunks = 1
  MaxBeats = 1
  CanClose = TRUE
PROPERTIES
  StartedIsAnswered
CHECK_DEADLOCK FALSE
