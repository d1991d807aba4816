SPECIFICATION Spec
CONSTANTS
  NCartridges = 2
  Registered = {2}
  KnownCaps <- MCKnownCaps
  ManifestCaps <- MCManifestCaps
  SignedDistance <- Distances
  ChannelSize = 1
  EngineRids = {r1}
  PeerRids = {p1}
  Stamped = TRUE
  Loops = TRUE
  MaxReply = 1
  MaxBeats = 0
  MaxFails = 1
  MaxDeaths = 1
INVARIANTS
  BodyReachesItsHandler
  BrokenBodyIsAnswered
  AnswerReachesItsRequester
CHECK_DEADLOCK FALSE
