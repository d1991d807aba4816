SPECIFICATION FairSpec
CONSTANTS
  NCartridges = 2
  Registered = {2}
  KnownCaps <- MCKnownCaps
  ManifestCaps <- MCManifestCaps
  SignedDistance <- Distances
  ChannelSize = 1
  EngineRids = {r1}
  PeerRids = {}
  Stamped = TRUE
  Loops = TRUE
  MaxReply = 2
  MaxBeats = 1
  MaxFails = 1
  MaxDeaths = 2
PROPERTIES
  RequestIsAnswered
CHECK_DEADLOCK FALSE
