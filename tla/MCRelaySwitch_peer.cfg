SPECIFICATION Spec
CONSTANTS
  NMasters = 2
  Offers <- MCOffers
  InitialOffer <- MCInitialOffer
  DefaultLimit = 9
  SignedDistance <- Distances
  EngineRids = {r1}
  PeerRids = {p1}
  MaxNotify = 0
  MaxBody = 0
  MaxReply = 2
INVARIANTS
  PeerAnswersStayInternal
CHECK_DEADLOCK FALSE
