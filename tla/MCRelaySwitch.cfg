SPECIFICATION FairSpec
CONSTANTS
  NMasters = 2
  Offers <- MCOffers
  InitialOffer <- MCInitialOffer
  DefaultLimit = 9
  SignedDistance <- Distances
  EngineRids = {r1}
  PeerRids = {}
  MaxNotify = 1
  MaxBody = 1
  MaxReply = 2
INVARIANTS
  TypeOK
  RoutesToHealthy
  SnapshotLagsOneDeath
  RequestKeepsItsMaster
  EngineGetsItsAnswer
  AnsweredRequestsAreForgotten
  NothingAfterCancel
PROPERTIES
  EngineIsAnswered
CHECK_DEADLOCK FALSE
