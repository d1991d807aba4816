SPECIFICATION FairSpec
CONSTANTS
  Flows = {f1, f2}
  MaxBufferPerFlow = 1
  MaxFrames = 4
  MaxLate = 0
  MaxDup = 0
PROPERTIES HealthyFlowsComplete Ordered
CHECK_DEADLOCK FALSE
