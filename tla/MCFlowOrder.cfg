SPECIFICATION Spec
CONSTANTS
  Flows = {f1}
  MaxBufferPerFlow = 2
  MaxFrames = 6
  MaxLate = 2
  MaxDup = 2
INVARIANTS TypeOK InOrderDelivery NoSilentLoss
CHECK_DEADLOCK FALSE
