SPECIFICATION FairSpec
CONSTANTS
  Slots = {0, 1}
  SlotValues = {0, 1}
  Callbacks <- LoopCallbacks
INVARIANTS NeverSameTime ImuSampleNew TxNotLost RxNotLost
PROPERTIES PowerOffHonoured LoopImplemented
CHECK_DEADLOCK FALSE
