SPECIFICATION Spec
CONSTANTS
  Slots = {0}
  SlotValues = {0}
  Callbacks <- LoopCallbacks
  Servos = {1}
  Commands <- TurretCommands
  RfPriority = 1
  WeaponDivider = 2
  MaxBehind = 0
INVARIANT NeverSameTime
CHECK_DEADLOCK FALSE
