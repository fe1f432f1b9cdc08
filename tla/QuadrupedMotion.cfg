SPECIFICATION Spec
CONSTANTS
  s1 = s1
  Servos = {s1}
  Strangers = {}
  Unzeroed = {}
  Outdated = {}
  Commands <- MotionCommands
INVARIANTS TypeOK StandUpStartsFresh OutputMatchesMode WalkWindsDown
PROPERTIES LegModesAfterStandUp
