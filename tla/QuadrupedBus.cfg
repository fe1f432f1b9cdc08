SPECIFICATION FairSpec
CONSTANTS
  s1 = s1
  s2 = s2
  x = x
  Servos = {s1, s2}
  Strangers = {x}
  Unzeroed = {s1}
  Outdated = {s2}
  Commands <- BusCommands
INVARIANTS NoMotionWithFaultedServo
PROPERTIES LoopImplemented  StandUpEnds
