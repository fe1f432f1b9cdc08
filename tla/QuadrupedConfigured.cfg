SPECIFICATION Spec
CONSTANTS
  s1 = s1
  Servos = {s1}
  Strangers = {}
  Unzeroed = {s1}
  Outdated = {s1}
  Commands <- JumpCommands
INVARIANTS ConfiguredBeforeUse
