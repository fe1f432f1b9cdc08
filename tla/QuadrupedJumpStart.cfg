SPECIFICATION Spec
CONSTANTS
  s1 = s1
  Servos = {s1}
  Strangers = {}
  Unzeroed = {}
  Outdated = {}
  Commands <- JumpCommands
PROPERTIES JumpStartsLowering
