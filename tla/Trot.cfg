SPECIFICATION FairSpec
CONSTANTS
  MaxSwing = 6
  MinSwing = 5
  MaxTwoVleg = 3
  MaxFlight = 2
  MaxStance = 4
  MinInvalid = 1
  FullStance = 3
  InitialStance = 1
  StanceRestore = 1
  TopSpeed = 1
  Distances = {2, 8, 16}
  Commands <- WalkCommands
INVARIANTS StanceBounded AirborneBounded
PROPERTIES WalkCanEnd SwingNotRestarted
