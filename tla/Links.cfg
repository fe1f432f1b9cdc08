SPECIFICATION Spec
CONSTANTS
  Links = {"rf", "web", "udp", "tele", "tunnel", "scoring"}
  RfLines <- MCLines
  MaxLines = 2
  MaxWrites = 2
  Gamepads <- MCPads
  FirstShot = 2
  LastShot = 3
  Sessions = {1, 2}
  RobotModes = {"stopped", "stand_up", "rest", "walk", "jump", "zero_velocity", "fault"}
  UserModes = {"off", "stop", "idle", "walk"}
  Peers = {p1, p2}
  PeerTimeout = 10
  MaxTxPending = 1
  MaxPeerIds = 2
  Priorities = {0, 1}
  CommandTimeout = 1
  TunnelFrames <- MCFrames
  BufferSize = 2
  MaxBus = 2
  Idents = {1, 2}
  MaxMechs = 2
  MaxHp = 1
  Sounds = {"boom"}
INVARIANTS RemoteMatchesSlots WebExclusive PeersRecent TunnelBufferHeld
PROPERTIES OneShotPerPull StopReachesDongle PageGetsIn TelePowerOff RemovedAsConfirmed
