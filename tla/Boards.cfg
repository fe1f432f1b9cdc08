SPECIFICATION Spec
CONSTANTS
  Boards = {"foot", "i2c", "odroid", "panel"}
  NumStreams = 2
  NumArgs = 2
  RunsWrap = 2
  Codes = {"I2C", "TMQ"}
  Outcome <- MCOutcome
  Ids = {1, 2, 3}
  Rates = {0, 2}
  FootTexts <- MCFootTexts
  RbufSize = 2
  LineSize = 3
  I2cOps <- MCI2cOps
  RespSize = 10
  RxSize = 12
  FfWrap = 4
  Bytes = {9, 14, 15, 254, 255}
  Writes <- MCWrites
  ReadCounts = {1, 9, 200}
  LedTicks = 2
  MaxFire = 2
  PanelEntries = 1
  PanelArgs = 0
  PanelWrap = 2
  PanelIds = {1}
  PanelRates = {1}
  PanelTexts <- MCPanelTexts
  PanelLine = 3
  RxFifo = 1
  BankSize = 2
  LineUnits = 3
  FlushTime = 1
INVARIANTS  InPhase ArgsOwned I2cBytesInTransaction MotorsExpire PortIsFresh
PROPERTIES   OutputReleased
