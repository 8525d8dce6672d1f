CONSTANTS
  Size = 2
  DeviceSize = 2
  Endless = FALSE
  MaxBlocks = 5
  Epoch = 1
  MaxStart = 2
  MaxClock = 4
  Rectimes = {1}
  UseB25 = FALSE
  UseSplitter = FALSE
  UseUdp = FALSE
  Channels = {"BS1", "BS3", "27"}
  Satellite = {"BS1", "BS3"}
  FirstChannel = "BS1"
  Messages <- ExtendMessages
  MaxMessages = 1
  PromptWake = TRUE
  MaySignal = FALSE
  MayGiveUp = FALSE
  MayWriteFail = FALSE
  MayTuneFail = FALSE
  MayRunOutOfMemory = FALSE
  MayDecodeFail = FALSE
SPECIFICATION Spec
INVARIANTS NoHole CompleteOnTimeUp NotEarly
PROPERTY UsesQueue
