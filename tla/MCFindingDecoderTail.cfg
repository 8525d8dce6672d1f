CONSTANTS
  Size = 2
  DeviceSize = 2
  Endless = FALSE
  MaxBlocks = 4
  Epoch = 1
  MaxStart = 2
  MaxClock = 3
  Rectimes = {1}
  UseB25 = TRUE
  UseSplitter = FALSE
  UseUdp = FALSE
  Channels = {"BS1", "BS3", "27"}
  Satellite = {"BS1", "BS3"}
  FirstChannel = "BS1"
  Messages <- NoMessages
  MaxMessages = 0
  PromptWake = TRUE
  MaySignal = FALSE
  MayGiveUp = FALSE
  MayWriteFail = FALSE
  MayTuneFail = FALSE
  MayRunOutOfMemory = FALSE
  MayDecodeFail = FALSE
SPECIFICATION Spec
INVARIANT CompleteOnTimeUp
