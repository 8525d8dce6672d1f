CONSTANTS
  Size = 2
  DeviceSize = 2
  Endless = FALSE
  MaxBlocks = 2
  Epoch = 1
  MaxStart = 1
  MaxClock = 6
  Rectimes = {5}
  UseB25 = TRUE
  UseSplitter = TRUE
  UseUdp = TRUE
  Channels = {"BS1", "BS3", "27"}
  Satellite = {"BS1", "BS3"}
  FirstChannel = "BS1"
  Messages <- ChannelMessages
  MaxMessages = 1
  PromptWake = FALSE
  MaySignal = TRUE
  MayGiveUp = FALSE
  MayWriteFail = TRUE
  MayTuneFail = TRUE
  MayRunOutOfMemory = FALSE
  MayDecodeFail = TRUE
SPECIFICATION Spec
INVARIANTS NothingTwice StreamOn
