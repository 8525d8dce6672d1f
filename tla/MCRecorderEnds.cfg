CONSTANTS
  Size = 2
  DeviceSize = 1
  Endless = TRUE
  MaxBlocks = 1
  Epoch = 1
  MaxStart = 1
  MaxClock = 3
  Rectimes <- ShortOrEndless
  UseB25 = FALSE
  UseSplitter = FALSE
  UseUdp = FALSE
  Channels = {"BS1", "BS3", "27"}
  Satellite = {"BS1", "BS3"}
  FirstChannel = "BS1"
  Messages <- TimeMessages
  MaxMessages = 1
  PromptWake = FALSE
  MaySignal = TRUE
  MayGiveUp = TRUE
  MayWriteFail = TRUE
  MayTuneFail = FALSE
  MayRunOutOfMemory = TRUE
  MayDecodeFail = FALSE
SPECIFICATION FairSpec
PROPERTIES EndsOnTime EndsOnSignal
