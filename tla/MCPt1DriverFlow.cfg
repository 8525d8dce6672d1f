CONSTANTS
  Apps = {"A", "B"}
  Channels = {"T0", "T1"}
  Satellite = {}
  Devices <- OneEach
  Free = "free"
  Dma = "dma"
  Parts = 2
  BufferSize = 2
  ReadSize = 1
  DmaSize = 2
  MaxPacket = 3
  MaxSessions = 1
  MayStop = TRUE
  MayAbandon = TRUE
  MayTuneFail = FALSE
  MayDmaFail = FALSE
SPECIFICATION FairSpec
INVARIANTS PacketsWhole NoGap
PROPERTY DmaGoesOn
