CONSTANTS
  Apps = {"A", "B", "C"}
  Channels = {"S0", "S1", "T0"}
  Satellite = {"S0", "S1"}
  Devices <- Rivals
  Free = "free"
  Dma = "dma"
  Parts = 1
  BufferSize = 1
  ReadSize = 1
  DmaSize = 1
  MaxPacket = 1
  MaxSessions = 1
  MayStop = TRUE
  MayAbandon = TRUE
  MayTuneFail = TRUE
  MayDmaFail = TRUE
SPECIFICATION Spec
INVARIANTS BusExclusive OneUser NoEmbrace
