CONSTANTS
  Confs = {c1, c2, c3}
  MAX_PCI_DEVICE = 2
  MAX_TUNER = 1
  DMA_RING_SIZE = 2
  DMA_RING_MAX = 1
  StopPolls = 2
  StopTime = 1
  MayHang = TRUE
  MaxOpen = 1
SPECIFICATION FairSpec
CHECK_DEADLOCK FALSE
INVARIANT NothingLeft
INVARIANT OpenSafe
INVARIANT Reachable
INVARIANT DmaSafe
INVARIANT AsleepUnlessOpen
