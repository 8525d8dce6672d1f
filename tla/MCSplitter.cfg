CONSTANTS
  Pat <- MCPat
  Pmt <- MCPmt
  Probes = {"v2"}
  SidTexts <- MCSidTexts
  PatCounts = {1}
  Room = 5
  Cc = 2
  BlockLen = 2
  MaxLost = 1
SPECIFICATION Spec
INVARIANT NoneMissing
INVARIANT NothingForeign
PROPERTY PatContinuous
CHECK_DEADLOCK FALSE
PROPERTY Settles
