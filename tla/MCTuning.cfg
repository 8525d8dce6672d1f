CONSTANTS
  Callers = {"s", "t"}
  Cards = {"card0"}
  CardOf <- MCCardOf
  KindOf <- MCKindOf
  AddrOf <- MCAddrOf
  Requests <- MCRequests
  Blocks <- Transfers
  TsOnAir <- MCTsOnAir
  MAX_BS_TS_ID = 2
  MaxTries = 2
  MaxPolls = 2
  HwTime = 1
  MayHang = TRUE
SPECIFICATION Spec
INVARIANTS ChipsSee
PROPERTIES OwnAnswer TunedRight SetFreqReturns
CHECK_DEADLOCK FALSE
