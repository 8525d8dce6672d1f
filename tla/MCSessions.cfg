CONSTANTS
  Programs = {"recpt1", "http", "checksignal"}
  NamesOf <- MCNamesOf
  bsdev <- TwoDevices
  isdb_t_dev <- OneDevice
  Texts <- MCTexts
  INT_MAX = 65535
  MAX_RETRY = 2
  MaxFds = 2
  MaxChanges = 1
SPECIFICATION FairSpec
INVARIANTS ChannelTuned TriesAll StartsAfresh TimeRight
PROPERTY StopsOnSignal
CHECK_DEADLOCK FALSE
