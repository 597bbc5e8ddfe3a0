SPECIFICATION ConnectSpec
CONSTANTS
  Ids = {"gateway", "dst"}
  RxBuf = 1
  TxBuf = 1
  AppQueue = 1
  DataIn = 1
  None = None
  Requests <- MCSniffed
INVARIANT NothingDiscarded
CHECK_DEADLOCK FALSE
