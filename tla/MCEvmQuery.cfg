CONSTANTS
  BadMsgs <- MCBadMsgs
  TxEntries <- MCTxEntries
  BlockTxs <- MCBlockTxs
  TraceConfigs <- MCTraceConfigs
  MaxTxs = 2
  VmErrors <- MCVmErrors
SPECIFICATION Spec
CHECK_DEADLOCK FALSE
INVARIANTS
  TypeOK
  UnpackMatchesReference
