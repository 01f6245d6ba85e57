CONSTANTS
  Self = Self
  a1 = a1
  a2 = a2
  s1 = s1
  s2 = s2
  Others <- MCOthers
  EmptyInit <- MCEmptyInit
  Slots <- MCSlots
  Values = {0, 1, 2}
  StartGas = {4000, 200000}
  Requests = {1000}
  AllGas = AllGas
  ExtCopyCosts = {0}
  ExtCopyOverflow = ExtCopyOverflow
  MaxOps = 4
  MaxTxs = 2
SPECIFICATION Spec
CHECK_DEADLOCK FALSE
INVARIANTS TypeOK NoRefundUnderflow NetGasMetering ColdSurchargeOnce CallGasAccounted
