CONSTANTS
  o = o
  a1 = a1
  s1 = s1
  Origin <- o
  Addrs <- MCAddrs
  Slots <- MCSlots
  Values = {0, 1}
  ClearingRefund = 15000
  RefundsEnabled = TRUE
  StartGas = {3000, 20000}
  Requests = {2500, 10000}
  MaxDepth = 3
  MaxOps = 5
SPECIFICATION Spec
\* A transaction ends: returned, reverted, or at its opcode bound.
CHECK_DEADLOCK FALSE
PROPERTY
  AccessListMonotonic
