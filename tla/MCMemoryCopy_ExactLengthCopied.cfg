CONSTANTS
  UintBits = 12
  StartGas = 2000
  Lengths <- MCLengths
  Offsets <- MCOffsets
  StoreOffsets <- MCStoreOffsets
  MaxOps = 4
SPECIFICATION Spec
CHECK_DEADLOCK FALSE
INVARIANT ExactLengthCopied
