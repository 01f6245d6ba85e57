CONSTANTS
  UintBits = 12
  StartGas = 2000
  Lengths <- MCLengths
  Offsets <- MCOffsets
  StoreOffsets <- MCStoreOffsets
  MaxOps = 3
  MaxInitCodeSize = 1536
  CreateGas = 32
  Words <- MCWords

SPECIFICATION InitcodeSpec

\* A frame stops after MaxOps opcodes.
CHECK_DEADLOCK FALSE

INVARIANT MemoryPaidFor
