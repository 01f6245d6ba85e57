---------------------------- MODULE InitcodeGas ----------------------------
(***************************************************************************)
(* The dormant EIP-3860 gas functions gasCreateEIP3860 and                *)
(* gasCreate2EIP3860 (src/unnamed/part_003) as the interpreter would run  *)
(* them if enable3860 (commented out in part_004) installed them as the   *)
(* dynamicGas of CREATE and CREATE2, next to MCOPY and MSTORE on the same *)
(* frame memory (MemoryCopy).  enable3860 replaces only dynamicGas: the   *)
(* operations keep memoryCreate / memoryCreate2 as their memorySize, so   *)
(* the interpreter still sizes and resizes memory from the offset and     *)
(* size operands of the EVM stack layout (value on top, then offset, then *)
(* size).  The child frame opCreate starts is not modelled.               *)
(***************************************************************************)
EXTENDS MemoryCopy

CONSTANTS
  MaxInitCodeSize,  \* maxInitCodeSize (49152), scaled with UintBits
  CreateGas,        \* constant gas of CREATE and CREATE2, scaled
  Words             \* stack words a CREATE operand may be

InitCodeWordGas == 2

(***************************************************************************)
(* gasCreateEIP3860 (and gasCreate2EIP3860, the same code): size is read  *)
(* from Back(0) and offset from Back(1); the size limit, the memory        *)
(* expansion of [offset, offset+size) and 2 gas per 32-byte chunk, each   *)
(* step overflow-checked.  last is mem.lastGasCost after the call.         *)
(***************************************************************************)
GasCreateEIP3860(back0, back1) ==
  LET size     == Uint64(back0)
      offset   == Uint64(back1)
      mg       == MemoryGasCost(offset + size)
      overhead == ToWordSize(size) * InitCodeWordGas
      Err(last) == [err |-> TRUE, gas |-> 0, last |-> last]
  IN  CASE size > MaxInitCodeSize      -> Err(lastGasCost)
        [] offset + size >= U64        -> Err(lastGasCost)
        [] mg.err                      -> Err(lastGasCost)
        [] overhead >= U64 \/ mg.fee + overhead >= U64 -> Err(mg.last)
        [] OTHER -> [err |-> FALSE, gas |-> mg.fee + overhead, last |-> mg.last]

(***************************************************************************)
(* memoryCreate (go-ethereum): the memory CREATE needs, from offset       *)
(* Back(1) and size Back(2), 0 for a zero size; the interpreter rounds it *)
(* up to whole words and fails on overflow.                               *)
(***************************************************************************)
MemoryCreate(offset, size) ==
  LET end == Uint64(offset) + Uint64(size)
  IN  CASE Uint64(size) = 0 -> [err |-> FALSE, size |-> 0]
        [] end >= U64 \/ ToWordSize(end) * 32 >= U64 -> [err |-> TRUE, size |-> 0]
        [] OTHER -> [err |-> FALSE, size |-> ToWordSize(end) * 32]

(***************************************************************************)
(* CREATE or CREATE2 with stack value, offset, size (top first): the      *)
(* interpreter computes memorySize, charges CreateGas, then the dynamic   *)
(* gas, and resizes memory to memorySize before opCreate runs.            *)
(***************************************************************************)
Create(value, offset, size) ==
  LET ms == MemoryCreate(offset, size)
      g  == GasCreateEIP3860(value, offset)
  IN  /\ Running
      /\ \/ (ms.err \/ CreateGas > gasLeft \/ g.err
               \/ CreateGas + g.gas > gasLeft) /\ Fail(lastCopy)
         \/ /\ ~ms.err /\ ~g.err /\ CreateGas + g.gas <= gasLeft
            /\ gasLeft' = gasLeft - CreateGas - g.gas
            /\ lastGasCost' = g.last
            /\ memLen' = Larger(memLen, ms.size)
            /\ ops' = ops + 1
            /\ UNCHANGED <<status, lastCopy>>

InitcodeNext ==
  \/ Next
  \/ \E v, o, s \in Words : Create(v, o, s)

InitcodeSpec == Init /\ [][InitcodeNext]_vars
====
