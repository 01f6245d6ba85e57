---------------------------- MODULE MemoryCopy ----------------------------
(***************************************************************************)
(* The EIP-5656 MCOPY opcode of this repository: its dynamic gas function *)
(* gasMCopy (src/unnamed/part_003) and its execute function opMCopy       *)
(* (src/unnamed/part_004), run by the interpreter one after the other     *)
(* against the memory of one call frame.  enable5656 gives MCOPY no       *)
(* memorySize function, so the interpreter does not resize memory for it; *)
(* opMCopy resizes it itself.  A second memory opcode, MSTORE, stands for *)
(* the opcodes whose memory the interpreter sizes in whole words.         *)
(* memoryGasCost, Memory.Resize/Set and the interpreter loop are outside  *)
(* src/ and modelled from the spec and go-ethereum's contract for them.   *)
(*                                                                         *)
(* Widths: a stack word is a natural below 2^256, Uint64() keeps its low  *)
(* UintBits bits.  UintBits stands for 64, scaled down for TLC; the       *)
(* memory ceiling of memoryGasCost keeps its shape, 32 * (2^(w/2) - 1)    *)
(* (0x1FFFFFFFE0 for w = 64).                                             *)
(***************************************************************************)
EXTENDS Integers

CONSTANTS
  UintBits,      \* width of a Go uint64, scaled
  StartGas,      \* contract.Gas when the frame starts
  Lengths,       \* stack words MCOPY may find as its length operand
  Offsets,       \* stack words MCOPY may find as its two offset operands
  StoreOffsets,  \* offsets an MSTORE may write at
  MaxOps         \* opcodes per frame

U64        == 2^UintBits                       \* 2^64
MaxMemSize == 32 * (2^(UintBits \div 2) - 1)   \* 0x1FFFFFFFE0

ASSUME UintBits \in Nat /\ UintBits % 2 = 0 /\ MaxMemSize < U64
ASSUME StartGas \in Nat /\ MaxOps \in Nat

\* go-ethereum params: MemoryGas, QuadCoeffDiv; CopyGas is copyGasPerByte
MemoryGas    == 3
QuadCoeffDiv == 512
CopyGas      == 3

VARIABLES
  memLen,       \* len(mem.store)
  lastGasCost,  \* mem.lastGasCost
  gasLeft,      \* contract.Gas
  status,       \* "running", "failed" (the frame failed) or "panic"
  ops,          \* bound
  lastCopy      \* history: the operands and outcome of the last MCOPY

vars == <<memLen, lastGasCost, gasLeft, status, ops, lastCopy>>

NoCopy == [n |-> 0, len |-> 0, copied |-> 0, ok |-> FALSE]

Larger(a, b) == IF a > b THEN a ELSE b

\* Uint64() of a stack word: its low 64 bits
Uint64(x) == x % U64

ToWordSize(size) == (size + 31) \div 32

\* The cost of a memory of the given number of words.
MemCost(words) == words * MemoryGas + (words * words) \div QuadCoeffDiv

(***************************************************************************)
(* memoryGasCost(mem, newMemSize): the fee for growing memory to cover    *)
(* newMemSize bytes, as the difference, in uint64, between the cost of    *)
(* the new size in words and mem.lastGasCost, which it updates.           *)
(***************************************************************************)
MemoryGasCost(newSize) ==
  LET words == ToWordSize(newSize)
  IN  CASE newSize = 0 -> [err |-> FALSE, fee |-> 0, last |-> lastGasCost]
        [] newSize > MaxMemSize -> [err |-> TRUE, fee |-> 0, last |-> lastGasCost]
        [] words * 32 > memLen ->
             [err |-> FALSE, fee |-> (MemCost(words) - lastGasCost) % U64,
              last |-> MemCost(words)]
        [] OTHER -> [err |-> FALSE, fee |-> 0, last |-> lastGasCost]

Init ==
  /\ memLen = 0
  /\ lastGasCost = 0
  /\ gasLeft = StartGas
  /\ status = "running"
  /\ ops = 0
  /\ lastCopy = NoCopy

Running == status = "running" /\ ops < MaxOps

Fail(copy) ==
  /\ status' = "failed"
  /\ lastCopy' = copy
  /\ UNCHANGED <<memLen, lastGasCost, gasLeft, ops>>

\* Variant of GasMCopy that sizes memory for the Back(2) range only.
GasMCopyOneEnd(w0, w1, w2) ==
  LET length == Uint64(w0)
      dst    == Uint64(w2)
      mg     == MemoryGasCost(dst + length)
  IN  CASE dst + length >= U64 \/ Uint64(w1) + length >= U64 ->
             [err |-> TRUE, gas |-> 0, last |-> lastGasCost]
        [] mg.err -> [err |-> TRUE, gas |-> 0, last |-> lastGasCost]
        [] OTHER -> [err |-> FALSE, gas |-> mg.fee + CopyGas * length,
                     last |-> mg.last]

(***************************************************************************)
(* gasMCopy with the operands as it reads them: length Back(0), src       *)
(* Back(1), dst Back(2).  Memory must grow to max(dst+length,             *)
(* src+length), each sum overflow-checked, whatever the length; the copy  *)
(* costs CopyGas a byte; every product and sum is overflow-checked.       *)
(* last is mem.lastGasCost after the call.                                *)
(***************************************************************************)
GasMCopy(w0, w1, w2) ==
  LET length   == Uint64(w0)
      src      == Uint64(w1)
      dst      == Uint64(w2)
      endDst   == dst + length
      endSrc   == src + length
      mg       == MemoryGasCost(Larger(endDst, endSrc))
      copyCost == CopyGas * length
  IN  CASE endDst >= U64 \/ endSrc >= U64 ->
             [err |-> TRUE, gas |-> 0, last |-> lastGasCost]
        [] mg.err -> [err |-> TRUE, gas |-> 0, last |-> lastGasCost]
        [] copyCost >= U64 \/ mg.fee + copyCost >= U64 ->
             [err |-> TRUE, gas |-> 0, last |-> mg.last]
        [] OTHER -> [err |-> FALSE, gas |-> mg.fee + copyCost, last |-> mg.last]

\* Variant of MCopy charged without checking that the gas is there.
MCopyUnchecked(w0, w1, w2) ==
  LET g      == GasMCopy(w0, w1, w2)
      length == Uint64(w0)
  IN /\ Running /\ ~g.err
     /\ gasLeft' = gasLeft - g.gas
     /\ lastGasCost' = g.last
     /\ ops' = ops + 1
     /\ memLen' = IF length = 0 THEN memLen
                  ELSE Larger(memLen, Larger(Uint64(w1) + length, Uint64(w2) + length))
     /\ UNCHANGED status
     /\ lastCopy' = [n |-> ops + 1, len |-> w0, copied |-> length, ok |-> TRUE]

(***************************************************************************)
(* MCOPY with stack words w0 (top), w1, w2: the interpreter charges       *)
(* gasMCopy and fails the frame on its error or when the gas is not       *)
(* there; then opMCopy pops length, dst, src, returns at once for a zero  *)
(* length, checks both ends for overflow, resizes memory to the larger   *)
(* end (Memory.Resize, which does not round to words) and copies with     *)
(* Memory.Set, which panics if the destination is not inside memory.      *)
(***************************************************************************)
MCopy(w0, w1, w2) ==
  LET g        == GasMCopy(w0, w1, w2)
      length   == Uint64(w0)
      dst      == Uint64(w1)
      src      == Uint64(w2)
      overflow == src + length >= U64 \/ dst + length >= U64
      newLen   == Larger(memLen, Larger(src + length, dst + length))
      Record(ok, copied) ==
        [n |-> ops + 1, len |-> w0, copied |-> copied, ok |-> ok]
  IN /\ Running
     /\ \/ (g.err \/ g.gas > gasLeft) /\ Fail(Record(FALSE, 0))
        \/ /\ ~g.err /\ g.gas <= gasLeft
           /\ gasLeft' = gasLeft - g.gas
           /\ lastGasCost' = g.last
           /\ ops' = ops + 1
           /\ \/ /\ length = 0
                 /\ lastCopy' = Record(TRUE, 0)
                 /\ UNCHANGED <<memLen, status>>
              \/ /\ length # 0
                 /\ memLen' = IF overflow THEN memLen ELSE newLen
                 /\ status' = CASE overflow -> "failed"
                                 [] dst + length > newLen -> "panic"
                                 [] OTHER -> "running"
                 /\ lastCopy' = Record(~overflow, IF overflow THEN 0 ELSE length)

(***************************************************************************)
(* MSTORE at offset off: the interpreter sizes memory to off + 32 rounded *)
(* up to whole words (overflow-checked), charges GasFastestStep plus      *)
(* memoryGasCost of that size and resizes memory to it.                   *)
(***************************************************************************)
MStore(off) ==
  LET size == ToWordSize(off + 32) * 32
      mg   == MemoryGasCost(size)
      bad  == off + 32 >= U64 \/ mg.err \/ 3 + mg.fee > gasLeft
  IN /\ Running
     /\ \/ bad /\ Fail(lastCopy)
        \/ /\ ~bad
           /\ gasLeft' = gasLeft - 3 - mg.fee
           /\ lastGasCost' = mg.last
           /\ memLen' = Larger(memLen, size)
           /\ ops' = ops + 1
           /\ UNCHANGED <<status, lastCopy>>

Next ==
  \/ \E w0 \in Lengths, w1, w2 \in Offsets : MCopy(w0, w1, w2)
  \/ \E off \in StoreOffsets : MStore(off)

Spec == Init /\ [][Next]_vars

(***************************************************************************)
(* Properties                                                              *)
(***************************************************************************)
TypeOK ==
  /\ memLen \in Nat /\ lastGasCost \in Nat /\ gasLeft \in Nat
  /\ status \in {"running", "failed", "panic"}
  /\ ops \in 0..MaxOps
  /\ lastCopy \in [n : Nat, len : Nat, copied : Nat, ok : BOOLEAN]

\* Every byte of memory the frame holds was paid for: the charge recorded
\* in mem.lastGasCost, accumulated by MCOPY's and MSTORE's gas functions,
\* covers the cost of the memory that opMCopy's Resize and the
\* interpreter's resize actually made.
MemoryPaidFor == lastGasCost >= MemCost(ToWordSize(memLen))

\* Spec, Memory: memory grows only in whole 32-byte words (MSIZE).
MemoryWordAligned == memLen % 32 = 0

\* Spec, MCOPY: a zero-length copy, whatever its offsets, touches no memory
\* and never fails: it neither fails the frame nor changes memory or its
\* recorded charge.
ZeroLengthCopyIsNoOp ==
  [][lastCopy' # lastCopy /\ lastCopy'.len = 0 =>
       /\ status' = "running"
       /\ UNCHANGED <<memLen, lastGasCost>>]_vars

\* Spec, MCOPY: operands are never silently wrapped: a copy that succeeds
\* copies exactly the length operand found on the stack.
ExactLengthCopied == lastCopy.ok => lastCopy.copied = lastCopy.len
=============================================================================
