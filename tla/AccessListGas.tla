--------------------------- MODULE AccessListGas ---------------------------
(***************************************************************************)
(* The EIP-2929 access-list gas functions of core/vm/operations_acl.go     *)
(* (src/unnamed/part_003) as the interpreter calls them, opcode by opcode, *)
(* inside a transaction of one contract Self:                              *)
(*   SLOAD, SSTORE (makeGasSStoreFunc), BALANCE/EXTCODESIZE/EXTCODEHASH    *)
(*   (gasEip2929AccountCheck), EXTCODECOPY, the CALL family               *)
(*   (makeCallVariantGasCallEIP2929) and SELFDESTRUCT                      *)
(*   (makeSelfdestructGasFn).                                              *)
(* The access list, the refund counter and the storage are the StateDB's; *)
(* charging constant then dynamic gas and running the opcode is the        *)
(* interpreter's.  Both are outside src/ and modelled from the spec.       *)
(* A failing opcode fails the top-level frame: the whole transaction is    *)
(* reverted, so Fail only ends the transaction.                            *)
(***************************************************************************)
EXTENDS Integers, FiniteSets, SStoreGas

CONSTANTS
  Self,            \* contract.Address() of the executing contract
  Others,          \* other addresses an operand may name
  Slots,           \* storage keys of Self
  Values,          \* storage words; 0 is the empty word
  EmptyInit,       \* the addresses for which StateDB.Empty holds at genesis
  StartGas,        \* contract.Gas values a transaction may start with
  Requests,        \* gas operands of a CALL that fit in 64 bits
  AllGas,          \* a gas operand of a CALL that does not fit in 64 bits
  ExtCopyCosts,    \* results of the pre-2929 gasExtCodeCopy
  ExtCopyOverflow, \* gasExtCodeCopy failing with ErrGasUintOverflow
  MaxOps,          \* opcodes per transaction
  MaxTxs           \* transactions per behaviour

ASSUME 0 \in Values /\ Values \subseteq Nat
ASSUME EmptyInit \subseteq Others /\ Self \notin Others
ASSUME MaxOps \in Nat /\ MaxTxs \in Nat \ {0}

Addrs == Others \cup {Self}

\* go-ethereum params/protocol_params.go
SelfdestructRefund == 24000  \* SelfdestructRefundGas
CreateBySelfdestruct == 25000 \* CreateBySelfdestructGas
SelfdestructEIP150 == 5000   \* SelfdestructGasEIP150
CallValueTransfer == 9000    \* CallValueTransferGas
CallNewAccount    == 25000   \* CallNewAccountGas

\* The two refund schedules the activators install: gasSStoreEIP2929 with
\* gasSelfdestructEIP2929 (enable2929), gasSStoreEIP3529 with
\* gasSelfdestructEIP3529 (enable3529).
Schedules ==
  {[clearing |-> 15000, refunds |-> TRUE],   \* SstoreClearsScheduleRefundEIP2200
   [clearing |-> 4800,  refunds |-> FALSE]}  \* SstoreClearsScheduleRefundEIP3529

VARIABLES
  schedule,     \* the jump table's SSTORE and SELFDESTRUCT gas functions
  warmAddrs,    \* addresses in the access list
  warmSlots,    \* (Self, slot) pairs in the access list
  refund,       \* StateDB refund counter
  original,     \* committed storage: GetCommittedState
  current,      \* storage as written in this transaction: GetState
  suicided,     \* HasSuicided(Self)
  selfBalance,  \* GetBalance(Self)
  empty,        \* addresses for which Empty holds
  gasLeft,      \* contract.Gas
  status,       \* "running", "failed" (the frame failed) or "panic"
  ops, txs,     \* bounds
  \* history, read only by the properties
  preAddrs, preSlots, \* the access list the transaction started with
  coldAddrPaid, coldSlotPaid, \* cold surcharges charged, per item
  writes,       \* SSTOREs per slot in this transaction
  sstoreNet,    \* SSTORE gas charged minus refund granted, per slot
  lastCall,     \* the gas figures of the last successful CALL-family charge
  snapshot      \* balance and emptiness at the start of the transaction

ledger  == <<warmAddrs, warmSlots, refund>>
world   == <<original, current, suicided, selfBalance, empty>>
history == <<preAddrs, preSlots, coldAddrPaid, coldSlotPaid, writes,
             sstoreNet, lastCall, snapshot>>
vars    == <<schedule, ledger, world, gasLeft, status, ops, txs, history>>

NoCall == [gas |-> 0, cold |-> FALSE, base |-> 0, forwarded |-> 0, left |-> 0]

(***************************************************************************)
(* A transaction's first state: StateDB.Prepare puts Self and an EIP-2930 *)
(* access list into the ledger and the refund counter starts at zero.     *)
(***************************************************************************)
TxStart(orig, bal, emp) ==
  /\ original = orig
  /\ current = orig
  /\ \E pa \in SUBSET Others, ps \in SUBSET Slots :
       /\ warmAddrs = pa \cup {Self} /\ preAddrs = pa \cup {Self}
       /\ warmSlots = ps /\ preSlots = ps
  /\ refund = 0
  /\ suicided = FALSE
  /\ selfBalance = bal
  /\ empty = emp
  /\ gasLeft \in StartGas
  /\ status = "running"
  /\ ops = 0
  /\ coldAddrPaid = [a \in Addrs |-> 0]
  /\ coldSlotPaid = [s \in Slots |-> 0]
  /\ writes = [s \in Slots |-> 0]
  /\ sstoreNet = [s \in Slots |-> 0]
  /\ lastCall = NoCall
  /\ snapshot = [bal |-> bal, empty |-> emp]

Init ==
  /\ schedule \in Schedules
  /\ txs = 1
  /\ \E orig \in [Slots -> Values], bal \in {0, 1} : TxStart(orig, bal, EmptyInit)

Running == status = "running" /\ ops < MaxOps

\* The opcode fails the frame (ErrOutOfGas, ErrGasUintOverflow, the sentry
\* error): the top-level frame is reverted and the transaction ends.
Fail ==
  /\ status' = "failed"
  /\ UNCHANGED <<schedule, ledger, world, gasLeft, ops, txs, history>>

\* The interpreter has charged gas for the opcode and runs it.
Charge(gas) ==
  /\ gasLeft' = gasLeft - gas
  /\ ops' = ops + 1

Bump(f, x, cond) == [f EXCEPT ![x] = @ + (IF cond THEN 1 ELSE 0)]

\* Variant of SLoad that does not add the slot to the access list.
SLoadNoWarm(s) ==
  /\ Running
  /\ LET gas == IF s \notin warmSlots THEN ColdSload ELSE WarmStorageRead
     IN  /\ gas <= gasLeft
         /\ coldSlotPaid' = Bump(coldSlotPaid, s, s \notin warmSlots)
         /\ Charge(gas)
         /\ UNCHANGED <<schedule, warmSlots, warmAddrs, refund, world, status, txs,
                        preAddrs, preSlots, coldAddrPaid, writes, sstoreNet,
                        lastCall, snapshot>>

\* Variant of SLoad that charges without checking the gas is there.
SLoadUnchecked(s) ==
  /\ Running
  /\ LET cold == s \notin warmSlots
     IN  /\ warmSlots' = warmSlots \cup {s}
         /\ coldSlotPaid' = Bump(coldSlotPaid, s, cold)
         /\ Charge(IF cold THEN ColdSload ELSE WarmStorageRead)
         /\ UNCHANGED <<schedule, warmAddrs, refund, world, status, txs, preAddrs,
                        preSlots, coldAddrPaid, writes, sstoreNet, lastCall, snapshot>>

(***************************************************************************)
(* SLOAD: constant gas 0 (enable2929), dynamic gas gasSLoadEIP2929.       *)
(***************************************************************************)
SLoad(s) ==
  LET cold == s \notin warmSlots
      gas  == IF cold THEN ColdSload ELSE WarmStorageRead
  IN /\ Running
     /\ \/ gas > gasLeft /\ Fail
        \/ /\ gas <= gasLeft
           /\ warmSlots' = warmSlots \cup {s}
           /\ coldSlotPaid' = Bump(coldSlotPaid, s, cold)
           /\ Charge(gas)
           /\ UNCHANGED <<schedule, warmAddrs, refund, world, status, txs, preAddrs,
                          preSlots, coldAddrPaid, writes, sstoreNet, lastCall, snapshot>>


(***************************************************************************)
(* SSTORE: the sentry is checked before anything is read; a cold slot is  *)
(* charged ColdSload and warmed; SubRefund below zero panics the StateDB; *)
(* opSstore then writes the value.                                        *)
(***************************************************************************)
SStore(s, v) ==
  LET cold == s \notin warmSlots
      r    == GasSStore(schedule.clearing, original[s], current[s], v)
      gas  == (IF cold THEN ColdSload ELSE 0) + r.gas
  IN /\ Running
     /\ \/ gasLeft <= SstoreSentry /\ Fail
        \* SubRefund panics inside the gas function, before the charge
        \/ /\ gasLeft > SstoreSentry /\ refund < r.sub
           /\ status' = "panic"
           /\ UNCHANGED <<schedule, ledger, world, gasLeft, ops, txs, history>>
        \/ gasLeft > SstoreSentry /\ refund >= r.sub /\ gas > gasLeft /\ Fail
        \/ /\ gasLeft > SstoreSentry /\ refund >= r.sub /\ gas <= gasLeft
           /\ warmSlots' = warmSlots \cup {s}
           /\ refund' = refund - r.sub + r.add
           /\ UNCHANGED status
           /\ current' = [current EXCEPT ![s] = v]
           /\ Charge(gas)
           /\ coldSlotPaid' = Bump(coldSlotPaid, s, cold)
           /\ writes' = [writes EXCEPT ![s] = @ + 1]
           /\ sstoreNet' = [sstoreNet EXCEPT ![s] = @ + r.gas - r.add + r.sub]
           /\ UNCHANGED <<schedule, warmAddrs, original, suicided, selfBalance, empty,
                          txs, preAddrs, preSlots, coldAddrPaid, lastCall, snapshot>>

(***************************************************************************)
(* BALANCE, EXTCODESIZE, EXTCODEHASH: constant WarmStorageRead, dynamic   *)
(* gasEip2929AccountCheck.                                                 *)
(***************************************************************************)
AccountCheck(a) ==
  LET cold == a \notin warmAddrs
      gas  == WarmStorageRead
              + (IF cold THEN ColdAccountAccess - WarmStorageRead ELSE 0)
  IN /\ Running
     /\ \/ gas > gasLeft /\ Fail
        \/ /\ gas <= gasLeft
           /\ warmAddrs' = warmAddrs \cup {a}
           /\ coldAddrPaid' = Bump(coldAddrPaid, a, cold)
           /\ Charge(gas)
           /\ UNCHANGED <<schedule, warmSlots, refund, world, status, txs, preAddrs,
                          preSlots, coldSlotPaid, writes, sstoreNet, lastCall, snapshot>>

(***************************************************************************)
(* EXTCODECOPY: gasExtCodeCopyEIP2929 runs the memory and copy cost c of  *)
(* gasExtCodeCopy first and returns its error before looking at the       *)
(* access list.                                                            *)
(***************************************************************************)
ExtCodeCopy(a, c) ==
  LET cold == a \notin warmAddrs
      gas  == WarmStorageRead + c
              + (IF cold THEN ColdAccountAccess - WarmStorageRead ELSE 0)
  IN /\ Running
     /\ \/ c = ExtCopyOverflow /\ Fail
        \/ c # ExtCopyOverflow /\ gas > gasLeft /\ Fail
        \/ /\ c # ExtCopyOverflow /\ gas <= gasLeft
           /\ warmAddrs' = warmAddrs \cup {a}
           /\ coldAddrPaid' = Bump(coldAddrPaid, a, cold)
           /\ Charge(gas)
           /\ UNCHANGED <<schedule, warmSlots, refund, world, status, txs, preAddrs,
                          preSlots, coldSlotPaid, writes, sstoreNet, lastCall, snapshot>>

(***************************************************************************)
(* The pre-2929 call gas calculators (gasCall, gasCallCode,               *)
(* gasDelegateCall, gasStaticCall), memory expansion left out: base is    *)
(* the new-account and value-transfer charge, CallGas the EIP-150 callGas *)
(* that caps the forwarded gas at all but one 64th of what is available.  *)
(***************************************************************************)
CallKinds == {"CALL", "CALLCODE", "DELEGATECALL", "STATICCALL"}

OldCallBase(kind, a, value) ==
  (IF kind = "CALL" /\ value # 0 /\ a \in empty THEN CallNewAccount ELSE 0)
  + (IF kind \in {"CALL", "CALLCODE"} /\ value # 0 THEN CallValueTransfer ELSE 0)

CallGas(available, base, req) ==
  LET cap == (available - base) - (available - base) \div 64
  IN  IF req = AllGas THEN cap ELSE IF cap < req THEN cap ELSE req

\* Variant of Call that computes the forwarded gas before taking the cold
\* surcharge, and charges the surcharge only with the returned gas.
CallLateSurcharge(kind, a, value, req) ==
  LET cold     == a \notin warmAddrs
      coldCost == ColdAccountAccess - WarmStorageRead
      g1       == gasLeft - WarmStorageRead
      base     == OldCallBase(kind, a, value)
      fwd      == CallGas(g1, base, req)
      gas      == base + fwd + (IF cold THEN coldCost ELSE 0)
  IN /\ Running
     /\ gasLeft >= WarmStorageRead /\ g1 >= base /\ gas <= g1
     /\ warmAddrs' = warmAddrs \cup {a}
     /\ coldAddrPaid' = Bump(coldAddrPaid, a, cold)
     /\ Charge(WarmStorageRead + gas)
     /\ lastCall' = [gas |-> g1, cold |-> cold, base |-> base,
                     forwarded |-> fwd, left |-> g1 - gas]
     /\ selfBalance' = selfBalance - value
     /\ empty' = IF value # 0 THEN empty \ {a} ELSE empty
     /\ UNCHANGED <<schedule, warmSlots, refund, original, current, suicided, status,
                    txs, preAddrs, preSlots, coldSlotPaid, writes, sstoreNet,
                    snapshot>>

(***************************************************************************)
(* CALL, CALLCODE, DELEGATECALL, STATICCALL: constant WarmStorageRead,    *)
(* dynamic makeCallVariantGasCallEIP2929(old).  A cold callee is warmed   *)
(* and its surcharge taken with contract.UseGas before old runs, so that  *)
(* callGas sees the reduced balance; then the surcharge is given back to  *)
(* contract.Gas and added to the returned charge, which the interpreter   *)
(* takes.  The callee is taken to use all the gas forwarded to it.        *)
(***************************************************************************)
Call(kind, a, value, req) ==
  LET cold     == a \notin warmAddrs
      coldCost == ColdAccountAccess - WarmStorageRead
      g1       == gasLeft - WarmStorageRead      \* after the constant charge
      g2       == IF cold THEN g1 - coldCost ELSE g1   \* after UseGas(coldCost)
      base     == OldCallBase(kind, a, value)
      fwd      == CallGas(g2, base, req)          \* evm.callGasTemp
      gas      == base + fwd + (IF cold THEN coldCost ELSE 0)
  IN /\ Running
     /\ \/ /\ \/ gasLeft < WarmStorageRead
              \/ cold /\ g1 < coldCost        \* UseGas fails: ErrOutOfGas
              \/ g2 < base                     \* the charge cannot be met
           /\ Fail
        \/ /\ gasLeft >= WarmStorageRead
           /\ ~cold \/ g1 >= coldCost
           /\ g2 >= base
           /\ warmAddrs' = warmAddrs \cup {a}
           /\ coldAddrPaid' = Bump(coldAddrPaid, a, cold)
           /\ Charge(WarmStorageRead + gas)
           /\ lastCall' = [gas |-> g1, cold |-> cold, base |-> base,
                           forwarded |-> fwd, left |-> g1 - gas]
           \* opCall moves the value to the callee
           /\ selfBalance' = selfBalance - value
           /\ empty' = IF value # 0 THEN empty \ {a} ELSE empty
           /\ UNCHANGED <<schedule, warmSlots, refund, original, current, suicided,
                          status, txs, preAddrs, preSlots, coldSlotPaid,
                          writes, sstoreNet, snapshot>>

(***************************************************************************)
(* SELFDESTRUCT: constant SelfdestructGasEIP150, dynamic                   *)
(* makeSelfdestructGasFn(schedule.refunds); opSelfdestruct then moves the   *)
(* balance to the beneficiary and marks Self as suicided.  Self can be    *)
(* entered again later in the transaction, so later opcodes are of later  *)
(* frames of Self.                                                         *)
(***************************************************************************)
SelfDestruct(a) ==
  LET cold    == a \notin warmAddrs
      create  == a \in empty /\ selfBalance # 0
      gas     == SelfdestructEIP150
                 + (IF cold THEN ColdAccountAccess ELSE 0)
                 + (IF create THEN CreateBySelfdestruct ELSE 0)
      granted == IF schedule.refunds /\ ~suicided THEN SelfdestructRefund ELSE 0
  IN /\ Running
     /\ \/ gas > gasLeft /\ Fail
        \/ /\ gas <= gasLeft
           /\ warmAddrs' = warmAddrs \cup {a}
           /\ coldAddrPaid' = Bump(coldAddrPaid, a, cold)
           /\ refund' = refund + granted
           /\ Charge(gas)
           /\ suicided' = TRUE
           /\ selfBalance' = 0
           /\ empty' = IF selfBalance # 0 THEN empty \ {a} ELSE empty
           /\ UNCHANGED <<schedule, warmSlots, original, current, status, txs, preAddrs,
                          preSlots, coldSlotPaid, writes, sstoreNet, lastCall,
                          snapshot>>

(***************************************************************************)
(* The transaction ends (STOP, or the frame failed) and the next one      *)
(* starts with a fresh ledger.  A successful transaction commits its      *)
(* writes; a failed one is reverted.  A Self that destroyed itself has no *)
(* code left to run.                                                       *)
(***************************************************************************)
NextTx ==
  /\ status \in {"running", "failed"}
  /\ ~(status = "running" /\ suicided)
  /\ txs < MaxTxs
  /\ txs' = txs + 1
  /\ LET failed == status = "failed"
         orig   == IF failed THEN original ELSE current
     IN /\ original' = orig
        /\ current' = orig
        /\ selfBalance' = IF failed THEN snapshot.bal ELSE selfBalance
        /\ empty' = IF failed THEN snapshot.empty ELSE empty
  /\ \E pa \in SUBSET Others, ps \in SUBSET Slots :
       /\ warmAddrs' = pa \cup {Self} /\ preAddrs' = pa \cup {Self}
       /\ warmSlots' = ps /\ preSlots' = ps
  /\ refund' = 0
  /\ suicided' = FALSE
  /\ gasLeft' \in StartGas
  /\ status' = "running"
  /\ ops' = 0
  /\ coldAddrPaid' = [a \in Addrs |-> 0]
  /\ coldSlotPaid' = [s \in Slots |-> 0]
  /\ writes' = [s \in Slots |-> 0]
  /\ sstoreNet' = [s \in Slots |-> 0]
  /\ lastCall' = NoCall
  /\ snapshot' = [bal |-> selfBalance', empty |-> empty']
  /\ UNCHANGED schedule

\* Values a CALL or CALLCODE can move: Self has to hold them.
CallValues(kind) ==
  IF kind \in {"CALL", "CALLCODE"} /\ selfBalance > 0 THEN {0, 1} ELSE {0}

Next ==
  \/ \E s \in Slots : SLoad(s)
  \/ \E s \in Slots, v \in Values : SStore(s, v)
  \/ \E a \in Addrs : AccountCheck(a)
  \/ \E a \in Addrs, c \in ExtCopyCosts \cup {ExtCopyOverflow} : ExtCodeCopy(a, c)
  \/ \E k \in CallKinds, a \in Addrs, r \in Requests \cup {AllGas} :
       \E v \in CallValues(k) : Call(k, a, v, r)
  \/ \E a \in Addrs : SelfDestruct(a)
  \/ NextTx

Spec == Init /\ [][Next]_vars

(***************************************************************************)
(* Properties                                                              *)
(***************************************************************************)
TypeOK ==
  /\ schedule \in Schedules
  /\ warmAddrs \subseteq Addrs /\ warmSlots \subseteq Slots
  /\ refund \in Int
  /\ original \in [Slots -> Values] /\ current \in [Slots -> Values]
  /\ suicided \in BOOLEAN /\ selfBalance \in {0, 1} /\ empty \subseteq Others
  /\ gasLeft \in Nat
  /\ status \in {"running", "failed", "panic"}
  /\ ops \in 0..MaxOps /\ txs \in 1..MaxTxs
  /\ writes \in [Slots -> Nat] /\ sstoreNet \in [Slots -> Int]

\* SSTORE takes back a clearing refund (SubRefund, branch 2.2.1.1) only
\* after an earlier write of the transaction granted it, so the StateDB's
\* refund counter never goes below zero, which would panic the node.
NoRefundUnderflow == status # "panic"

\* Reference for EIP-2200 net metering: the gas, less refund, of writing v
\* straight over the committed value o in one SSTORE of a warm slot.
DirectWrite(clearing, o, v) ==
  IF o = v THEN WarmStorageRead
  ELSE IF o = 0 THEN SstoreSet
  ELSE (SstoreReset - ColdSload) - (IF v = 0 THEN clearing ELSE 0)

\* Net metering (makeGasSStoreFunc's nine branches together): whatever
\* sequence of SSTOREs a transaction makes to a slot, the gas charged for
\* them less the refund they leave equals one direct write from the
\* committed value to the final one plus a warm read for every other write.
NetGasMetering ==
  \A s \in Slots :
    writes[s] > 0 =>
      sstoreNet[s] = DirectWrite(schedule.clearing, original[s], current[s])
                     + WarmStorageRead * (writes[s] - 1)

\* The cold surcharge of a slot or an address is charged once in a
\* transaction, by whichever of SLOAD, SSTORE, BALANCE, EXTCODE*, the CALL
\* family or SELFDESTRUCT touches it first, and never for an item of the
\* transaction's own access list.
ColdSurchargeOnce ==
  /\ \A s \in Slots :
       coldSlotPaid[s] = IF s \in warmSlots \ preSlots THEN 1 ELSE 0
  /\ \A a \in Addrs :
       coldAddrPaid[a] = IF a \in warmAddrs \ preAddrs THEN 1 ELSE 0

\* A CALL-family opcode charges a cold callee's surcharge exactly once and
\* computes the forwarded gas from the balance left after it: the caller
\* keeps what it had after the constant charge, less the surcharge, the
\* base charge and the forwarded gas, and that is at least a 64th of what
\* it had before forwarding (EIP-150).
CallGasAccounted ==
  LET avail == lastCall.gas - lastCall.base
               - (IF lastCall.cold THEN ColdAccountAccess - WarmStorageRead ELSE 0)
  IN  lastCall # NoCall =>
        /\ lastCall.left = avail - lastCall.forwarded
        /\ lastCall.left >= avail \div 64

=============================================================================
