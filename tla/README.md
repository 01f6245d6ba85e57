# TLA+ models of the CosmEvm EVM gas core

This directory holds TLC-checkable TLA+ models of the EVM gas core that
CosmEvm carries in its go-ethereum fork. That code is
`src/unnamed/part_003` (`core/vm/operations_acl.go` plus the MCOPY and
EIP-3860 gas functions) and `src/unnamed/part_004` (`core/vm/eips.go`, the
activators and `opMCopy`). The models also cover the x/evm v9 store
migration that switches MCOPY on (`src/unnamed/part_000`,
`src/x/evm/types/query.go`) and the query types' `UnpackInterfaces` hooks
(`query.go`).

## The system and how its parts interact

* **Dispatch table and feature activators** (`part_004`).
  * `activators` maps a name `ethereum_<n>` to a function that rewrites
    entries of a `JumpTable`.
  * `EnableEIP` looks a name up and applies its function.
  * `ValidateEIPName` checks the name's shape.
  * The x/evm module applies `EnableEIP` to every name of the
    `ExtraEIPs` parameter, in list order, on top of the fork's base table.
* **Access-list gas functions** (`part_003`, installed by `enable2929` and
  `enable3529`).
  * The interpreter charges an opcode's constant gas, then its dynamic gas
    function, then runs the opcode.
  * The dynamic functions read and extend the transaction's access list
    (warm addresses and slots) and change the StateDB refund counter.
  * SSTORE metering compares the committed, current and new values of a
    slot.
* **MCOPY** (`gasMCopy` in `part_003`, `opMCopy` and `enable5656` in
  `part_004`).
  * `gasMCopy` charges memory expansion plus 3 gas a byte.
  * `opMCopy` resizes memory itself and copies.
* **v9 migration** (`MigrateStore` in `part_000` and in `query.go`). It
  appends `ethereum_5656` to `ExtraEIPs` when it is absent, so the table
  builder enables MCOPY after the upgrade.
* **EIP-3860 gas functions** (`part_003`). No activator installs them.
  They are modelled as they would run if `enable3860` were active.
* **Query types** (`query.go` 10-47). The codec calls
  `UnpackInterfaces` on a `QueryTraceTxRequest` or
  `QueryTraceBlockRequest` as it decodes it. The hook unpacks the `Any` of
  every transaction the request holds and returns the first error.
  `EstimateGasResponse.Failed` tells a failed estimate.
* **Nested call frames.** The access-list gas functions run in every frame
  of a transaction. `evm.Call` (go-ethereum, outside `src/`) snapshots
  the StateDB after the CALL gas function, and reverts a failing child to
  that snapshot. The revert also removes the warm marks made since.
* **Not modelled:** test suites, scripts and documentation.

  See "What is not modelled".

## Modules

### AccessListGas: the access-list gas functions

The state is one transaction of the contract `Self`:

| Variable | Code |
|---|---|
| `schedule` | the jump table's refund schedule (`part_003` 232-252), one of `Schedules`: Berlin (`gasSStoreEIP2929`, clearing refund 15000; `gasSelfdestructEIP2929`, refunds on) or London (`gasSStoreEIP3529`, 4800; `gasSelfdestructEIP3529`, refunds off). `Init` chooses it, so every behaviour runs under one of the two. |
| `warmAddrs`, `warmSlots` | the StateDB access list |
| `refund` | the StateDB refund counter, a signed integer so that an underflow is visible |
| `original` | `GetCommittedState` |
| `current` | `GetState` |
| `suicided` | `HasSuicided(Self)` |
| `selfBalance` | Self's balance |
| `empty` | the accounts for which `Empty` holds |
| `gasLeft` | `contract.Gas` |
| `status` | whether the frame runs, failed, or the StateDB panicked |

The history variables (`coldSlotPaid`, `coldAddrPaid`, `writes`,
`sstoreNet`, `lastCall`, `preAddrs`, `preSlots`, `snapshot`)
are read only by the properties.

There is one action per opcode family. Each action is the whole
interpreter step: constant gas, the dynamic gas function with its side
effects, the out-of-gas check, and the opcode's own state change.

| Action | Source (lines) | Dynamic gas function |
|---|---|---|
| `SLoad` | `part_003` 136-147 | `gasSLoadEIP2929` |
| `SStore` | `part_003` 60-129 | `makeGasSStoreFunc` (sentry, cold slot, panic canary) |
| `AccountCheck` | `part_003` 181-191 | `gasEip2929AccountCheck` |
| `ExtCodeCopy` | `part_003` 154-172 | `gasExtCodeCopyEIP2929` |
| `Call` | `part_003` 193-225 | `makeCallVariantGasCallEIP2929` |
| `SelfDestruct` | `part_003` 256-277 | `makeSelfdestructGasFn` |

* **`SStore`** uses `GasSStore`, which is the classification, and
  `ResetToOriginal`.
* **`ExtCodeCopy`:** the pre-2929 cost is an input, and may be an overflow
  error.
* **`Call`:** the pre-2929 calculator is `OldCallBase` + `CallGas`, the
  EIP-150 63/64 cap.
* **`NextTx`** ends the transaction. It commits the writes, or reverts them
  on failure, and prepares a fresh access list that holds Self and an
  arbitrary EIP-2930 list. A failing opcode fails the top-level frame, and
  that reverts the whole transaction.

### MemoryCopy: MCOPY against one frame's memory

| Variable | Code |
|---|---|
| `memLen` | `len(mem.store)` |
| `lastGasCost` | `mem.lastGasCost` |
| `gasLeft` | `contract.Gas` |
| `status` | whether the frame runs, failed, or `Memory.Set` panicked |

* **`MCopy(w0, w1, w2)`** takes the three stack words (top first). It is
  `gasMCopy` (`part_003` 279-332) and `opMCopy` (`part_004` 235-287) as the
  interpreter runs them:
  * `enable5656` gives MCOPY no `memorySize` function, so the interpreter
    does not resize memory for it.
  * `Uint64()` keeps the low `UintBits` bits of a stack word.
  * `memoryGasCost` returns the uint64 difference between the new cost and
    `mem.lastGasCost`, which it updates.
* **`MStore`** is the representative of the opcodes whose memory the
  interpreter sizes in whole words.

The 64-bit width is scaled to `UintBits` = 12 bits. The memory limit keeps
its shape: 32·(2^(w/2)−1), which is 0x1FFFFFFFE0 for w = 64 and 2016 for
w = 12.

### JumpTable and EipActivators: the activators and the builder

`JumpTable` holds the table, the activators and `EnableEIP`.
`EipActivators` extends it with the in-place builder.

A jump-table entry is a record with four fields:

* `def`: whether the opcode is defined;
* `const`: its constant gas;
* `dyn`: the name of its dynamic gas function;
* `exec`: the name of its execute function.

Only the 16 opcodes that some activator writes are kept. An EIP name is
the tuple that `strings.Split(name, "_")` returns, so `ValidateEIPName`
(`part_004` 56-65) is "two parts, the second in `Numerals`".

| Definition | Source (`part_004` lines) |
|---|---|
| `Enable1884` | 93-106 |
| `Enable1344` | 116-124 |
| `Enable2200` | 134-137 |
| `Enable2929` | 141-175 |
| `Enable3529` | 181-184 |
| `Enable3198` | 188-196 |
| `Enable3855` | 206-214 |
| `Enable5656` | 222-231 |
| `activators` (the registry) | 31-40 |
| `EnableEIP` | 45-52 |
| `ExistsEipActivator` | 70-73 |

* **Base tables** are modelled from go-ethereum's `jump_table.go`:
  * `Petersburg` is written out.
  * `Istanbul`, `Berlin` and `London` are that table put through the same
    activators, in the order go-ethereum's constructors apply them.
* **The builder** is modelled from spec 4.1. It starts from the base
  table (`StartBuild`) and applies `EnableEIP` to each `ExtraEIPs` name in
  list order, in place (`BuildStep`). It stops with `"error"` at the first
  unknown name, or with `"built"` (`BuildDone`).
### EvmUpgrade: the v9 upgrade composed with the builder

`EvmUpgrade` extends `EipActivators`. Its state is `stored`, the
`ExtraEIPs` parameter in the store, `others`, the other seven `Params`
fields the v9 migration copies, and `phase`. `before` is a history variable.

* **`MigrateStore`** is the upgrade handler's migration (`part_000` 29-95).
  It appends `ethereum_5656` when absent, validates, and stores.
* **`MigrateStoreV9`** is the x/evm v8→v9 migration that `RunMigrations`
  then runs (`query.go` 60-104). It does the same with its own loop, and
  copies the seven other fields into a fresh `Params` (`CopyV7Params`,
  lines 76-83). The encoding is taken to carry these fields between the
  two `Params` types unchanged, so the copy is the identity and no
  property is stated about it.
* **`NodeStart`** has the upgraded node build its table from the stored
  list.
* **The error return of `Validate`** is not reachable through
  `ExtraEIPs`: every stored list passed `Validate` when it was set, and
  appending a well-formed name keeps it valid. So `Migrate` is guarded by
  `Validate`.

### InitcodeGas: the dormant EIP-3860 gas functions

`InitcodeGas` extends `MemoryCopy` with `Create`: CREATE/CREATE2 as the
interpreter would run them if `enable3860` (commented out at `part_004`
289-295) were active.

* `enable3860` replaces only `dynamicGas`, so the interpreter still sizes
  and resizes memory with go-ethereum's `memoryCreate` (`MemoryCreate`).
  That uses offset `Back(1)` and size `Back(2)`.
* `GasCreateEIP3860` (`part_003` 342-445) reads size from `Back(0)` and
  offset from `Back(1)`.
* `MaxInitCodeSize` (49152) and `CreateGas` (32000) are scaled with
  `UintBits`.

### EvmQuery: the query types' unpack hooks

The state is the `request` being decoded and the `result` of its hook. A
`*MsgEthereumTx` is `"nil"`, `"ok"`, or one of `BadMsgs` (its `Any` does
not unpack, and the error is its own).

| Definition | Source (`query.go` lines) |
|---|---|
| `UnpackMsg` | 13-15, the call of `MsgEthereumTx.UnpackInterfaces` |
| `UnpackEach` | the loops of 11-17 and 35-42 |
| `UnpackTraceTx` | 10-33: predecessors (nil skipped), then `Msg`, then `TraceConfig` |
| `UnpackTraceBlock` | 35-42: every tx, with no nil check |
| `Failed` | 45-47: `len(VmError) > 0` |

`MsgEthereumTx.UnpackInterfaces` has a value receiver, so a call through
a nil pointer panics. The TraceTx hook checks for nil, and the TraceBlock
hook does not. Protobuf decoding never puts nil into a repeated message
field, so the TraceBlock run does not draw nil entries.

### CallFrames: the access-list gas functions across nested frames

| Variable | Code |
|---|---|
| `warm` | the StateDB access list |
| `frames` | the call stack; each frame has its address, its gas, the snapshot `evm.Call` took, and the items it warmed |
| `status` | `"running"`, `"done"`, `"reverted"` (the transaction), `"panic"` (the SSTORE canary) or `"underflow"` (`SubRefund` below zero) |
| `original`, `current` | `GetCommittedState` and `GetState` of every contract's slots |
| `refund` | the StateDB refund counter |
| `suicided` | the accounts for which `HasSuicided` holds |
| `resets` | history: per slot, the writes that put the committed value back |
| `prepared` | history: the list `StateDB.Prepare` made |

A frame's snapshot (`Snapshot`) holds the access list, the storage, the
refund counter, the suicided marks and `resets`: everything the journal
restores. The run uses the Berlin schedule (`ClearingRefund` = 15000,
`RefundsEnabled`), the one under which SELFDESTRUCT refunds.

* `SLoad`, `SStore` and `AccountCheck` run the gas functions of
  `part_003` in the top frame.
* A gas function warms an item before the charge is known to be
  affordable. When the charge fails, the frame fails (`FailFrame`), and
  its revert removes the warm marks along with everything else since the
  snapshot.
* `Call` runs `makeCallVariantGasCallEIP2929` (`part_003` 193-225). It
  warms the callee and takes the surcharge, then `callGas` forwards all
  but a 64th. `evm.Call` then snapshots and pushes the child.
* `SelfDestruct` runs `makeSelfdestructGasFn` (`part_003` 256-277) after
  the constant `SelfdestructGasEIP150`: it warms the beneficiary, calls
  `AddRefund` unless the executing contract has already self-destructed,
  and only then is charged. Every address in the model holds code, so
  `Empty` is false and `CreateBySelfdestructGas` never applies.
  `opSelfdestruct` marks the contract suicided and stops the frame
  (`Halt`), like a return.
* `Return` hands the child's gas and marks to its caller. `Revert` fails
  the frame and refunds what is left.

* `SStore` runs the whole of `makeGasSStoreFunc` in the top frame:
  * the sentry;
  * the cold mark and the canary;
  * the refund changes of `GasSStore`, where `SubRefund` below zero
    panics;
  * the interpreter's charge, which fails the frame when the gas is not
    there;
  * `opSstore`'s write.

  The refund changes come before the charge, so only the revert takes
  them back.

### SStoreGas: the shared constants and the SSTORE classification

`SStoreGas` holds the go-ethereum gas constants and `GasSStore` /
`ResetToOriginal` (`part_003` 85-128). `AccessListGas` and `CallFrames`
both extend it, so the two models charge SSTORE with one definition.

## Runs

| Run | cfg | Expect | What it shows |
|---|---|---|---|
| access_list | `MCAccessListGas.cfg` | pass | Under the Berlin and the London refund schedules, all five access-list properties hold over two transactions. |
| mcopy_memory | `MCMemoryCopy.cfg` | pass | MCOPY interleaved with MSTORE. |
| upgrade_enables_mcopy | `MCEvmUpgrade.cfg` | pass | London base, every valid `ExtraEIPs` list of up to two names drawn from the EIPs newer than London and an unregistered one: the two migrations append `ethereum_5656` once, and the table built afterwards has MCOPY. |
| query_unpack | `MCEvmQuery.cfg` | pass | Every TraceTx and TraceBlock request of up to two transactions, and every EstimateGas response. |
| call_frames | `MCCallFrames.cfg` | pass | Up to three nested frames of five opcodes, SELFDESTRUCT among them: the access list tracks the live frames, and the refund counter tracks the surviving storage writes and self-destructs. |
| activator_order | `MCEipActivators_WarmColdPaired.cfg` | violation | `[ethereum_2200]` on London: SLOAD is charged 800 constant plus the warm/cold gas. |
| activator_reapply | `MCEipActivators_ReactivationIdempotent.cfg` | violation | `[ethereum_2929]` on London reinstalls the EIP-2929 refund functions and undoes EIP-3529. |
| initcode_memory_unpaid | `MCInitcodeGas_MemoryPaidFor.cfg` | violation | With EIP-3860 installed, CREATE grows memory for its size operand but is charged for the value operand. |
| mcopy_word_aligned | `MCMemoryCopy_MemoryWordAligned.cfg` | violation | `opMCopy` makes memory a non-multiple of 32 bytes. |
| mcopy_zero_length | `MCMemoryCopy_ZeroLengthCopyIsNoOp.cfg` | violation | A zero-length MCOPY is charged expansion and raises `lastGasCost`. |
| mcopy_truncated_length | `MCMemoryCopy_ExactLengthCopied.cfg` | violation | A length of 2^64+1 copies 1 byte. |
| call_frames_monotonic | `MCCallFrames_AccessListMonotonic.cfg` | violation | A child frame warms a slot, fails its SSTORE for lack of gas, and its revert takes the slot out of the access list while the caller runs on. Spec 3 and 4.3 say a warm mark is never rolled back; the `part_003` comment at line 140 says it is. |

### Properties

* **`NoRefundUnderflow`:** the clearing refund that SSTORE's recreate
  branch takes back was always granted before in the transaction, so
  `SubRefund` never panics.
* **`NetGasMetering`:** any sequence of SSTOREs to a slot costs, net of
  refunds, one direct write from the committed value to the final one, plus
  a warm read per extra write. It is checked against the reference
  `DirectWrite`.
* **`ColdSurchargeOnce`:** each slot and address pays the cold surcharge
  exactly once per transaction, whichever opcode family touches it first.
  Items of the transaction's own access list never pay it.
* **`CallGasAccounted`:** the CALL family forwards gas computed on the
  balance after the cold surcharge, and the caller keeps at least a 64th.
* **`MemoryPaidFor`:** `mem.lastGasCost` always covers the cost of the
  memory actually held.

* **`WarmColdPaired`** (checked only where it fails, `activator_order`):
  a built table uses the access-list gas functions for all eleven
  state-access opcodes or for none. Each function runs behind exactly the
  constant gas it assumes, and SSTORE and SELFDESTRUCT share a refund
  schedule. An `ExtraEIPs` list naming 1344, 1884, 2200 or 2929 on a
  London base breaks it, and `ValidateEIPName` accepts such a list.
* **`UnpackMatchesReference`:** decoding a trace request never panics. It
  succeeds exactly when every transaction it carries unpacks, and
  otherwise returns the error of the first one in request order.
* **`WarmMatchesLivePath`:** the access list is exactly the prepared list
  plus what the frames on the stack warmed, and what their returned
  children warmed. A failed child's marks are gone, and a caller's marks
  are never lost to a child's revert.
* **`NoSstoreCanaryPanic`:** `makeGasSStoreFunc`'s canary never fires. A
  frame stores to a cold slot only at an address already in the access
  list, because the CALL that entered it warmed that address first.
* **`RefundMatchesStorage`:** across nested frames, `SubRefund` never goes
  below zero. While the transaction runs, the refund counter is exactly
  what the storage as it stands has earned, by the reference
  `RefundDue`: a reset refund for each write that put the committed value
  back, plus the clearing refund for a slot standing cleared, plus one
  SELFDESTRUCT refund for each account that stands destroyed. Refund
  changes made by a frame that then ran out of gas or reverted are gone
  with its writes and its suicided marks, so a contract whose
  self-destruct was reverted earns the refund again, and one re-entered
  after it self-destructed does not. Its mutant is a revert that leaves
  the refund counter alone; dropping the `HasSuicided` test, or a revert
  that keeps the suicided marks, is caught too.
* **`GasBoundsExecution`:** every step after which the transaction still
  runs lowers the gas that all frames hold, or keeps it and pops a frame.
  This lexicographic measure shows that no execution runs forever.
  * An opcode pays at least a warm read.
  * A CALL hands the child only gas taken from the caller.
  * `Return` and `REVERT` give back no more than the child held.

  Termination is stated this way, as an action property, rather than as
  `<>(status # "running")`. A check of the latter without an opcode cap
  has every gas amount as a separate state, which is out of TLC's reach
  beyond a 3000-gas, two-frame instance.
* **`MigrationAppendsOnce`:** after both migrations, `ExtraEIPs` is the
  old list with `ethereum_5656` appended once, if it was absent, and the
  order is kept. The order matters because it fixes the order in which the
  activators run.
* **`UpgradeEnablesMCopy`:** a table built after the upgrade has MCOPY
  metered by `gasMCopy`.
* **`TypeOK` of `EvmUpgrade`:** the store only holds `chain_number` names.

Each passing property has a mutant in `PROJECT.json`. A mutant is a
plausible bug in the mapped code, and the property catches it under the
run's own cfg.

### Bounds and why they are enough

* **AccessListGas:**
  * Bounds: 2 transactions of 4 opcodes each; one slot with values {0,1,2};
    two other addresses, one of them initially empty; a balance of 0 or 1;
    start gas 4000 or 200000; call requests of 1000 or "all gas"; both
    refund schedules (1,304,604 states, about 2 minutes).
  * Why enough: 4 writes reach every path through the SSTORE table,
    including recreate after delete and reset to original. Start gas 4000
    makes the sentry and the out-of-gas paths reachable. Two transactions
    show that the access list and refund are per transaction and that
    commits feed `original`. The clearing refund differs between the
    schedules (15000 and 4800), and the recreate branch takes back
    whichever was granted.
* **EvmUpgrade / EipActivators:**
  * Bounds: every list of up to two names drawn from the EIPs newer than
    London, an unregistered one and malformed ones; the activator
    violation runs use lists with the older EIPs.
  * Why enough: two names are enough for one activator to overwrite
    another, and for a known name to precede an unknown one.
* **CallFrames:**
  * Bounds: the origin and one other address, one slot each with values
    {0,1,2}, start gas 3000 or 20000, call requests 2500 or 10000, three
    frames, five opcodes, the Berlin schedule (459,171 states, 15 s).
  * Why enough: 3000 gas fails a cold SSTORE after a warm mark, and
    20000 lets a child return. Three frames let a grandchild's revert sit
    between two live frames, and self-calls reach an address already on
    the stack. Values {0,1,2} reach every SSTORE branch, including a
    dirty update between two non-zero values. A 2500-gas child is above
    the sentry but short of the 2900 reset charge, so its refund change
    is made and then reverted. With 20000 gas a child at `a1` can
    self-destruct, return, and be called and self-destruct again within
    five opcodes; a child with 2500 gas fails SELFDESTRUCT's constant
    gas.
* **EvmQuery:** lists of up to two transactions, drawn from nil, good
  and two distinct bad messages. Two bad messages tell the first error
  from the last.
* **MemoryCopy:**
  * Bounds: up to 4 opcodes; lengths {0, 1, 33, 2^w + 1}; offsets
    {0, 31, 70, limit + 1, 2^w − 1}.
  * Why enough: these sit on each side of the overflow, memory-limit and
    word boundaries.

### Fairness

No run assumes fairness: every property is a state invariant or an
action property. Each step is an opcode, a migration or a decode that runs
to completion. The termination of EVM
execution is checked in `call_frames` by a decreasing measure
(`GasBoundsExecution`), which needs no fairness.

## What is not modelled

* **Memory contents and overlap semantics of the copy:** only lengths are
  modelled.
* **`Params` fields that `V7Params` lacks:** the generated protobuf types
  are outside `src/`. The seven fields the migration lists are modelled.
* **`ActivateableEips` and the one-line execute functions of the new
  opcodes:** `ActivateableEips` is a sorted listing, and the execute
  functions (`opSelfBalance`, `opChainID`, `opBaseFee`, `opPush0`) each
  push one value.
* **`Params.Validate`:** it is outside `src/`. For `ExtraEIPs` it is
  modelled from the spec, as "every name well formed".
* **EXTCODECOPY, balances and the value-transfer charges across
  frames:** `CallFrames` has the opcodes whose journal interplay is in
  question. `AccessListGas` checks the others in one frame.
* **The builder's contract and its termination:** the builder loop is
  go-ethereum code outside `src/` (`NewEVMInterpreter`), so a refinement
  of a spec-level contract by a spec-level builder would check the spec
  against itself. Only `EnableEIP` and the activators it calls come from
  `src/`.
* **The encodings of `Params` and `V7Params`:** each migration decodes
  bytes the other wrote (hazard at `part_000:67`). The model takes the
  encodings to carry every field unchanged.
* **Tests, scripts and docs:** they are not part of the running system.
