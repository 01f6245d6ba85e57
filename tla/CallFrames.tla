----------------------------- MODULE CallFrames -----------------------------
(***************************************************************************)
(* The access-list gas functions of src/unnamed/part_003 across nested    *)
(* call frames of one transaction.  A frame runs as the contract at addr   *)
(* with its own gas; the interpreter charges an opcode's constant gas,    *)
(* then its dynamic gas function, which warms what it touches before the  *)
(* charge is known to be affordable.  A CALL's gas function warms the     *)
(* callee, then evm.Call takes a StateDB snapshot and runs the child; a   *)
(* child that fails (out of gas, or REVERT) is reverted to that snapshot, *)
(* which removes the warm marks journalled since ("this change will be    *)
(* rolled back", part_003).  The journal, evm.Call and the interpreter    *)
(* loop are go-ethereum code outside src/.                                 *)
(*                                                                         *)
(* A warm item is an address (a model value) or a pair <<addr, slot>>.    *)
(* A snapshot also holds the storage and the refund counter, which the    *)
(* journal restores with the access list; SSTORE changes the refund in    *)
(* its gas function, before the charge is known to be affordable.         *)
(***************************************************************************)
EXTENDS Integers, Sequences, FiniteSets, FiniteSetsExt, SStoreGas

CONSTANTS
  Origin,     \* the address the transaction calls
  Addrs,      \* other contract addresses
  Slots,      \* storage keys
  Values,     \* storage words; 0 is the empty word
  ClearingRefund, \* clearingRefund of makeGasSStoreFunc (15000 or 4800)
  RefundsEnabled, \* refundsEnabled of makeSelfdestructGasFn
  StartGas,   \* gas the top-level frame may start with
  Requests,   \* gas operands of CALL
  MaxDepth,   \* frames deep (CallCreateDepth, scaled)
  MaxOps      \* opcodes per transaction

SelfdestructEIP150 == 5000   \* SelfdestructGasEIP150
SelfdestructRefund == 24000  \* SelfdestructRefundGas

AllAddrs == {Origin} \cup Addrs
Keys     == AllAddrs \X Slots
Items    == AllAddrs \cup Keys

VARIABLES
  warm,     \* the StateDB access list
  frames,   \* the call stack: [addr, gas, snap (journal at entry), touched]
  status,   \* "running", "done", "reverted" (the transaction), "panic"
            \* (the SSTORE canary) or "underflow" (SubRefund below zero)
  ops,      \* bound
  original, \* committed storage: GetCommittedState
  current,  \* storage as written: GetState
  refund,   \* the StateDB refund counter
  suicided, \* the accounts whose HasSuicided holds
  resets,   \* history: per key, writes that put the committed value back
  prepared  \* history: the access list StateDB.Prepare made

store == <<current, refund, suicided, resets>>
vars  == <<warm, frames, status, ops, original, store, prepared>>

\* What StateDB.Snapshot lets RevertToSnapshot restore, with access list w.
Snapshot(w) ==
  [warm |-> w, current |-> current, refund |-> refund, suicided |-> suicided,
   resets |-> resets]

Top       == frames[Len(frames)]
Running   == status = "running" /\ ops < MaxOps

\* The top frame's gas and the items it warmed, updated.
SetTop(gas, new) ==
  [frames EXCEPT ![Len(frames)].gas = gas,
                 ![Len(frames)].touched = @ \cup new]

\* Variant of FailFrame whose revert leaves the refund counter as it is,
\* as if AddRefund and SubRefund were not journalled.
FailFrameKeepRefund(back) ==
  /\ warm' = Top.snap.warm
  /\ current' = Top.snap.current
  /\ resets' = Top.snap.resets
  /\ suicided' = Top.snap.suicided
  /\ UNCHANGED refund
  /\ IF Len(frames) = 1
     THEN frames' = <<>> /\ status' = "reverted"
     ELSE LET parent == Len(frames) - 1
          IN  /\ frames' = [SubSeq(frames, 1, parent) EXCEPT ![parent].gas = @ + back]
              /\ UNCHANGED status

(***************************************************************************)
(* A frame fails: evm.Call reverts the StateDB to the frame's snapshot;   *)
(* an error other than REVERT consumes the frame's gas, REVERT returns    *)
(* what is left to the caller.  A failing top-level frame reverts the     *)
(* transaction.                                                            *)
(***************************************************************************)
FailFrame(back) ==
  /\ warm' = Top.snap.warm
  /\ current' = Top.snap.current
  /\ refund' = Top.snap.refund
  /\ suicided' = Top.snap.suicided
  /\ resets' = Top.snap.resets
  /\ IF Len(frames) = 1
     THEN frames' = <<>> /\ status' = "reverted"
     ELSE LET parent == Len(frames) - 1
          IN  /\ frames' = [SubSeq(frames, 1, parent) EXCEPT ![parent].gas = @ + back]
              /\ UNCHANGED status

(***************************************************************************)
(* The dynamic gas function has put marks in the access list; the         *)
(* interpreter then charges cost from the g left.  When it is not there   *)
(* the frame fails and its revert takes the marks out again along with    *)
(* everything else since the snapshot.  fresh: the marks that were cold.  *)
(***************************************************************************)
Pay(g, cost, marks, fresh) ==
  IF cost > g
  THEN FailFrame(0)
  ELSE /\ warm' = warm \cup marks
       /\ frames' = SetTop(g - cost, fresh)
       /\ UNCHANGED <<status, store>>

\* SLOAD: gasSLoadEIP2929 (constant gas 0).
SLoad(s) ==
  LET key == <<Top.addr, s>>
  IN  IF key \notin warm THEN Pay(Top.gas, ColdSload, {key}, {key})
      ELSE Pay(Top.gas, WarmStorageRead, {}, {})

(***************************************************************************)
(* SSTORE of v: makeGasSStoreFunc's sentry, its cold-slot mark and its    *)
(* panic canary for a contract address missing from the access list, the *)
(* refund changes of GasSStore (SubRefund panics below zero), then the    *)
(* interpreter's charge and opSstore's write.  An unaffordable charge      *)
(* fails the frame, whose revert undoes the mark and the refund change.   *)
(***************************************************************************)
SStore(s, v) ==
  LET key  == <<Top.addr, s>>
      cold == key \notin warm
      r    == GasSStore(ClearingRefund, original[key], current[key], v)
      cost == (IF cold THEN ColdSload ELSE 0) + r.gas
  IN  CASE Top.gas <= SstoreSentry -> FailFrame(0)
        [] cold /\ Top.addr \notin warm ->
             status' = "panic" /\ UNCHANGED <<warm, frames, store>>
        [] refund < r.sub ->
             status' = "underflow" /\ UNCHANGED <<warm, frames, store>>
        [] cost > Top.gas -> FailFrame(0)
        [] OTHER ->
             /\ warm' = warm \cup {key}
             /\ frames' = SetTop(Top.gas - cost, IF cold THEN {key} ELSE {})
             /\ refund' = refund - r.sub + r.add
             /\ current' = [current EXCEPT ![key] = v]
             /\ UNCHANGED suicided
             /\ resets' = IF current[key] # original[key] /\ v = original[key]
                          THEN [resets EXCEPT ![key] = @ + 1] ELSE resets
             /\ UNCHANGED status

\* BALANCE, EXTCODESIZE, EXTCODEHASH: WarmStorageRead constant gas, then
\* gasEip2929AccountCheck.
AccountCheck(a) ==
  \* the constant gas first; without it nothing is warmed
  IF Top.gas < WarmStorageRead THEN FailFrame(0) ELSE
  LET g == Top.gas - WarmStorageRead IN
    IF a \notin warm THEN Pay(g, ColdAccountAccess - WarmStorageRead, {a}, {a})
    ELSE Pay(g, 0, {}, {})

\* callGas: all but one 64th of what is left, at most the request.
CallGas(avail, req) == IF req < avail - avail \div 64 THEN req ELSE avail - avail \div 64

\* The child frame evm.Call pushes, with the snapshot it takes.
Enter(a, fwd, w) == [addr |-> a, gas |-> fwd, snap |-> Snapshot(w), touched |-> {}]

\* Variant of Call whose gas function charges a cold callee but does not
\* add it to the access list.
CallNoWarm(a, req) ==
  \* the constant gas first; without it nothing is warmed
  IF Top.gas < WarmStorageRead THEN FailFrame(0) ELSE
  LET g == Top.gas - WarmStorageRead IN
    LET sur == IF a \notin warm THEN ColdAccountAccess - WarmStorageRead ELSE 0
        fwd == CallGas(g - sur, req)
    IN  IF sur > g THEN FailFrame(0)
        ELSE /\ UNCHANGED <<warm, status, store>>
             /\ frames' = Append(SetTop(g - sur - fwd, {}), Enter(a, fwd, warm))

\* Variant of Call that snapshots the StateDB before the gas function.
CallSnapshotFirst(a, req) ==
  \* the constant gas first; without it nothing is warmed
  IF Top.gas < WarmStorageRead THEN FailFrame(0) ELSE
  LET g == Top.gas - WarmStorageRead IN
    LET cold == a \notin warm
        sur  == IF cold THEN ColdAccountAccess - WarmStorageRead ELSE 0
        fwd  == CallGas(g - sur, req)
    IN  IF sur > g THEN FailFrame(0)
        ELSE /\ warm' = warm \cup {a}
             /\ frames' = Append(SetTop(g - sur - fwd, IF cold THEN {a} ELSE {}),
                                 Enter(a, fwd, warm))
             /\ UNCHANGED <<status, store>>

\* Variant of Call that ignores the result of UseGas(coldCost).
CallUnchecked(a, req) ==
  \* the constant gas first; without it nothing is warmed
  IF Top.gas < WarmStorageRead THEN FailFrame(0) ELSE
  LET g == Top.gas - WarmStorageRead IN
    LET cold == a \notin warm
        sur  == IF cold THEN ColdAccountAccess - WarmStorageRead ELSE 0
        fwd  == CallGas(g - sur, req)
    IN  /\ warm' = warm \cup {a}
        /\ frames' = Append(SetTop(g - sur - fwd, IF cold THEN {a} ELSE {}),
                            Enter(a, fwd, warm \cup {a}))
        /\ UNCHANGED <<status, store>>

\* Variant of Call whose charge leaves out the gas forwarded to the child.
CallFreeForward(a, req) ==
  IF Top.gas < WarmStorageRead THEN FailFrame(0) ELSE
  LET g    == Top.gas - WarmStorageRead
      cold == a \notin warm
      sur  == IF cold THEN ColdAccountAccess - WarmStorageRead ELSE 0
      fwd  == CallGas(g - sur, req)
  IN  IF sur > g THEN FailFrame(0)
      ELSE /\ warm' = warm \cup {a}
           /\ frames' = Append(SetTop(g - sur, IF cold THEN {a} ELSE {}),
                               Enter(a, fwd, warm \cup {a}))
           /\ UNCHANGED <<status, store>>

(***************************************************************************)
(* CALL to a with gas operand req: constant gas, then                     *)
(* makeCallVariantGasCallEIP2929: a cold callee is warmed and the         *)
(* surcharge taken with UseGas (ErrOutOfGas when it is not there), the    *)
(* old calculator forwards callGas of what is left, the surcharge is      *)
(* given back and added to the charge.  Then evm.Call snapshots the      *)
(* StateDB and runs the child with the forwarded gas.                    *)
(***************************************************************************)
Call(a, req) ==
  \* the constant gas first; without it nothing is warmed
  IF Top.gas < WarmStorageRead THEN FailFrame(0) ELSE
  LET g == Top.gas - WarmStorageRead IN
    LET cold == a \notin warm
        sur  == IF cold THEN ColdAccountAccess - WarmStorageRead ELSE 0
        fwd  == CallGas(g - sur, req)
        now  == warm \cup {a}
    IN  IF sur > g THEN FailFrame(0)
        ELSE /\ warm' = now
             /\ frames' = Append(SetTop(g - sur - fwd, IF cold THEN {a} ELSE {}),
                                 Enter(a, fwd, now))
             /\ UNCHANGED <<status, store>>

\* The top frame stops with gas left and the items it warmed: a child hands
\* both to the caller; the top-level frame ends the transaction.
Halt(gas, touched) ==
  IF Len(frames) = 1
  THEN status' = "done" /\ frames' = SetTop(gas, touched)
  ELSE LET p == Len(frames) - 1
       IN  /\ frames' = [SubSeq(frames, 1, p) EXCEPT ![p].gas = @ + gas,
                                                    ![p].touched = @ \cup touched]
           /\ UNCHANGED status

\* The top frame returns.
Return ==
  /\ UNCHANGED <<warm, store>>
  /\ Halt(Top.gas, Top.touched)

(***************************************************************************)
(* SELFDESTRUCT to beneficiary a: constant SelfdestructGasEIP150, then    *)
(* makeSelfdestructGasFn, which warms a cold beneficiary and calls         *)
(* AddRefund unless Self has already self-destructed, all before the       *)
(* interpreter knows the charge is affordable.  Every account here holds  *)
(* code, so Empty(a) is false and CreateBySelfdestructGas never applies.  *)
(* opSelfdestruct marks Self suicided and stops the frame.                 *)
(***************************************************************************)
SelfDestruct(a) ==
  IF Top.gas < SelfdestructEIP150 THEN FailFrame(0) ELSE
  LET g       == Top.gas - SelfdestructEIP150
      cold    == a \notin warm
      cost    == IF cold THEN ColdAccountAccess ELSE 0
      granted == IF RefundsEnabled /\ Top.addr \notin suicided
                 THEN SelfdestructRefund ELSE 0
  IN  IF cost > g THEN FailFrame(0)
      ELSE /\ warm' = warm \cup {a}
           /\ refund' = refund + granted
           /\ suicided' = suicided \cup {Top.addr}
           /\ UNCHANGED <<current, resets>>
           /\ Halt(g - cost, Top.touched \cup (IF cold THEN {a} ELSE {}))

\* The top frame executes REVERT.
Revert == FailFrame(Top.gas)

Init ==
  \E g \in StartGas, list \in SUBSET Items :
    /\ prepared = {Origin} \cup list
    /\ warm = prepared
    /\ original \in [Keys -> Values]
    /\ current = original
    /\ refund = 0
    /\ suicided = {}
    /\ resets = [k \in Keys |-> 0]
    /\ frames = <<Enter(Origin, g, prepared)>>
    /\ status = "running"
    /\ ops = 0

Step(A) == Running /\ A /\ ops' = ops + 1 /\ UNCHANGED <<original, prepared>>

Next ==
  \/ \E s \in Slots : Step(SLoad(s))
  \/ \E s \in Slots, v \in Values : Step(SStore(s, v))
  \/ \E a \in AllAddrs : Step(AccountCheck(a))
  \/ \E a \in AllAddrs, req \in Requests : Len(frames) < MaxDepth /\ Step(Call(a, req))
  \/ \E a \in AllAddrs : Step(SelfDestruct(a))
  \/ Step(Return)
  \/ Step(Revert)

Spec == Init /\ [][Next]_vars

(***************************************************************************)
(* Properties                                                              *)
(***************************************************************************)
TypeOK ==
  /\ warm \subseteq Items
  /\ frames \in Seq([addr : AllAddrs, gas : Nat, touched : SUBSET Items,
                     snap : [warm : SUBSET Items, current : [Keys -> Values],
                             refund : Nat, suicided : SUBSET AllAddrs,
                             resets : [Keys -> Nat]]])
  /\ Len(frames) <= MaxDepth
  /\ status \in {"running", "done", "reverted", "panic", "underflow"}
  /\ current \in [Keys -> Values] /\ refund \in Nat /\ resets \in [Keys -> Nat]
  /\ suicided \subseteq AllAddrs

\* The access list is exactly what the transaction prepared plus what the
\* frames still on the stack, and the children they took back successfully,
\* warmed: a failed child's marks are gone, a parent's are never lost to
\* a child's revert, and a returning child's are kept.
WarmMatchesLivePath ==
  status # "panic" =>
    warm = prepared \cup UNION {frames[i].touched : i \in DOMAIN frames}

\* makeGasSStoreFunc's canary never fires: a frame storing to a cold slot
\* always runs at an address already in the access list.
NoSstoreCanaryPanic == status # "panic"

\* Spec 3 and 4.3: access-list membership is monotonic within a
\* transaction; a warm mark made by a failed charge is not rolled back.
\* Checked on the steps after which the transaction still runs.
AccessListMonotonic == [][status' = "running" => warm \subseteq warm']_vars

\* The refund a slot's writes have earned, by spec 4.3's table taken as a
\* whole: each time a write puts the committed value back, it earns back
\* all but a warm read of the full charge the first write after the last
\* such reset paid; a slot standing cleared from a non-zero committed
\* value earns the clearing refund; nothing else earns anything.
RefundDue(o, c, n) ==
  n * (IF o = 0 THEN SstoreSet - WarmStorageRead
                ELSE (SstoreReset - ColdSload) - WarmStorageRead)
  + (IF o # 0 /\ c = 0 THEN ClearingRefund ELSE 0)

\* SubRefund never goes below zero, and while the transaction runs the
\* refund counter is exactly what the storage as it stands has earned,
\* plus one SELFDESTRUCT refund per account that stands destroyed: the
\* refund changes that SSTORE's and SELFDESTRUCT's gas functions make
\* before their charge, in frames that then ran out of gas or reverted,
\* are undone with the writes and the suicided marks, and an account
\* re-entered after it self-destructed earns nothing the second time.
RefundMatchesStorage ==
  /\ status # "underflow"
  /\ status \in {"running", "done"} =>
       refund = MapThenSumSet(LAMBDA k : RefundDue(original[k], current[k], resets[k]), Keys)
                + (IF RefundsEnabled THEN SelfdestructRefund * Cardinality(suicided) ELSE 0)


\* The gas held by the frames on the stack, and their number.
Progress(fs) == <<MapThenSumSet(LAMBDA i : fs[i].gas, DOMAIN fs), Len(fs)>>

LexLess(a, b) == a[1] < b[1] \/ (a[1] = b[1] /\ a[2] < b[2])

\* No transaction runs forever: every step after which it still runs
\* lowers the gas held by the stack, or keeps it and pops a frame.  An
\* opcode pays at least a warm read, a CALL hands the child only gas it
\* took from the caller, and Return and REVERT give back no more than the
\* child held.
GasBoundsExecution ==
  [][status' = "running" => LexLess(Progress(frames'), Progress(frames))]_vars

=============================================================================
