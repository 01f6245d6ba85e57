------------------------------ MODULE EvmQuery ------------------------------
(***************************************************************************)
(* The x/evm query types of src/x/evm/types/query.go: the codec's          *)
(* UnpackInterfaces hooks of QueryTraceTxRequest and QueryTraceBlockRequest *)
(* and EstimateGasResponse.Failed.  The codec calls a request's hook when  *)
(* it decodes the request; the hook unpacks the Any of every transaction   *)
(* it holds and returns the first error.                                   *)
(*                                                                         *)
(* A *MsgEthereumTx is "nil", "ok" (its Any unpacks) or one of BadMsgs     *)
(* (its Any does not; the error returned is that message's own).          *)
(* MsgEthereumTx.UnpackInterfaces has a value receiver, so calling it      *)
(* through a nil pointer dereferences nil: the outcome "panic".           *)
(***************************************************************************)
EXTENDS Sequences, SequencesExt

CONSTANTS
  BadMsgs,      \* transactions whose Any the unpacker rejects
  TxEntries,    \* the *MsgEthereumTx values a TraceTx request may hold
  BlockTxs,     \* the *MsgEthereumTx values a TraceBlock request may hold
  TraceConfigs, \* *TraceConfig values: "nil", "plain", or in BadMsgs
  MaxTxs,       \* longest Predecessors / Txs list
  VmErrors      \* EstimateGasResponse.VmError values; "" is the empty string

ASSUME BadMsgs \subseteq TxEntries /\ "nil" \in TxEntries /\ BlockTxs \subseteq TxEntries

\* *TraceConfig implements UnpackInterfacesMessage only if one of its values
\* can fail to unpack; otherwise the type assertion fails and it is skipped.
TraceConfigUnpacks == TraceConfigs \cap BadMsgs # {}

TxLists == BoundedSeq(TxEntries, MaxTxs)

VARIABLES
  request,  \* the request the codec is decoding
  result    \* what its UnpackInterfaces returned: "ok", "panic" or an error

vars == <<request, result>>

\* MsgEthereumTx.UnpackInterfaces(unpacker) called on one pointer.
UnpackMsg(msg) ==
  CASE msg = "nil"      -> "panic"
    [] msg \in BadMsgs  -> msg
    [] OTHER            -> "ok"

\* The loop "for _, msg := range txs { if err := ...; err != nil { return err } }"
\* with the nil check of QueryTraceTxRequest when skipNil holds.
RECURSIVE UnpackEach(_, _)
UnpackEach(txs, skipNil) ==
  IF txs = <<>> THEN "ok"
  ELSE LET r == IF skipNil /\ Head(txs) = "nil" THEN "ok" ELSE UnpackMsg(Head(txs))
       IN  IF r # "ok" THEN r ELSE UnpackEach(Tail(txs), skipNil)

\* Variant of UnpackTraceTx that checks Msg before the predecessors.
UnpackTraceTxMsgFirst(req) ==
  LET m == IF req.msg = "nil" THEN "ok" ELSE UnpackMsg(req.msg)
  IN  IF m # "ok" THEN m ELSE UnpackEach(req.predecessors, TRUE)

\* QueryTraceTxRequest.UnpackInterfaces: predecessors (nil ones skipped),
\* then Msg if not nil, then TraceConfig if not nil and its type unpacks.
UnpackTraceTx(req) ==
  LET p  == UnpackEach(req.predecessors, TRUE)
      m  == IF req.msg = "nil" THEN "ok" ELSE UnpackMsg(req.msg)
      tc == IF req.traceConfig # "nil" /\ TraceConfigUnpacks
            THEN UnpackMsg(req.traceConfig) ELSE "ok"
  IN  CASE p # "ok" -> p
        [] m # "ok" -> m
        [] OTHER    -> tc

\* QueryTraceBlockRequest.UnpackInterfaces: every tx, no nil check.
UnpackTraceBlock(req) == UnpackEach(req.txs, FALSE)

\* Variant of Failed testing len(VmError) >= 0.
FailedLenAtLeastZero(resp) == TRUE

\* EstimateGasResponse.Failed: len(VmError) > 0.
Failed(resp) == resp.vmError # ""

TraceTxRequests ==
  [kind : {"traceTx"}, predecessors : TxLists, msg : TxEntries,
   traceConfig : TraceConfigs]
TraceBlockRequests == [kind : {"traceBlock"}, txs : BoundedSeq(BlockTxs, MaxTxs)]

Init == request = [kind |-> "none"] /\ result = "ok"

\* The codec decodes a TraceTx request and runs its hook.
DecodeTraceTx ==
  \E req \in TraceTxRequests : request' = req /\ result' = UnpackTraceTx(req)

\* The codec decodes a TraceBlock request and runs its hook.
DecodeTraceBlock ==
  \E req \in TraceBlockRequests : request' = req /\ result' = UnpackTraceBlock(req)

\* An EstimateGas response is inspected with Failed.
EstimateGas ==
  \E e \in VmErrors :
    LET resp == [kind |-> "estimateGas", vmError |-> e]
    IN  request' = resp /\ result' = IF Failed(resp) THEN e ELSE "ok"

Next == DecodeTraceTx \/ DecodeTraceBlock \/ EstimateGas

Spec == Init /\ [][Next]_vars

(***************************************************************************)
(* Properties                                                              *)
(***************************************************************************)
TypeOK == result \in {"ok", "panic"} \cup BadMsgs \cup (VmErrors \ {""})

\* The transactions a request carries, in the order the hook visits them;
\* a nil pointer is an absent transaction.
Carried(req) ==
  IF req.kind = "traceTx"
  THEN SelectSeq(req.predecessors \o <<req.msg>>, LAMBDA m : m # "nil")
         \o (IF req.traceConfig \in BadMsgs THEN <<req.traceConfig>> ELSE <<>>)
  ELSE SelectSeq(req.txs, LAMBDA m : m # "nil")

\* Decoding a trace request never panics, succeeds exactly when every
\* transaction it carries unpacks, and otherwise reports the error of the
\* first one that does not, in request order (the order the keeper then
\* replays them in).
UnpackMatchesReference ==
  request.kind \in {"traceTx", "traceBlock"} =>
    LET bad == SelectSeq(Carried(request), LAMBDA m : m \in BadMsgs)
    IN  result = IF bad = <<>> THEN "ok" ELSE Head(bad)
=============================================================================
