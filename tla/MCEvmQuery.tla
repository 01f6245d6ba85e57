----------------------------- MODULE MCEvmQuery -----------------------------
(* Two undecodable transactions, so that "the first error" is observable, *)
(* lists of up to two transactions, and a TraceConfig without Any fields. *)
EXTENDS EvmQuery

MCBadMsgs == {"b1", "b2"}
MCTxEntries == {"nil", "ok", "b1", "b2"}
\* A decoded repeated message field never holds a nil pointer.
MCBlockTxs == {"ok", "b1", "b2"}
\* A request built in process may.
MCBlockTxsWithNil == MCTxEntries
MCTraceConfigs == {"nil", "plain"}
MCVmErrors == {"", "execution reverted"}
=============================================================================
