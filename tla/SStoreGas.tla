------------------------------ MODULE SStoreGas ------------------------------
(***************************************************************************)
(* The go-ethereum gas constants the access-list gas functions of          *)
(* src/unnamed/part_003 use, and the value classification of              *)
(* makeGasSStoreFunc, shared by the single-frame model (AccessListGas)    *)
(* and the nested-frame model (CallFrames).                                *)
(***************************************************************************)
EXTENDS Integers

\* go-ethereum params/protocol_params.go
WarmStorageRead   == 100     \* WarmStorageReadCostEIP2929
ColdSload         == 2100    \* ColdSloadCostEIP2929
ColdAccountAccess == 2600    \* ColdAccountAccessCostEIP2929
SstoreSentry      == 2300    \* SstoreSentryGasEIP2200
SstoreSet         == 20000   \* SstoreSetGasEIP2200
SstoreReset       == 5000    \* SstoreResetGasEIP2200

(***************************************************************************)
(* makeGasSStoreFunc after the sentry and the access-list check: the      *)
(* charge and the refund changes of an SSTORE writing v over current c of *)
(* a slot whose committed value is o, under makeGasSStoreFunc's          *)
(* clearingRefund.  sub is the SubRefund, made before the AddRefunds     *)
(* summed in add.                                                          *)
(***************************************************************************)
\* Variant of ResetToOriginal keeping the EIP-2200 clauses the code
\* comments out (SLOAD_GAS 800, SSTORE_RESET_GAS 5000).
ResetToOriginal2200(o) ==
  IF o = 0 THEN SstoreSet - 800 ELSE SstoreReset - 800

ResetToOriginal(o) ==
  IF o = 0 THEN SstoreSet - WarmStorageRead                    \* (2.2.2.1)
           ELSE (SstoreReset - ColdSload) - WarmStorageRead    \* (2.2.2.2)

\* Variant of GasSStore whose "recreate slot (2.2.1.1)" SubRefund does not
\* test that the current value is zero.
GasSStoreRecreateAnyDirty(clearing, o, c, v) ==
  CASE c = v -> [gas |-> WarmStorageRead, sub |-> 0, add |-> 0]
    [] o = c /\ o = 0 -> [gas |-> SstoreSet, sub |-> 0, add |-> 0]
    [] o = c -> [gas |-> SstoreReset - ColdSload, sub |-> 0,
                 add |-> IF v = 0 THEN clearing ELSE 0]
    [] OTHER ->
         [gas |-> WarmStorageRead,
          sub |-> IF o # 0 THEN clearing ELSE 0,
          add |-> (IF o # 0 /\ c # 0 /\ v = 0 THEN clearing ELSE 0)
                  + (IF o = v THEN ResetToOriginal(o) ELSE 0)]

GasSStore(clearing, o, c, v) ==
  CASE c = v ->                                                 \* noop (1)
         [gas |-> WarmStorageRead, sub |-> 0, add |-> 0]
    [] o = c /\ o = 0 ->                                        \* (2.1.1)
         [gas |-> SstoreSet, sub |-> 0, add |-> 0]
    [] o = c ->                                                 \* (2.1.2)
         [gas |-> SstoreReset - ColdSload, sub |-> 0,
          add |-> IF v = 0 THEN clearing ELSE 0]
    [] OTHER ->                                                 \* dirty (2.2)
         [gas |-> WarmStorageRead,
          sub |-> IF o # 0 /\ c = 0 THEN clearing ELSE 0,
          add |-> (IF o # 0 /\ c # 0 /\ v = 0 THEN clearing ELSE 0)
                  + (IF o = v THEN ResetToOriginal(o) ELSE 0)]
=============================================================================
