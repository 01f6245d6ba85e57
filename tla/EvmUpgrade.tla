----------------------------- MODULE EvmUpgrade -----------------------------
(***************************************************************************)
(* The evm-v9 software upgrade composed with the dispatch-table builder.  *)
(* At the upgrade height CreateUpgradeHandler (src/unnamed/part_000) runs *)
(* its MigrateStore, then mm.RunMigrations runs the x/evm v8->v9 module    *)
(* migration (the second MigrateStore, src/x/evm/types/query.go).  Both   *)
(* append "ethereum_5656" to the ExtraEIPs parameter when it is absent,   *)
(* validate the parameters and store them.  The upgraded node then       *)
(* builds its jump table from the stored list (EipActivators).  The other *)
(* Params fields the migration copies are carried along; the encoding is  *)
(* taken to carry them between the two Params types as is.                *)
(***************************************************************************)
EXTENDS EipActivators

NewEIP == <<"ethereum", "5656">>

\* The Params fields other than ExtraEIPs that V7Params shares.
ParamFields ==
  {"AllowUnprotectedTxs", "ActiveStaticPrecompiles", "EVMChannels",
   "CallAccessType", "CallAccessControlList",
   "CreateAccessType", "CreateAccessControlList"}

VARIABLES
  stored,  \* params.ExtraEIPs in the x/evm store
  phase,   \* "v8", "migrated" (handler done), "v9" (module migration done)
  before,  \* history: ExtraEIPs before the upgrade
  others   \* the other Params fields in the x/evm store

vars == <<stored, phase, before, others, builder>>

\* Params.Validate, as far as it concerns ExtraEIPs: every name well formed.
Validate(eips) == \A i \in DOMAIN eips : ValidateEIPName(eips[i])

\* Variant of WithNewEIP whose search loop never compares the names.
WithNewEIPAppendAlways(eips) == Append(eips, NewEIP)

\* The handler's MigrateStore: "ethereum_5656" appended if not found.
WithNewEIP(eips) == IF Contains(eips, NewEIP) THEN eips ELSE Append(eips, NewEIP)

\* The module migration's own search-and-append of "ethereum_5656".
WithEIP5656V9(eips) == IF Contains(eips, NewEIP) THEN eips ELSE Append(eips, NewEIP)

\* Validate, then store the new list.  Every list in the store passed
\* Validate when it was set, and appending "ethereum_5656" keeps it valid,
\* so the error return that would halt the upgrade is not reachable
\* through ExtraEIPs.
Migrate(eips, fields, next) ==
  /\ Validate(eips)
  /\ stored' = eips
  /\ others' = fields
  /\ phase' = next
  /\ UNCHANGED <<before, builder>>

\* CreateUpgradeHandler's MigrateStore: the whole Params is decoded,
\* ExtraEIPs extended and the whole Params stored back.
MigrateStore == phase = "v8" /\ Migrate(WithNewEIP(stored), others, "migrated")

\* The fields the v9 MigrateStore copies from V7Params into a fresh
\* Params, one assignment each (AccessType converted by value).
CopyV7Params(v7) ==
  [f \in ParamFields |-> v7[f]]

\* RunMigrations running the x/evm v8->v9 MigrateStore: the V7Params
\* fields, ExtraEIPs among them, are copied into a fresh Params.
MigrateStoreV9 ==
  phase = "migrated" /\ Migrate(WithEIP5656V9(stored), CopyV7Params(others), "v9")

\* The upgraded node builds its jump table from the stored parameters.
NodeStart ==
  /\ phase = "v9" /\ bstatus = "idle"
  /\ StartBuild(stored)
  /\ UNCHANGED <<stored, phase, before, others>>

Init ==
  /\ stored \in {l \in Lists : Validate(l)}
  /\ before = stored
  /\ others = [f \in ParamFields |-> f]
  /\ phase = "v8"
  /\ BuilderInit

Next ==
  \/ MigrateStore
  \/ MigrateStoreV9
  \/ NodeStart
  \/ (BuildStep \/ BuildDone) /\ UNCHANGED <<stored, phase, before, others>>

Spec == Init /\ [][Next]_vars

(***************************************************************************)
(* Properties                                                              *)
(***************************************************************************)
\* The store holds only names of the form chain_number.
TypeOK ==
  /\ BuilderTypeOK
  /\ phase \in {"v8", "migrated", "v9"}
  /\ others \in [ParamFields -> ParamFields]
  /\ stored \in Seq({n \in UNION {ToSet(l) : l \in Lists} \cup {NewEIP} :
                      Len(n) = 2 /\ n[2] \in Numerals})

\* However the two MigrateStores compose, the upgrade leaves ExtraEIPs as
\* it was with "ethereum_5656" appended once, and only if it was absent:
\* the names and their order, which fix the activator order, are kept.
MigrationAppendsOnce ==
  phase = "v9" =>
    stored = IF Contains(before, NewEIP) THEN before ELSE Append(before, NewEIP)

\* After the upgrade, a node that builds its table has MCOPY installed and
\* metered by gasMCopy.
UpgradeEnablesMCopy ==
  (phase = "v9" /\ bstatus = "built") =>
    /\ table["MCOPY"].def
    /\ table["MCOPY"].dyn = "gasMCopy"
====
