--------------------------- MODULE EipActivators ---------------------------
(***************************************************************************)
(* The dispatch-table builder: x/evm applying EnableEIP to every ExtraEIPs *)
(* name in list order, in place, on a fresh copy of the fork's base table. *)
(* It is outside src/ and modelled from the spec (4.1, 6).                 *)
(***************************************************************************)
EXTENDS JumpTable

CONSTANT Lists   \* ExtraEIPs lists the builder may be given

VARIABLES
  table,       \* the table being built
  pending,  \* the ExtraEIPs names not applied yet
  bstatus,  \* "idle", "building", "built" or "error"
  list      \* the ExtraEIPs list the build started from

builder == <<table, pending, bstatus, list>>

\* The builder takes a fresh copy of the base table and the list.
StartBuild(eips) ==
  /\ table' = BaseTable
  /\ pending' = eips
  /\ list' = eips
  /\ bstatus' = "building"

(***************************************************************************)
(* One EnableEIP call of the builder, on the table in place: an unknown   *)
(* name aborts the build, leaving the table as far as it got.              *)
(***************************************************************************)
BuildStep ==
  LET r == EnableEIP(Head(pending), table)
  IN  /\ bstatus = "building" /\ pending # <<>>
      /\ table' = r.jt
      /\ pending' = Tail(pending)
      /\ bstatus' = IF r.err THEN "error" ELSE "building"
      /\ UNCHANGED list

BuildDone ==
  /\ bstatus = "building" /\ pending = <<>>
  /\ bstatus' = "built"
  /\ UNCHANGED <<table, pending, list>>

BuilderInit ==
  /\ table = BaseTable /\ bstatus = "idle" /\ pending = <<>> /\ list = <<>>

BuilderNext ==
  \/ bstatus = "idle" /\ \E l \in Lists : StartBuild(l)
  \/ BuildStep
  \/ BuildDone

BuilderSpec == BuilderInit /\ [][BuilderNext]_builder

(***************************************************************************)
(* Properties                                                              *)
(***************************************************************************)
EntryType == [def : BOOLEAN, const : Nat, dyn : STRING, exec : STRING]

BuilderTypeOK ==
  /\ table \in [Ops -> EntryType]
  /\ bstatus \in {"idle", "building", "built", "error"}
  /\ pending \in Seq(DOMAIN activators \cup UNION {ToSet(l) : l \in Lists})

\* The dynamic gas functions that charge the access-list surcharge and
\* assume the warm cost is already the constant gas.
AccessListFns ==
  {"gasSLoadEIP2929", "gasSStoreEIP2929", "gasSStoreEIP3529",
   "gasExtCodeCopyEIP2929", "gasEip2929AccountCheck", "gasCallEIP2929",
   "gasCallCodeEIP2929", "gasStaticCallEIP2929", "gasDelegateCallEIP2929",
   "gasSelfdestructEIP2929", "gasSelfdestructEIP3529"}

\* The constant gas an access-list function is written to run behind.
WarmConst(op) ==
  CASE op \in {"SLOAD", "SSTORE"} -> 0
    [] op = "SELFDESTRUCT"        -> SelfdestructEIP150
    [] OTHER                      -> WarmStorageRead

\* A built table meters state access consistently (spec 4.2): the eleven
\* access-list opcodes either all use the EIP-2929 gas functions or none
\* does, each such function runs behind exactly the constant gas it
\* assumes (so no access is charged the old constant and the warm/cold
\* charge together), and SSTORE and SELFDESTRUCT use the same refund
\* schedule.
WarmColdPaired ==
  LET acl == {op \in Ops : table[op].dyn \in AccessListFns}
  IN  bstatus = "built" =>
        /\ acl \in {{}, Ops \ {"SELFBALANCE", "CHAINID", "BASEFEE", "PUSH0", "MCOPY"}}
        /\ \A op \in acl : table[op].const = WarmConst(op)
        /\ (table["SSTORE"].dyn = "gasSStoreEIP3529")
             = (table["SELFDESTRUCT"].dyn = "gasSelfdestructEIP3529")

\* Spec 4.2: activating an EIP the base table already includes changes
\* nothing, so a list of such EIPs builds the base table itself.
ReactivationIdempotent ==
  (bstatus = "built" /\ ToSet(list) \subseteq BaseEips) => table = BaseTable

====
