----------------------------- MODULE JumpTable -----------------------------
(***************************************************************************)
(* The feature activators of core/vm/eips.go (src/unnamed/part_004) as    *)
(* rewrites of a jump table, and the base tables.  A jump-table entry is  *)
(* abstracted to the fields the activators write: whether the opcode is   *)
(* defined, its constant gas, the name of its dynamic gas function and of *)
(* its execute function.  Only the opcodes some activator touches are     *)
(* kept.  An EIP name is the tuple strings.Split(name, "_") returns.      *)
(* The base tables of go-ethereum's jump_table.go are outside src/ and    *)
(* modelled from go-ethereum.                                              *)
(***************************************************************************)
EXTENDS Integers, Sequences, SequencesExt

CONSTANTS
  Base,      \* the fork whose instruction set the builder starts from
  Numerals   \* name parts for which strconv.Atoi succeeds

Ops == {"SLOAD", "SSTORE", "BALANCE", "EXTCODESIZE", "EXTCODEHASH",
        "EXTCODECOPY", "CALL", "CALLCODE", "DELEGATECALL", "STATICCALL",
        "SELFDESTRUCT", "SELFBALANCE", "CHAINID", "BASEFEE", "PUSH0", "MCOPY"}

Entry(const, dyn, exec) == [def |-> TRUE, const |-> const, dyn |-> dyn, exec |-> exec]
Undefined == [def |-> FALSE, const |-> 0, dyn |-> "none", exec |-> "opUndefined"]

\* A new opcode with no dynamic gas (the &operation{...} literals).
NewOp(exec, const) == Entry(const, "none", exec)

\* go-ethereum params and interpreter gas tiers used by the activators
WarmStorageRead == 100   \* WarmStorageReadCostEIP2929
SelfdestructEIP150 == 5000
SloadGasEIP1884 == 800
SloadGasEIP2200 == 800
BalanceGasEIP1884 == 700
ExtcodeHashGasEIP1884 == 700
GasQuickStep == 2
GasFastStep == 5

(***************************************************************************)
(* The activators, each a rewrite of the table it is given.                *)
(***************************************************************************)
Enable1884(jt) ==
  [jt EXCEPT !["SLOAD"].const = SloadGasEIP1884,
             !["BALANCE"].const = BalanceGasEIP1884,
             !["EXTCODEHASH"].const = ExtcodeHashGasEIP1884,
             !["SELFBALANCE"] = NewOp("opSelfBalance", GasFastStep)]

Enable1344(jt) == [jt EXCEPT !["CHAINID"] = NewOp("opChainID", GasQuickStep)]

Enable2200(jt) ==
  [jt EXCEPT !["SLOAD"].const = SloadGasEIP2200,
             !["SSTORE"].dyn = "gasSStoreEIP2200"]

Enable2929(jt) ==
  [jt EXCEPT !["SSTORE"].dyn = "gasSStoreEIP2929",
             !["SLOAD"] = [@ EXCEPT !.const = 0, !.dyn = "gasSLoadEIP2929"],
             !["EXTCODECOPY"] = [@ EXCEPT !.const = WarmStorageRead, !.dyn = "gasExtCodeCopyEIP2929"],
             !["EXTCODESIZE"] = [@ EXCEPT !.const = WarmStorageRead, !.dyn = "gasEip2929AccountCheck"],
             !["EXTCODEHASH"] = [@ EXCEPT !.const = WarmStorageRead, !.dyn = "gasEip2929AccountCheck"],
             !["BALANCE"] = [@ EXCEPT !.const = WarmStorageRead, !.dyn = "gasEip2929AccountCheck"],
             !["CALL"] = [@ EXCEPT !.const = WarmStorageRead, !.dyn = "gasCallEIP2929"],
             !["CALLCODE"] = [@ EXCEPT !.const = WarmStorageRead, !.dyn = "gasCallCodeEIP2929"],
             !["STATICCALL"] = [@ EXCEPT !.const = WarmStorageRead, !.dyn = "gasStaticCallEIP2929"],
             !["DELEGATECALL"] = [@ EXCEPT !.const = WarmStorageRead, !.dyn = "gasDelegateCallEIP2929"],
             !["SELFDESTRUCT"] = [@ EXCEPT !.const = SelfdestructEIP150, !.dyn = "gasSelfdestructEIP2929"]]

Enable3529(jt) ==
  [jt EXCEPT !["SSTORE"].dyn = "gasSStoreEIP3529",
             !["SELFDESTRUCT"].dyn = "gasSelfdestructEIP3529"]

Enable3198(jt) == [jt EXCEPT !["BASEFEE"] = NewOp("opBaseFee", GasQuickStep)]

Enable3855(jt) == [jt EXCEPT !["PUSH0"] = NewOp("opPush0", GasQuickStep)]

\* Variant of Enable5656 whose operation literal omits dynamicGas.
Enable5656NoGas(jt) == [jt EXCEPT !["MCOPY"] = Entry(0, "none", "opMCopy")]

Enable5656(jt) == [jt EXCEPT !["MCOPY"] = Entry(0, "gasMCopy", "opMCopy")]

\* The registry: name (as split on "_") to activator.
activators ==
  (<<"ethereum", "5656">> :> "enable5656") @@ (<<"ethereum", "3855">> :> "enable3855")
  @@ (<<"ethereum", "3529">> :> "enable3529") @@ (<<"ethereum", "3198">> :> "enable3198")
  @@ (<<"ethereum", "2929">> :> "enable2929") @@ (<<"ethereum", "2200">> :> "enable2200")
  @@ (<<"ethereum", "1884">> :> "enable1884") @@ (<<"ethereum", "1344">> :> "enable1344")

\* Calling the activator function a registry entry holds.
Apply(fn, jt) ==
  CASE fn = "enable5656" -> Enable5656(jt)
    [] fn = "enable3855" -> Enable3855(jt)
    [] fn = "enable3529" -> Enable3529(jt)
    [] fn = "enable3198" -> Enable3198(jt)
    [] fn = "enable2929" -> Enable2929(jt)
    [] fn = "enable2200" -> Enable2200(jt)
    [] fn = "enable1884" -> Enable1884(jt)
    [] fn = "enable1344" -> Enable1344(jt)

ExistsEipActivator(name) == name \in DOMAIN activators

\* EnableEIP: an unknown name is an error and the table is left alone.
EnableEIP(name, jt) ==
  IF name \in DOMAIN activators
  THEN [err |-> FALSE, jt |-> Apply(activators[name], jt)]
  ELSE [err |-> TRUE, jt |-> jt]

\* Variant of ValidateEIPName that drops the strconv.Atoi check.
ValidateEIPNameNoAtoi(name) == Len(name) = 2

\* ValidateEIPName: exactly two "_"-separated parts, the second a number.
ValidateEIPName(name) == Len(name) = 2 /\ name[2] \in Numerals

(***************************************************************************)
(* Base tables (go-ethereum jump_table.go): the Petersburg entries of the  *)
(* opcodes above, and each later fork as the activators its constructor   *)
(* applies, in the order it applies them.                                  *)
(***************************************************************************)
Petersburg ==
  [op \in Ops |->
     CASE op = "SLOAD"        -> Entry(200, "none", "opSload")
       [] op = "SSTORE"       -> Entry(0, "gasSStore", "opSstore")
       [] op = "BALANCE"      -> Entry(400, "none", "opBalance")
       [] op = "EXTCODEHASH"  -> Entry(400, "none", "opExtCodeHash")
       [] op = "EXTCODESIZE"  -> Entry(700, "none", "opExtCodeSize")
       [] op = "EXTCODECOPY"  -> Entry(700, "gasExtCodeCopy", "opExtCodeCopy")
       [] op = "CALL"         -> Entry(700, "gasCall", "opCall")
       [] op = "CALLCODE"     -> Entry(700, "gasCallCode", "opCallCode")
       [] op = "DELEGATECALL" -> Entry(700, "gasDelegateCall", "opDelegateCall")
       [] op = "STATICCALL"   -> Entry(700, "gasStaticCall", "opStaticCall")
       [] op = "SELFDESTRUCT" -> Entry(SelfdestructEIP150, "gasSelfdestruct", "opSelfdestruct")
       [] OTHER               -> Undefined]

Istanbul == Enable2200(Enable1884(Enable1344(Petersburg)))
Berlin   == Enable2929(Istanbul)
London   == Enable3198(Enable3529(Berlin))

BaseTable ==
  CASE Base = "petersburg" -> Petersburg
    [] Base = "istanbul"   -> Istanbul
    [] Base = "berlin"     -> Berlin
    [] Base = "london"     -> London

\* The EIPs each base already includes.
BaseEips ==
  LET eth(n) == <<"ethereum", n>>
      ist    == {eth("1344"), eth("1884"), eth("2200")}
  IN  CASE Base = "petersburg" -> {}
        [] Base = "istanbul"   -> ist
        [] Base = "berlin"     -> ist \cup {eth("2929")}
        [] Base = "london"     -> ist \cup {eth("2929"), eth("3529"), eth("3198")}
====
