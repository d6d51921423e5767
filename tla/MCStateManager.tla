--------------------------- MODULE MCStateManager ---------------------------
(***************************************************************************)
(* Instances of StateManager, with keys of two or three bits.              *)
(*                                                                         *)
(* The raw instance calls apply_block with any block and goes back at any  *)
(* moment: a coinbase, a payment that spends its output, one that sends it *)
(* to the burn address, and a contract that spends the output of the       *)
(* payment and may overwrite or destroy the supply and another's output.   *)
(*                                                                         *)
(* The forward instance validates its blocks and never goes back: a        *)
(* coinbase, a payment with change, and a contract that spends one output  *)
(* of it, creates two and keeps to a key of its own.  The change and the   *)
(* outputs of the contract are neighbours in the tree, so that a path      *)
(* pruned with the change is written again with an output of the contract. *)
(***************************************************************************)
EXTENDS StateManager

CONSTANTS bytes     \* a value a contract writes

Coin == [value |-> 1, owner |-> "alice"]
Two  == [value |-> 2, owner |-> "alice"]
Burn == [value |-> 1, owner |-> "burn"]

MCOutput   == {Coin, Two, Burn}
MCData     == MCOutput \cup {bytes}
MCBurnData == {Burn}
MCOutPoint == {<<"mint", 1>>, <<"pay", 1>>, <<"pay", 2>>, <<"fire", 1>>, <<"call", 1>>, <<"call", 2>>}

Mint(output)  == [id |-> "mint", inputs |-> <<>>, outputs |-> <<output>>, contract |-> FALSE]
Pay(outputs)  == [id |-> "pay", inputs |-> << <<"mint", 1>> >>, outputs |-> outputs, contract |-> FALSE]
Fire          == [id |-> "fire", inputs |-> << <<"mint", 1>> >>, outputs |-> <<Burn>>, contract |-> FALSE]
Call(outputs) == [id |-> "call", inputs |-> << <<"pay", 1>> >>, outputs |-> outputs, contract |-> TRUE]

MCByte == {0, 1}

\* The raw instance: keys of two bits.
RawSupplyKey == <<0, 0>>
RawOutPoint == {<<"mint", 1>>, <<"pay", 1>>, <<"fire", 1>>}
RawKeyOf == [op \in RawOutPoint |->
               CASE op[1] = "mint" -> <<0, 1>>
                 [] op[1] = "pay"  -> <<1, 0>>
                 [] op[1] = "fire" -> <<1, 1>>]
RawTransactions == {Mint(Coin), Pay(<<Coin>>), Fire, Call(<<>>)}
RawBlocks == {<<Mint(Coin)>>, <<Mint(Coin), Pay(<<Coin>>)>>, <<Pay(<<Coin>>), Call(<<>>)>>, <<Fire>>}
AnyKeys == {<<0, 0>>, <<0, 1>>}

\* The forward instance: keys of three bits.
ForwardSupplyKey == <<0, 0, 0>>
ForwardKeyOf == [op \in MCOutPoint |->
                   CASE op = <<"mint", 1>> -> <<0, 1, 0>>
                     [] op = <<"pay", 1>>  -> <<0, 1, 1>>
                     [] op = <<"pay", 2>>  -> <<1, 0, 0>>
                     [] op = <<"call", 1>> -> <<1, 0, 1>>
                     [] op = <<"call", 2>> -> <<1, 1, 0>>
                     [] op = <<"fire", 1>> -> <<1, 1, 1>>]
ForwardTransactions == {Mint(Two), Pay(<<Coin, Coin>>), Fire, Call(<<Coin, Coin>>)}
ForwardBlocks ==
  {<<Mint(Two)>>, <<Pay(<<Coin, Coin>>)>>, <<Call(<<Coin, Coin>>)>>, <<Fire>>,
   <<Pay(<<Coin, Coin>>), Fire>>, <<Pay(<<Coin, Coin>>), Call(<<Coin, Coin>>)>>}
RepeatBlocks == {<<Mint(Two), Mint(Two)>>}
OwnKeys == {<<0, 0, 1>>}

\* A coinbase can be created again once pruned; what was paid for cannot.
Paid == MCOutPoint \ {<<"mint", 1>>}
=============================================================================
