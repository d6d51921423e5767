----------------------------- MODULE MCScheduler -----------------------------
(***************************************************************************)
(* An instance of Scheduler with blocks between the plans: a coinbase and  *)
(* the payment that spends it, whose id comes first, so that a plan        *)
(* applies it first; two contracts with a slot in common, one of which     *)
(* spends the payment, and one with a slot of its own.                     *)
(***************************************************************************)
EXTENDS Scheduler

CONSTANTS bytes

Coin == [value |-> 1, owner |-> "alice"]
Mint == [id |-> "mint", inputs |-> <<>>, outputs |-> <<Coin>>, contract |-> FALSE]
Pay  == [id |-> "pay", inputs |-> << <<"mint", 1>> >>, outputs |-> <<Coin>>, contract |-> FALSE]
Call == [id |-> "call", inputs |-> << <<"pay", 1>> >>, outputs |-> <<>>, contract |-> TRUE]
Init1 == [id |-> "init", inputs |-> <<>>, outputs |-> <<>>, contract |-> TRUE]
Other == [id |-> "other", inputs |-> <<>>, outputs |-> <<>>, contract |-> TRUE]

MCByte == {0, 1}
MCData == {Coin, bytes}
MCOutPoint == {<<"mint", 1>>, <<"pay", 1>>}
MCKeyOf == [op \in MCOutPoint |-> IF op[1] = "mint" THEN <<0, 1>> ELSE <<1, 0>>]
MCSupplyKey == <<0, 0>>
MCTransactions == {Mint, Pay, Call, Init1, Other}
MCBlocks == {<<Mint>>, <<Mint, Pay>>}
MCContractKeys == {<<1, 1>>}
MCSlots == [tx \in MCTransactions |->
              CASE tx \in {Call, Init1} -> {<<"slot", 1>>, <<"slot", 2>>}
                [] tx = Other -> {<<"slot", 2>>, <<"slot", 3>>}
                [] OTHER -> {}]
MCWriteOnly == [tx \in MCTransactions |->
                  CASE tx \in {Call, Init1} -> {<<"contract", 1>>}
                    [] tx = Other -> {<<"contract", 2>>}
                    [] OTHER -> {}]
MCIdOrder == [id \in {"pay", "call", "init", "other", "mint"} |->
                CASE id = "pay" -> 1 [] id = "init" -> 2 [] id = "mint" -> 3
                  [] id = "call" -> 4 [] id = "other" -> 5]
MCPools == BoundedSeq(MCTransactions, 3)
MCOutput == {Coin}
MCNone == {}
=============================================================================
