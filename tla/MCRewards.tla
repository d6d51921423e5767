------------------------------- MODULE MCRewards -------------------------------
(***************************************************************************)
(* Instance of Rewards: two blocks per halving, a cap that is reached in   *)
(* the middle of a halving, a payment of the first coinbase with a fee     *)
(* together with a contract call that pays for gas, or no payments; two    *)
(* blocks under way.                                                       *)
(***************************************************************************)
EXTENDS Rewards

Tx(id, inputs, value, gas_limit, max_fee_per_gas) ==
  [id |-> <<id, <<>>, <<>>>>, inputs |-> inputs, outputs |-> <<Pay(value)>>, signed |-> TRUE,
   gas_limit |-> gas_limit, max_fee_per_gas |-> max_fee_per_gas]

First == CreateCoinbase("alice", NoPool, 0, 3)
Spend == Tx("spend", << <<First.id, 1>> >>, 2, 0, 0)
Call  == Tx("call", << <<Spend.id, 1>> >>, 2, 1, 2)

MCBodies == {<<>>, <<Spend, Call>>}
MCNoBodies == {<<>>}
MCMiners == {"alice"}
MCPools == {"pool"}
MCTransactions ==
  {Spend, Call} \cup
    {CreateCoinbase("alice", pool, nodes, total) : pool \in MCPools, nodes \in {0, 1}, total \in 0..MaxValue}
MCOutPoint == UNION {Outputs(tx) : tx \in MCTransactions}
=============================================================================
