-------------------------- MODULE MCBlockchainState --------------------------
(***************************************************************************)
(* An instance of BlockchainState: any block of up to three of these       *)
(* transactions.  A coinbase; a payment that splits its output; one that   *)
(* joins the parts and one that claims to join a part with itself; one     *)
(* whose outputs overflow; one that burns.                                 *)
(***************************************************************************)
EXTENDS BlockchainState

Out(value) == [value |-> value, burn |-> FALSE]
Tx(id, inputs, outputs) == [id |-> id, inputs |-> inputs, outputs |-> outputs, signed |-> TRUE]

Mint  == Tx("mint", <<>>, <<Out(2)>>)
Split == Tx("split", << <<"mint", 1>> >>, <<Out(1), Out(1)>>)
Join  == Tx("join", << <<"split", 1>>, <<"split", 2>> >>, <<Out(2)>>)
Twice == Tx("twice", << <<"split", 1>>, <<"split", 1>> >>, <<Out(1)>>)
Wrap  == Tx("wrap", << <<"split", 2>> >>, <<Out(2), Out(3)>>)
Burn  == Tx("burn", << <<"join", 1>> >>, <<[value |-> 1, burn |-> TRUE]>>)

MCTransactions == {Mint, Split, Join, Twice, Wrap, Burn}
MCOutPoint == UNION {Outputs(tx) : tx \in MCTransactions}
MCBlocks == BoundedSeq(MCTransactions, 3)
MCMarkable == {<<"split", 1>>}
=============================================================================
