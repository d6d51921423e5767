--------------------------- MODULE MCStandaloneTree ---------------------------
(***************************************************************************)
(* Instance of StandaloneTree: keys of three bits, two of them below the   *)
(* same bottom node and a third below the same inner node, and a UTXO set  *)
(* in which two outputs have the same address and index.                   *)
(***************************************************************************)
EXTENDS StandaloneTree

CONSTANTS d1, d2

MCByte == {0, 1}
MCKeys == {<<0, 0, 0>>, <<0, 0, 1>>, <<0, 1, 0>>}
MCTotalSupplyKey == <<1, 1, 1>>
MCNone == {}
MCUtxoSets == {{}, {<<"a", <<0, 0, 0>>, d1>>, <<"b", <<0, 0, 0>>, d2>>, <<"c", <<0, 1, 0>>, d1>>}}
=============================================================================
