---------------------------- MODULE MCVerkleTree ----------------------------
(***************************************************************************)
(* Instance of VerkleTree: keys of three bits, so that a cleanup can cross *)
(* two levels and a pruned path can be re-entered at two depths.           *)
(***************************************************************************)
EXTENDS VerkleTree, TLC

CONSTANTS d1, burn

MCByte == {0, 1}
MCKeys == {<<0, 0, 1>>, <<0, 1, 0>>, <<1, 0, 0>>}
MCTotalSupplyKey == <<0, 0, 0>>
MCBatch == {<<>>, <<0, 0, 1>> :> d1, <<0, 1, 1>> :> burn}
MCData == {d1, burn}
MCBurnData == {burn}
=============================================================================
