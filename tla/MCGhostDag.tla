----------------------------- MODULE MCGhostDag -----------------------------
(***************************************************************************)
(* Instances of GhostDag: five blocks, the genesis among the hashes of the *)
(* others, and k = 1, for which five blocks are the least that give a red  *)
(* block, a stale label and two orderings.                                 *)
(***************************************************************************)
EXTENDS GhostDag

MCHash == 1..5
=============================================================================
