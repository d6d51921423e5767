--------------------------- MODULE MCContractGas ---------------------------
(***************************************************************************)
(* Instance of ContractGas with the costs scaled down: a limit below the   *)
(* intrinsic gas, one the payload exhausts, and two that let a run write   *)
(* both keys; refunds that exceed a fifth of the gas used.                 *)
(***************************************************************************)
EXTENDS ContractGas

CONSTANTS s1, s2
MCSlot == {s1, s2}
=============================================================================
