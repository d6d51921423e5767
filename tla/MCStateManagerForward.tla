----------------------- MODULE MCStateManagerForward -----------------------
(***************************************************************************)
(* The forward instance of StateManager, which is one of ForwardWorkload.  *)
(***************************************************************************)
EXTENDS MCStateManager

ASSUME ForwardAssumption == ForwardWorkload
=============================================================================
