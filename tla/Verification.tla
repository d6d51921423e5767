----------------------------- MODULE Verification -----------------------------
(***************************************************************************)
(* What batch_verify promises its caller: one answer, in the end, and it   *)
(* is "accepted" exactly when every item verifies.  Nothing of chunks,     *)
(* threads or the channel shows.                                           *)
(***************************************************************************)
EXTENDS Integers, Sequences

VARIABLES items,    \* for each signature to check, whether it verifies
          answer

AllVerify == \A i \in DOMAIN items : items[i]

Init == items \in Seq(BOOLEAN) /\ answer = "none"

Decide ==
  /\ answer = "none"
  /\ answer' = IF AllVerify THEN "accepted" ELSE "rejected"
  /\ UNCHANGED items

Spec == Init /\ [][Decide]_<<items, answer>> /\ WF_<<items, answer>>(Decide)
=============================================================================
