---------------------------- MODULE MCBatchVerify ----------------------------
(***************************************************************************)
(* An instance of BatchVerify: every batch of up to six items in chunks of *)
(* two, so one chunk without a thread, and two or three threads, the last  *)
(* with a short chunk or a full one.                                       *)
(***************************************************************************)
EXTENDS BatchVerify, SequencesExt

MCBatches == BoundedSeq(BOOLEAN, MaxItems)
=============================================================================
