----------------------------- MODULE MCBatcher -----------------------------
(***************************************************************************)
(* The instance of PostingBatcher that batcher.cfg checks.                 *)
(***************************************************************************)
EXTENDS PostingBatcher
=============================================================================
