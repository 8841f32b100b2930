--------------------------- MODULE MCBatchSigning ---------------------------
(* Instances of BatchSigning for TLC. *)
EXTENDS BatchSigning, TLC
=============================================================================
