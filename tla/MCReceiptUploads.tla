-------------------------- MODULE MCReceiptUploads --------------------------
(* Instance of ReceiptUploads for TLC. *)
EXTENDS ReceiptUploads, TLC

CONSTANTS f1, f2, r1, r2

Alike == Permutations(Files) \cup Permutations(Runs)
=============================================================================
