---------------------------- MODULE MCLocalStore ----------------------------
(* Instances of LocalStore for TLC. *)
EXTENDS LocalStore, TLC

CONSTANTS t1, t2, t3, c1, c2, r1, r2

(* Tasks, changes and rows are alike. *)
AllAlike ==
    Permutations(Tasks) \cup Permutations(Changes) \cup Permutations(Rows)
=============================================================================
