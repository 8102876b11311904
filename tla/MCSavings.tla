----------------------------- MODULE MCSavings -----------------------------
(***************************************************************************)
(* A weekly plan, monthly ones west of UTC without a day and with either   *)
(* day of its month, and one east of it.                                   *)
(***************************************************************************)
EXTENDS Savings, TLC

CONSTANTS r1, r2

MCPlans ==
    {[weekly |-> TRUE, zone |-> 0, day |-> 0], [weekly |-> FALSE, zone |-> -1, day |-> 0]} \cup
    {[weekly |-> FALSE, zone |-> 1, day |-> d] : d \in {0, 1, 2}}
RequestsAlike == Permutations(Requests)
=============================================================================
