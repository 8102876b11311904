-------------------------- MODULE MCRecurringDrafts --------------------------
(* Instance of RecurringDrafts for TLC: months of two days and one, rules *)
(* that fall due every day, every other day or every month.                 *)
EXTENDS RecurringDrafts, TLC

CONSTANTS q1, q2, r1, r2

Months == <<2, 1>>
Daily == [months |-> 0, days |-> 1]
Monthly == [months |-> 1, days |-> 0]
Offered == {Daily, Monthly}
First == [q \in Rules |-> [next |-> 0, interval |-> IF q = q1 THEN Daily ELSE Monthly]]
=============================================================================
