----------------------------- MODULE TokenFamily -----------------------------
(***************************************************************************)
(* What the rotation of refresh tokens promises, without calls, jars or    *)
(* users: a family hands on one token, which is either good or just being  *)
(* exchanged for the next; a family that has neither is gone for ever.     *)
(***************************************************************************)
EXTENDS Integers

VARIABLES
    good,       \* the pairs <<family, token>> of the tokens that are good
    passing,    \* the families with a token claimed, its successor not made
    made        \* how many tokens there have been

vars == <<good, passing, made>>
Going == {p[1] : p \in good} \cup passing       \* families that are not gone

Init == good = {} /\ passing = {} /\ made = 0

(* A sign-in begins a family. *)
Begin ==
    /\ made' = made + 1
    /\ good' = good \cup {<<made + 1, made + 1>>}
    /\ UNCHANGED passing

(* The good token of a family is claimed, and with it the family's turn. *)
Take(p) ==
    /\ p \in good
    /\ good' = good \ {p}
    /\ p[1] \notin {q[1] : q \in good'} \cup passing
    /\ passing' = passing \cup {p[1]}
    /\ UNCHANGED made

(* Its successor is made. *)
Give(f) ==
    /\ f \in passing /\ f \notin {p[1] : p \in good}
    /\ passing' = passing \ {f}
    /\ good' = good \cup {<<f, made + 1>>}
    /\ made' = made + 1

(* Tokens are revoked, exchanges are given up. *)
Drop ==
    /\ good' \subseteq good /\ passing' \subseteq passing
    /\ UNCHANGED made

Next == Begin \/ (\E p \in good : Take(p)) \/ (\E f \in passing : Give(f)) \/ Drop

Spec == Init /\ [][Next]_vars
=============================================================================
