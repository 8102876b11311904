------------------------------ MODULE MCLedger ------------------------------
(* Instance of Ledger for TLC: two accounts and two transactions.          *)
EXTENDS Ledger, TLC

CONSTANTS a1, a2, t1, t2, r1, r2

Entry(state, acc, kind, amount, early, status) ==
    [state |-> state, acc |-> acc, kind |-> kind, amount |-> amount,
     early |-> early, status |-> status, recurring |-> status = "draft",
     pair |-> NoTx, tied |-> FALSE]
Absent == Entry("none", a1, "income", 1, FALSE, "posted")

(* A draft of a rule, a draft the user entered, and posted ones. *)
MCEntered ==
    {Entry("live", a1, "expense", 1, TRUE, "draft"),
     Entry("live", a1, "expense", 1, TRUE, "posted"),
     [Entry("live", a1, "income", 1, FALSE, "draft") EXCEPT !.recurring = FALSE],
     Entry("live", a1, "out", 1, FALSE, "posted")}
(* Nothing, a posted expense, or the two legs of a transfer. *)
MCBooks ==
    {[t \in Txs |-> Absent]}
    \cup {[u \in Txs |-> IF u = t THEN Entry("live", a1, "expense", 1, FALSE, "posted")
                         ELSE Absent] : t \in Txs}
    \cup {t :> [Entry("live", a1, "out", 1, FALSE, "posted") EXCEPT !.pair = u]
          @@ u :> [Entry("live", a2, "in", 1, FALSE, "posted") EXCEPT !.pair = t] :
            <<t, u>> \in {<<t1, t2>>, <<t2, t1>>}}
Alike == Permutations(Requests) \cup Permutations(Txs)
=============================================================================
