------------------------------- MODULE Ledger -------------------------------
(***************************************************************************)
(* The account balances of the server.  A balance is kept by adding and    *)
(* taking away: a request loads the documents it needs, works out what to  *)
(* write, and writes document by document with awaits in between, without  *)
(* a transaction.  POST /accounts/:id/recompute-balance adds everything up *)
(* from scratch (shared/src/balances.ts); that sum is what a balance is    *)
(* meant to be.  Money is in minor units; scopes, categories, tags and the *)
(* lines of a split (which no balance counts) are left out.                *)
(***************************************************************************)
EXTENDS Integers, Sequences, FiniteSets, Functions

CONSTANTS
    Accounts, Txs,
    Requests,       \* the requests the server works on at a time
    Amounts,
    Entered,        \* what users enter: entries with no pair
    Books,          \* the transactions a behaviour may start with
    MaxStarts,      \* bound: how many requests arrive
    NoTx

ASSUME AmountsAssumption == Amounts \subseteq Nat \ {0}
ASSUME StartsAssumption == MaxStarts \in Nat
ASSUME NoTxAssumption == NoTx \notin Txs
(* An _id names one document. *)
ASSUME ApartAssumption == Accounts \cap Txs = {}
ASSUME FiniteAssumption == IsFiniteSet(Txs) /\ IsFiniteSet(Requests)

VARIABLES
    account,    \* account[a]: the document of a
    tx,         \* tx[t]: the document of t
    request,    \* request[r]: what r has loaded and still has to write
    doubted,    \* history: accounts whose balance something has upset
    starts

vars == <<account, tx, request, doubted, starts>>

(* early: dated before the day an openingBalanceDate names; tied: a leg    *)
(* whose pair was created in the same millisecond; out, in: the legs of a  *)
(* transfer, both stored with type "transfer".                             *)
Kinds == {"income", "expense", "out", "in"}
Entries == [state: {"none", "live", "gone"}, acc: Accounts, kind: Kinds,
            amount: Amounts, early: BOOLEAN, status: {"posted", "draft"},
            recurring: BOOLEAN, pair: Txs \cup {NoTx}, tied: BOOLEAN]
AccountDocs == [bal: Int, opening: Int, cut: BOOLEAN,
                type: {"asset", "credit"}, archived: BOOLEAN]

IsLeg(e) == e.kind \in {"out", "in"}
Paired(e) == IsLeg(e) /\ e.pair # NoTx

ASSUME EnteredAssumption ==
    Entered \subseteq {e \in Entries : e.state = "live" /\ e.pair = NoTx}

(* The legs of a transfer are in two accounts and of the two directions,   *)
(* and no rule makes drafts of transfers.                                  *)
Twin(e, other) ==
    /\ other.state # "none" /\ other.acc # e.acc
    /\ {e.kind, other.kind} = {"out", "in"}
WellPaired(book) ==
    \A t \in Txs : book[t].state # "none" =>
        /\ Paired(book[t]) => Twin(book[t], book[book[t].pair])
        /\ book[t].recurring => ~IsLeg(book[t])

ASSUME BooksAssumption == Books \subseteq {b \in [Txs -> Entries] : WellPaired(b)}
-----------------------------------------------------------------------------
(* getBalanceDeltaMajor, getTransferInDelta and getTransferOutDelta. *)
Sign(kind, type) ==
    (IF kind \in {"income", "in"} THEN 1 ELSE -1)
    * (IF type = "credit" THEN -1 ELSE 1)

(* accountCountsTransactionDate: with an openingBalanceDate, what is dated *)
(* before it is part of the opening balance already.                       *)
Delta(doc, e) ==
    IF doc.cut /\ e.early THEN 0 ELSE Sign(e.kind, doc.type) * e.amount

Booked(e, a) == e.state = "live" /\ e.status = "posted" /\ e.acc = a
Share(a, doc, e) == IF Booked(e, a) THEN Delta(doc, e) ELSE 0

(* The direction of a leg is told from which of the two is older, and the  *)
(* pair is looked up among the live transactions only.                     *)
IsInbound(e) == e.pair # NoTx /\ tx[e.pair].state = "live" /\ ~e.tied
AsRead(e) ==
    IF e.kind = "in" /\ ~IsInbound(e) THEN [e EXCEPT !.kind = "out"] ELSE e

(* recomputeAccountBalance over the posted transactions of a. *)
Recomputed(a, doc) ==
    doc.opening + SumFunction([t \in Txs |-> Share(a, doc, AsRead(tx[t]))])

Truth(a) ==
    account[a].opening + SumFunction([t \in Txs |-> Share(a, account[a], tx[t])])
-----------------------------------------------------------------------------
(* What a request still has to write, one await each. *)
Insert(t, e) == [do |-> "insert", tx |-> t, entry |-> e]
Change(t, from, to) == [do |-> "change", tx |-> t, from |-> from, to |-> to]
Bury(ts) == [do |-> "bury", txs |-> ts]
Put(a, value) == [do |-> "put", acc |-> a, bal |-> value]

(* save() sends nothing for a document that was not modified. *)
PutIfNew(a, before, value) == IF value = before THEN <<>> ELSE <<Put(a, value)>>
PutIfMoved(a, value) == PutIfNew(a, account[a].bal, value)

(* rest: what a bulk delete has loaded and not come to. *)
Idle == [op |-> "none", todo |-> <<>>, tx |-> NoTx, loaded |-> {}, rest |-> {},
         holds |-> {}, on |-> {}, wrote |-> FALSE, moved |-> FALSE,
         stale |-> FALSE, wrong |-> FALSE]

(* A request that goes on with the writes of todo; wrong: it upsets the    *)
(* accounts it is on whatever else happens.                                *)
Planned(r, old, op, todo, holds, on, wrong) ==
    request' = [request EXCEPT ![r] =
        [old EXCEPT !.op = op, !.todo = todo, !.holds = @ \cup holds,
                    !.on = on, !.wrong = wrong, !.loaded = {}]]

Begins(r) ==
    /\ request[r].op = "none" /\ starts < MaxStarts
    /\ starts' = starts + 1
    /\ UNCHANGED <<account, tx, doubted>>

(* createTransactionForUser: the account is loaded and checked, then the   *)
(* transaction inserted, then the balance saved, whatever the status.      *)
Create(r, t, e) ==
    LET a == e.acc IN
    /\ Begins(r)
    /\ ~IsLeg(e) /\ ~account[a].archived
    /\ Planned(r, Idle, "create",
               <<Insert(t, e)>>
               \o PutIfMoved(a, account[a].bal + Delta(account[a], e)),
               {a, t}, {a}, e.status = "draft")

(* applyTransactionTemplate adds what it inserts to the balance whatever   *)
(* its date.                                                               *)
ApplyTemplate(r, t, e) ==
    LET a == e.acc IN
    /\ Begins(r)
    /\ ~IsLeg(e) /\ e.status = "posted" /\ ~account[a].archived
    /\ Planned(r, Idle, "create",
               <<Insert(t, e),
                 Put(a, account[a].bal + Sign(e.kind, account[a].type) * e.amount)>>,
               {a, t}, {a}, account[a].cut /\ e.early)

(* commitImport: the account is loaded once, then each row that is no      *)
(* duplicate is inserted and added to the same copy.  (One row is Create;  *)
(* a row merged into an older transaction is Touch.)                       *)
Import(r, t, u, e, f) ==
    LET a == e.acc
        first == account[a].bal + Delta(account[a], e)
    IN
    /\ Begins(r)
    /\ t # u /\ f.acc = a /\ {e.status, f.status} = {"posted"}
    /\ ~IsLeg(e) /\ ~IsLeg(f) /\ ~account[a].archived
    /\ Planned(r, Idle, "import",
               <<Insert(t, e)>> \o PutIfMoved(a, first)
               \o <<Insert(u, f)>>
               \o PutIfNew(a, first, first + Delta(account[a], f)),
               {a, t, u}, {a}, FALSE)

(* generateDraftsForRule inserts a draft and leaves the balance alone. *)
NewDraft(r, t, e) ==
    /\ Begins(r)
    /\ ~IsLeg(e) /\ e.status = "draft" /\ e.recurring
    /\ ~account[e.acc].archived
    /\ Planned(r, Idle, "draft", <<Insert(t, e)>>, {t}, {e.acc}, FALSE)

(* createTransfer, createTransferForOp: two legs, the older one pointed at *)
(* the younger, then the two accounts.                                     *)
Transfer(r, t, u, e, b, tied) ==
    LET a == e.acc
        outbound == [e EXCEPT !.kind = "out", !.tied = tied]
        inbound == [outbound EXCEPT !.kind = "in", !.acc = b, !.pair = t]
    IN
    /\ Begins(r)
    /\ a # b /\ t # u
    /\ ~account[a].archived /\ ~account[b].archived
    /\ Planned(r, Idle, "transfer",
               <<Insert(t, outbound), Insert(u, inbound),
                 Change(t, outbound, [outbound EXCEPT !.pair = u])>>
               \o PutIfMoved(a, account[a].bal + Delta(account[a], outbound))
               \o PutIfMoved(b, account[b].bal + Delta(account[b], inbound)),
               {a, b, t, u}, {a, b}, e.status = "draft")
-----------------------------------------------------------------------------
(* The other requests load their transaction first. *)
Open(r, t, op) ==
    /\ Begins(r)
    /\ tx[t].state = "live"
    /\ request' = [request EXCEPT ![r] =
          [Idle EXCEPT !.op = op, !.tx = t, !.loaded = {tx[t]},
                       !.holds = {t}, !.on = {tx[t].acc}]]

(* bulkDeleteTransactions loads and checks all it is to delete before it   *)
(* deletes the first; of a transfer it deletes both legs at once.          *)
OpenBulk(r, t, u) ==
    /\ Begins(r)
    /\ t # u /\ {tx[t].state, tx[u].state} = {"live"}
    /\ tx[t].pair # u \/ ~IsLeg(tx[t])
    /\ request' = [request EXCEPT ![r] =
          [Idle EXCEPT !.op = "delete", !.tx = t, !.loaded = {tx[t]},
                       !.rest = {<<u, tx[u]>>}, !.holds = {t, u},
                       !.on = {tx[t].acc}]]

Opened(r, op) == request[r].op = op /\ request[r].loaded # {}
Copy(r) == CHOOSE e \in request[r].loaded : TRUE
Goes(r, todo, holds, on, wrong) ==
    /\ Planned(r, request[r], "write", todo, holds, on, wrong)
    /\ UNCHANGED <<account, tx, doubted, starts>>

(* updateTransactionForUser: if type, amount, account or date change, the  *)
(* old contribution is taken from the old account and the new one added to *)
(* the new one, before the transaction itself is saved.                    *)
Update(r, e) ==
    LET t == request[r].tx
        old == Copy(r)
        a == old.acc
        b == e.acc
        back == account[a].bal - Delta(account[a], old)
        changed == <<old.kind, old.amount, old.acc, old.early>>
                   # <<e.kind, e.amount, e.acc, e.early>>
        puts == IF ~changed THEN <<>>
                ELSE IF a = b
                THEN PutIfMoved(a, back)
                     \o (IF Delta(account[a], e) = 0 THEN <<>>
                         ELSE <<Put(a, back + Delta(account[a], e))>>)
                ELSE PutIfMoved(a, back)
                     \o PutIfMoved(b, account[b].bal + Delta(account[b], e))
    IN
    /\ Opened(r, "update")
    /\ ~IsLeg(old)
    /\ e.kind \in {"income", "expense"}
    /\ b # a => ~account[b].archived
    /\ Goes(r, puts \o <<Change(t, old, e)>>, {a, b}, {a, b},
            (changed /\ old.status = "draft") \/ e.status # old.status)

(* deleteTransactionForUser.  Of a transfer the leg that is not younger    *)
(* than the other one is taken for the outbound one, and only legs the     *)
(* caller wrote himself are buried.                                        *)
DeleteTransfer(r, own) ==
    LET t == request[r].tx
        e == Copy(r)
        u == e.pair
        out == IF e.kind = "out" \/ e.tied THEN e ELSE tx[u]
        in == IF out = e THEN tx[u] ELSE e
        DeltaOf(leg, kind) == Delta(account[leg.acc],
                                    [e EXCEPT !.kind = kind])
    IN
    /\ Opened(r, "delete") /\ Paired(e)
    /\ tx[u].state = "live"
    /\ ~account[out.acc].archived /\ ~account[in.acc].archived
    /\ Goes(r, PutIfMoved(out.acc,
                          account[out.acc].bal - DeltaOf(out, "out"))
               \o PutIfMoved(in.acc, account[in.acc].bal - DeltaOf(in, "in"))
               \o (IF own THEN <<Bury({t, u})>> ELSE <<>>),
            {u, out.acc, in.acc}, {out.acc, in.acc},
            \/ ~own \/ e.status = "draft" \/ (e.tied /\ e.kind = "in")
            \/ <<e.amount, e.early, e.status>>
               # <<tx[u].amount, tx[u].early, tx[u].status>>)

Delete(r) ==
    LET t == request[r].tx
        e == Copy(r)
    IN
    /\ Opened(r, "delete") /\ ~Paired(e)
    /\ ~account[e.acc].archived
    /\ Goes(r, PutIfMoved(e.acc, account[e.acc].bal - Delta(account[e.acc], e))
               \o <<Bury({t})>>,
            {e.acc}, {e.acc}, e.status = "draft")

(* duplicateTransaction: a copy dated now, with the status of the original.*)
Duplicate(r, u) ==
    LET a == Copy(r).acc
        e == [Copy(r) EXCEPT !.early = FALSE, !.recurring = FALSE]
    IN
    /\ Opened(r, "duplicate") /\ ~IsLeg(e)
    /\ ~account[a].archived
    /\ Goes(r, <<Insert(u, e)>>
               \o PutIfMoved(a, account[a].bal + Delta(account[a], e)),
            {a, u}, {a}, e.status = "draft")

(* Slips of the kind the code avoids, here and below: the date of a draft  *)
(* not looked at, a status that is none, a save of the whole document.     *)
ConfirmOfAnyDate(r) ==
    LET t == request[r].tx
        e == Copy(r)
        a == e.acc
    IN
    /\ Opened(r, "confirm") /\ e.status = "draft" /\ e.recurring
    /\ ~account[a].archived
    /\ Goes(r, <<Change(t, e, [e EXCEPT !.status = "posted"])>>
               \o PutIfMoved(a, account[a].bal
                                + Sign(e.kind, account[a].type) * e.amount),
            {a}, {a}, FALSE)

(* confirmRecurringDraft: posted first, then added to the balance. *)
Confirm(r) ==
    LET t == request[r].tx
        e == Copy(r)
        a == e.acc
    IN
    /\ Opened(r, "confirm") /\ e.status = "draft" /\ e.recurring
    /\ ~account[a].archived
    /\ Goes(r, <<Change(t, e, [e EXCEPT !.status = "posted"])>>
               \o PutIfMoved(a, account[a].bal + Delta(account[a], e)),
            {a}, {a}, FALSE)

(* dismissRecurringDraft *)
Dismiss(r) ==
    LET t == request[r].tx
        e == Copy(r)
    IN
    /\ Opened(r, "dismiss") /\ e.status = "draft" /\ e.recurring
    /\ Goes(r, <<Change(t, e, [e EXCEPT !.state = "gone"])>>,
            {}, {e.acc}, FALSE)

(* updateClearedStatus of the reconciliation, and mergeImportIntoTransaction*)
(* of an import: a save of what no balance counts.                         *)
Touch(r) ==
    /\ Opened(r, "touch")
    /\ Planned(r, request[r], "touched",
               <<Change(request[r].tx, Copy(r), Copy(r))>>, {}, {Copy(r).acc}, FALSE)
    /\ UNCHANGED <<account, tx, doubted, starts>>

(* updateTransactionForOp and deleteTransactionForOp leave the balance to  *)
(* a later recompute.                                                      *)
UpdateForOp(r, e) ==
    /\ Opened(r, "updateForOp")
    /\ e.kind = Copy(r).kind /\ e.acc = Copy(r).acc
    /\ Goes(r, <<Change(request[r].tx, Copy(r), e)>>, {}, {e.acc}, TRUE)

DeleteForOp(r) ==
    LET e == Copy(r)
        both == {request[r].tx} \cup (IF Paired(e) THEN {e.pair} ELSE {})
    IN
    /\ Opened(r, "deleteForOp")
    /\ Goes(r, <<Bury(both)>>, {}, {tx[t].acc : t \in both}, TRUE)
-----------------------------------------------------------------------------
(* recomputeBalance and updateAccount load the account. *)
OpenAccount(r, a, doc, op) ==
    /\ Begins(r)
    /\ request' = [request EXCEPT ![r] =
          [Idle EXCEPT !.op = op, !.loaded = {doc}, !.holds = {a}, !.on = {a}]]

Recompute(r, a) == OpenAccount(r, a, account[a], "read")

(* updateAccount saves the fields; only a new opening balance or date is   *)
(* followed by a recompute, a new type is not.                             *)
EditAccount(r, a, doc) == ~doc.archived /\ OpenAccount(r, a, doc, "edit")

SaveAccount(r) ==
    LET a == CHOOSE x \in request[r].on : TRUE
        doc == Copy(r)
        again == <<doc.opening, doc.cut>>
                 # <<account[a].opening, account[a].cut>>
    IN
    /\ Opened(r, "edit")
    /\ account' = [account EXCEPT ![a].opening = doc.opening,
                                  ![a].cut = doc.cut, ![a].type = doc.type]
    /\ request' = [q \in Requests |->
          IF q = r THEN (IF again THEN [request[r] EXCEPT !.op = "read",
                                                          !.wrote = TRUE]
                         ELSE Idle)
          ELSE [request[q] EXCEPT !.stale = @ \/ a \in request[q].holds]]
    /\ doubted' = IF doc.type # account[a].type \/ request[r].stale
                  THEN doubted \cup {a} ELSE doubted
    /\ UNCHANGED <<tx, starts>>

(* The transactions and the pairs of their legs are read; the sum is saved *)
(* one await later.  It misreads an inbound leg that is as old as its pair *)
(* or has outlived it.                                                     *)
Read(r) ==
    LET a == CHOOSE x \in request[r].on : TRUE
        sum == Recomputed(a, Copy(r))
        misread == \E t \in Txs : Booked(tx[t], a) /\ AsRead(tx[t]) # tx[t]
    IN
    /\ Opened(r, "read")
    /\ IF sum # Copy(r).bal
       THEN /\ Planned(r, request[r], "recompute", <<Put(a, sum)>>, Txs, {a},
                       misread)
            /\ UNCHANGED doubted
       ELSE /\ request' = [request EXCEPT ![r] = Idle]
            /\ doubted' = IF \/ misread \/ request[r].stale
                             \/ \E q \in Requests \ {r} : a \in request[q].on
                          THEN doubted \cup {a} ELSE doubted \ {a}
    /\ UNCHANGED <<account, tx, starts>>

Archive(a) ==
    /\ ~account[a].archived
    /\ account' = [account EXCEPT ![a].archived = TRUE]
    /\ UNCHANGED <<tx, request, doubted, starts>>
-----------------------------------------------------------------------------
Step(r) == Head(request[r].todo)

Written(r) ==
    CASE request[r].op = "touched" -> {}
      [] request[r].op # "touched" /\ Step(r).do \in {"insert", "change"} -> {Step(r).tx}
      [] Step(r).do = "bury" -> Step(r).txs
      [] Step(r).do = "put" -> {Step(r).acc}

MergedWhole(now, from, to) == to

(* save() writes the modified fields only. *)
Saved(now, from, to) == IF from = to THEN now ELSE to
Merged(now, from, to) ==
    [state |-> Saved(now.state, from.state, to.state),
     acc |-> Saved(now.acc, from.acc, to.acc),
     kind |-> Saved(now.kind, from.kind, to.kind),
     amount |-> Saved(now.amount, from.amount, to.amount),
     early |-> Saved(now.early, from.early, to.early),
     status |-> Saved(now.status, from.status, to.status),
     recurring |-> Saved(now.recurring, from.recurring, to.recurring),
     pair |-> Saved(now.pair, from.pair, to.pair),
     tied |-> Saved(now.tied, from.tied, to.tied)]

Store(r) ==
    LET s == Step(r) IN
    CASE s.do = "insert" ->
            tx' = [tx EXCEPT ![s.tx] = s.entry] /\ UNCHANGED account
      [] s.do = "change" ->
            /\ tx' = [tx EXCEPT ![s.tx] = Merged(@, s.from, s.to)]
            /\ UNCHANGED account
      [] s.do = "bury" ->
            /\ tx' = [t \in Txs |->
                  IF t \in s.txs /\ tx[t].state = "live"
                  THEN [tx[t] EXCEPT !.state = "gone"] ELSE tx[t]]
            /\ UNCHANGED account
      [] s.do = "put" ->
            account' = [account EXCEPT ![s.acc].bal = s.bal] /\ UNCHANGED tx

(* Everyone else who holds what is written works with an old copy now. *)
Outdate(r, written, own) ==
    request' = [q \in Requests |->
        IF q = r THEN own
        ELSE [request[q] EXCEPT
                 !.stale = @ \/ request[q].holds \cap written # {}]]

Upsets(r) == request[r].wrong \/ (request[r].stale /\ request[r].op # "touched")

(* The last write is made: the answer, or the next of a bulk delete. *)
Done(r) ==
    IF request[r].rest = {} THEN Idle
    ELSE LET next == CHOOSE p \in request[r].rest : TRUE
         IN  [Idle EXCEPT !.op = "delete", !.tx = next[1], !.loaded = {next[2]},
                          !.holds = {next[1]}, !.on = {next[2].acc},
                          !.stale = request[r].stale]

(* Stopped here a request leaves an account short of what it has booked;   *)
(* an import does not between two rows.                                    *)
Torn(r) ==
    request[r].wrote /\ (request[r].op = "import" => Step(r).do = "put")

Write(r) ==
    /\ request[r].todo # <<>>
    /\ Step(r).do = "insert" => tx[Step(r).tx].state = "none"
    /\ Store(r)
    /\ Outdate(r, Written(r),
               IF Len(request[r].todo) = 1 THEN Done(r)
               ELSE [request[r] EXCEPT !.todo = Tail(@), !.wrote = TRUE,
                                       !.moved = @ \/ Step(r).do = "put"])
    /\ doubted' = IF Upsets(r)
                  THEN doubted \cup request[r].on
                       \cup {tx[t].acc : t \in Written(r) \cap Txs}
                  ELSE IF request[r].op = "recompute"
                  THEN doubted \ request[r].on
                  ELSE doubted
    /\ UNCHANGED starts

(* A request fails: an insert whose _id is taken, a check, a write that    *)
(* throws.  Only a transfer takes back what it did, and only its legs.     *)
Made(r) ==
    IF request[r].op # "transfer" THEN {}
    ELSE (request[r].holds \cap Txs)
         \ {s.tx : s \in {x \in Range(request[r].todo) : x.do = "insert"}}

Fail(r) ==
    /\ request[r].op # "none"
    /\ tx' = [t \in Txs |->
          IF t \in Made(r) THEN [tx[t] EXCEPT !.state = "none"] ELSE tx[t]]
    /\ Outdate(r, Made(r), Idle)
    /\ doubted' = IF \/ request[r].moved /\ request[r].op = "transfer"
                     \/ Torn(r) /\ request[r].op # "transfer"
                     \/ Made(r) # {} /\ request[r].stale
                  THEN doubted \cup request[r].on ELSE doubted
    /\ UNCHANGED <<account, starts>>

(* The server stops; nothing is taken back. *)
Crash ==
    /\ \E r \in Requests : request[r].op # "none"
    /\ request' = [r \in Requests |-> Idle]
    /\ doubted' = doubted \cup UNION {request[r].on :
                                r \in {q \in Requests : Torn(q)}}
    /\ UNCHANGED <<account, tx, starts>>
-----------------------------------------------------------------------------
Plain == {e \in Entered : e.kind \in {"income", "expense"} /\ ~e.recurring}
Drafts == {e \in Entered : e.recurring}
Sent == {e \in Entered : e.kind = "out" /\ ~e.recurring}

(* An edit changes one field of a document. *)
Edited(doc, changes) ==
    UNION {{[doc EXCEPT ![f] = v] : v \in changes[f]} : f \in DOMAIN changes}
Edits(e) == Edited(e, [kind |-> {"income", "expense"}, amount |-> Amounts,
                       acc |-> Accounts, early |-> BOOLEAN,
                       status |-> {"posted", "draft"}])
AccountEdits(doc) == Edited(doc, [opening |-> {0, 1},
                                  cut |-> BOOLEAN, type |-> {"asset", "credit"}])
Loads == {"update", "delete", "duplicate", "confirm", "dismiss", "touch",
          "updateForOp", "deleteForOp"}

New == [bal |-> 0, opening |-> 0, cut |-> FALSE, type |-> "asset",
        archived |-> FALSE]

Init ==
    /\ tx \in Books
    /\ account = [a \in Accounts |->
          [New EXCEPT !.bal = SumFunction([t \in Txs |-> Share(a, New, tx[t])])]]
    /\ request = [r \in Requests |-> Idle]
    /\ doubted = {}
    /\ starts = 0

Arrives(r) ==
    \/ \E t \in Txs : tx[t].state = "none" /\
          \/ \E e \in Plain : Create(r, t, e) \/ ApplyTemplate(r, t, e)
          \/ \E u \in Txs, e, f \in Plain :
                tx[u].state = "none" /\ Import(r, t, u, e, f)
          \/ \E e \in Drafts : NewDraft(r, t, e)
          \/ \E u \in Txs, e \in Sent, b \in Accounts, tied \in BOOLEAN :
                tx[u].state = "none" /\ Transfer(r, t, u, e, b, tied)
    \/ \E t \in Txs, op \in Loads : Open(r, t, op)
    \/ \E t, u \in Txs : OpenBulk(r, t, u)
    \/ \E a \in Accounts : Recompute(r, a)
    \/ \E a \in Accounts : \E doc \in AccountEdits(account[a]) :
          EditAccount(r, a, doc)

Continues(r) ==
    \/ Opened(r, "update") /\ \E e \in Edits(Copy(r)) : Update(r, e)
    \/ \E own \in BOOLEAN : DeleteTransfer(r, own)
    \/ Delete(r)
    \/ \E u \in Txs : tx[u].state = "none" /\ Duplicate(r, u)
    \/ Confirm(r) \/ Dismiss(r) \/ Touch(r) \/ DeleteForOp(r)
    \/ Opened(r, "updateForOp") /\ \E e \in Edits(Copy(r)) : UpdateForOp(r, e)
    \/ SaveAccount(r) \/ Read(r) \/ Write(r) \/ Fail(r)

Next ==
    \/ \E r \in Requests : Arrives(r) \/ Continues(r)
    \/ \E a \in Accounts : Archive(a)
    \/ Crash

Spec == Init /\ [][Next]_vars
-----------------------------------------------------------------------------
TypeOK ==
    /\ account \in [Accounts -> AccountDocs]
    /\ tx \in [Txs -> Entries]
    /\ doubted \subseteq Accounts
    /\ starts \in 0..MaxStarts
    /\ \A r \in Requests : request[r].on \subseteq Accounts

(* "currentBalance cannot be set directly - the server derives it from     *)
(* openingBalance plus transaction activity" (accounts-api.md:35): when no *)
(* request is at work on an account and none of the named causes has upset *)
(* it since its last undisturbed recompute, what requests have added and   *)
(* taken away is what adding everything up gives (and all have their type).*)
DriftHasCause ==
    /\ TypeOK
    /\ \A a \in Accounts :
        \/ a \in doubted
        \/ \E r \in Requests : a \in request[r].on
        \/ account[a].bal = Truth(a)

(* A request that loaded a transaction before another one deleted it, and  *)
(* saves it afterwards, does not bring it back (softDeletePlugin.ts).      *)
DeletedStaysDeleted ==
    [][\A t \in Txs : tx[t].state = "gone" => tx'[t].state # "live"]_vars
=============================================================================
