------------------------------ MODULE SyncPush ------------------------------
(***************************************************************************)
(* The server side of POST /sync/push: the idempotency ledger that admits  *)
(* an operation, the per-document handlers that apply it, and the          *)
(* compare-and-set on updatedAt that decides between racing updates.       *)
(* Several requests are served at once; every await of the source is a     *)
(* point where another request may run, so each database round trip is an  *)
(* action of its own.                                                      *)
(*                                                                         *)
(* Source: backend/src/modules/sync/syncPush.service.ts and the delete     *)
(* helpers it calls.  One user's documents are modelled: an operation that *)
(* meets a document of another owner is answered "id_conflict" or          *)
(* "rejected" and changes nothing.                                         *)
(***************************************************************************)
EXTENDS Integers, Sequences, FiniteSets

CONSTANTS
    Handlers,       \* requests the server may be serving at the same time
    Ops,            \* operations (one opId each), sent any number of times
    Docs,           \* documents of one collection
    Kind,           \* Kind[op]: "create", "update" or "delete"
    Target,         \* Target[op]: the document op is about
    Family,         \* Family[d]: how the collection of d deletes
    Batches,        \* the op lists a request may carry
    MaxClock        \* bound on the readings of the clock, for TLC

Families == {"transaction", "tombstone", "archive"}
Kinds == {"create", "update", "delete"}

ASSUME OpsAssumption ==
    /\ Kind \in [Ops -> Kinds]
    /\ Target \in [Ops -> Docs]
    /\ Family \in [Docs -> Families]
ASSUME BatchAssumption ==
    Batches \subseteq Seq(Ops) /\ <<>> \notin Batches
ASSUME ClockAssumption == MaxClock \in Nat

VARIABLES
    exists,     \* exists[d]: a document with d's _id is stored
    removed,    \* removed[d]: it carries deletedAt, or its archive flag
    updatedAt,  \* updatedAt[d]: the version other devices compare against
    rewound,    \* history: documents a write stamped behind their version
    ledger,     \* ledger[op]: status of the SyncOperation row of op
    base,       \* base[op]: the baseUpdatedAt an update carries
    pc,         \* pc[h]: where handler h stands
    todo,       \* todo[h]: ops of the batch not yet answered
    seen,       \* seen[h]: the updatedAt handler h read
    bumped,     \* bumped[h]: the bumpedAt of its claim, then of its save
    outcome,    \* outcome[h]: status applyOp arrived at
    results,    \* results[h]: the results collected so far
    landed,     \* history: how often the effect of op reached its document
    told        \* history: the final statuses a device was given for op

docVars  == <<exists, removed, updatedAt, rewound>>
runVars  == <<pc, todo, seen, bumped, outcome, results>>
vars == <<docVars, ledger, base, runVars, landed, told>>

Unset == -1
Foreign == -2   \* a device's own timestamp: no version the server ever gave
Statuses == {"applied", "noop", "conflict", "id_conflict", "rejected"}
Final == {"applied", "noop", "conflict"}

(* Steps at which the handler owns the ledger row of its current op. *)
Working == {"apply", "insert", "cas", "fresh", "reload", "save", "raise",
            "remove", "settle", "release"}
Labels == Working \cup {"idle", "claim", "poll", "respond"}

TypeOK ==
    /\ exists \in [Docs -> BOOLEAN]
    /\ removed \in [Docs -> BOOLEAN]
    /\ updatedAt \in [Docs -> Nat]
    /\ rewound \subseteq Docs
    /\ ledger \in [Ops -> {"absent", "pending", "applied", "noop"}]
    /\ base \in [Ops -> Nat \cup {Unset, Foreign}]
    /\ pc \in [Handlers -> Labels]
    /\ todo \in [Handlers -> Seq(Ops)]
    /\ seen \in [Handlers -> Nat]
    /\ bumped \in [Handlers -> Nat]
    /\ outcome \in [Handlers -> Statuses]
    /\ results \in [Handlers -> SUBSET (Ops \X Statuses)]
    /\ landed \in [Ops -> 0..2]
    /\ told \in [Ops -> SUBSET Final]

-----------------------------------------------------------------------------
Op(h) == Head(todo[h])
Doc(h) == Target[Op(h)]
Goto(h, label) == pc' = [pc EXCEPT ![h] = label]

(* What Date.now() may give a step: the wall clock may have moved on, or   *)
(* stand still, or have been set back, and the next request may be served  *)
(* by a process with another clock.                                        *)
Stamps == 0..MaxClock

(* A save stamps the document with the wall clock, whatever version it     *)
(* had.  A version that is ahead of the clock goes back then, perhaps to   *)
(* one that another device has made its change against.                    *)
StampAt(d, t) ==
    /\ updatedAt' = [updatedAt EXCEPT ![d] = t]
    /\ rewound' = IF t < updatedAt[d] THEN rewound \cup {d} ELSE rewound

(* The effect of op reaches its document (counted up to 2). *)
Land(op) == landed' = [landed EXCEPT ![op] = IF @ = 0 THEN 1 ELSE 2]

(* applyOp returned or threw: what is left is the ledger row. *)
Outcome(h, status) ==
    /\ outcome' = [outcome EXCEPT ![h] = status]
    /\ Goto(h, IF status \in {"applied", "noop"} THEN "settle" ELSE "release")

(* The locals of the current op go out of scope. *)
Forget(h) ==
    /\ seen' = [seen EXCEPT ![h] = 0]
    /\ bumped' = [bumped EXCEPT ![h] = 0]
    /\ outcome' = [outcome EXCEPT ![h] = "rejected"]

(* The result of the current op is pushed and the loop turns to the next. *)
Report(h, status) ==
    /\ results' = [results EXCEPT ![h] = @ \cup {<<Op(h), status>>}]
    /\ todo' = [todo EXCEPT ![h] = Tail(@)]
    /\ Forget(h)
    /\ Goto(h, IF Tail(todo[h]) = <<>> THEN "respond" ELSE "claim")

(* A document that no op creates is there from the start. *)
Init ==
    /\ exists \in [Docs -> BOOLEAN]
    /\ \A d \in Docs : \/ exists[d]
                       \/ \E op \in Ops : Kind[op] = "create" /\ Target[op] = d
    /\ removed = [d \in Docs |-> FALSE]
    /\ updatedAt = [d \in Docs |-> 0]
    /\ rewound = {}
    /\ ledger = [op \in Ops |-> "absent"]
    /\ base = [op \in Ops |-> Unset]
    /\ pc = [h \in Handlers |-> "idle"]
    /\ todo = [h \in Handlers |-> <<>>]
    /\ seen = [h \in Handlers |-> 0]
    /\ bumped = [h \in Handlers |-> 0]
    /\ outcome = [h \in Handlers |-> "rejected"]
    /\ results = [h \in Handlers |-> {}]
    /\ landed = [op \in Ops |-> 0]
    /\ told = [op \in Ops |-> {}]

-----------------------------------------------------------------------------
(* A device captures an update against the updatedAt of its own row: the   *)
(* version it last pulled, or what it wrote there itself with an earlier   *)
(* change that is still in its queue.                                      *)
Compose(op) ==
    /\ Kind[op] = "update"
    /\ base[op] = Unset
    /\ \/ /\ exists[Target[op]] /\ ~removed[Target[op]]
          /\ base' = [base EXCEPT ![op] = updatedAt[Target[op]]]
       \/ base' = [base EXCEPT ![op] = Foreign]
    /\ UNCHANGED <<docVars, ledger, runVars, landed, told>>

Sendable(op) == Kind[op] = "update" => base[op] # Unset

(* A push request arrives: the first delivery, a retry after a lost        *)
(* response, or a second tab sending the same queue.                       *)
Receive(h, batch) ==
    /\ pc[h] = "idle"
    /\ \A i \in DOMAIN batch : Sendable(batch[i])
    /\ todo' = [todo EXCEPT ![h] = batch]
    /\ Goto(h, "claim")
    /\ UNCHANGED <<docVars, ledger, base, seen, bumped, outcome,
                   results, landed, told>>

(* claimSyncOperation: insert the pending row, or find it taken. *)
Claim(h) ==
    /\ pc[h] = "claim"
    /\ \/ /\ ledger[Op(h)] = "absent"
          /\ ledger' = [ledger EXCEPT ![Op(h)] = "pending"]
          /\ Goto(h, "apply")
       \/ /\ ledger[Op(h)] # "absent"
          /\ Goto(h, "poll")
          /\ UNCHANGED ledger
    /\ UNCHANGED <<docVars, base, todo, seen, bumped, outcome, results,
                   landed, told>>

(* Mutations of the actions below, each a slip the code guards against.    *)
PollTrustsPending(h) ==
    /\ pc[h] = "poll"
    /\ Report(h, IF ledger[Op(h)] = "absent" THEN "rejected" ELSE "applied")
    /\ UNCHANGED <<docVars, ledger, base, landed, told>>

PollWithoutDeadline(h) ==
    /\ pc[h] = "poll" /\ ledger[Op(h)] # "pending"
    /\ Report(h, IF ledger[Op(h)] = "absent" THEN "rejected" ELSE ledger[Op(h)])
    /\ UNCHANGED <<docVars, ledger, base, landed, told>>

(* The loser of the claim reads the row: settled, gone, or still pending   *)
(* at the deadline.  While it is pending before the deadline it waits.     *)
Poll(h) ==
    /\ pc[h] = "poll"
    /\ Report(h, IF ledger[Op(h)] \in {"applied", "noop"}
                 THEN ledger[Op(h)] ELSE "rejected")
    /\ UNCHANGED <<docVars, ledger, base, landed, told>>

-----------------------------------------------------------------------------
(* create: look the client's _id up, tombstones included. *)
ReadForCreate(h) ==
    /\ pc[h] = "apply" /\ Kind[Op(h)] = "create"
    /\ \/ ~exists[Doc(h)] /\ Goto(h, "insert") /\ UNCHANGED outcome
       \/ /\ exists[Doc(h)]
          /\ Outcome(h, IF removed[Doc(h)] /\ Family[Doc(h)] # "archive"
                        THEN "id_conflict" ELSE "noop")
    /\ UNCHANGED <<docVars, ledger, base, todo, seen, bumped, results,
                   landed, told>>

(* Insert under the client's _id; a duplicate key is an error. *)
Insert(h) ==
    /\ pc[h] = "insert"
    /\ \/ /\ ~exists[Doc(h)]
          /\ \E t \in Stamps : StampAt(Doc(h), t)
          /\ exists' = [exists EXCEPT ![Doc(h)] = TRUE]
          /\ Land(Op(h))
          /\ Outcome(h, "applied")
       \/ /\ exists[Doc(h)]
          /\ Outcome(h, "rejected")
          /\ UNCHANGED <<exists, updatedAt, rewound, landed>>
    /\ UNCHANGED <<removed, ledger, base, todo, seen, bumped, results, told>>

ReadWithoutJudging(h) ==
    /\ pc[h] = "apply" /\ Kind[Op(h)] = "update"
    /\ \/ ~exists[Doc(h)] /\ Outcome(h, "rejected") /\ UNCHANGED seen
       \/ /\ exists[Doc(h)]
          /\ seen' = [seen EXCEPT ![h] = updatedAt[Doc(h)]]
          /\ Goto(h, "cas")
          /\ UNCHANGED outcome
    /\ UNCHANGED <<docVars, ledger, base, todo, bumped, results,
                   landed, told>>

(* update: read the document and judge its version. *)
ReadForUpdate(h) ==
    /\ pc[h] = "apply" /\ Kind[Op(h)] = "update"
    /\ LET d == Doc(h)
           stale == \/ removed[d] /\ Family[d] # "archive"
                    \/ updatedAt[d] # base[Op(h)]
       IN \/ ~exists[d] /\ Outcome(h, "rejected") /\ UNCHANGED seen
          \/ exists[d] /\ stale /\ Outcome(h, "conflict") /\ UNCHANGED seen
          \/ /\ exists[d] /\ ~stale
             /\ seen' = [seen EXCEPT ![h] = updatedAt[d]]
             /\ Goto(h, "cas")
             /\ UNCHANGED outcome
    /\ UNCHANGED <<docVars, ledger, base, todo, bumped, results,
                   landed, told>>

SetWithoutCompare(h) ==
    /\ pc[h] = "cas"
    /\ \E t \in Stamps :
          LET at == IF t > seen[h] THEN t ELSE seen[h] + 1
          IN /\ bumped' = [bumped EXCEPT ![h] = at]
             /\ updatedAt' = [updatedAt EXCEPT ![Doc(h)] = at]
    /\ Goto(h, "reload")
    /\ UNCHANGED <<exists, removed, rewound, ledger, base, todo, seen,
                   outcome, results, landed, told>>

ClaimAtTheClock(h) ==
    /\ pc[h] = "cas"
    /\ \/ /\ updatedAt[Doc(h)] = seen[h]
          /\ \E t \in Stamps :
                /\ bumped' = [bumped EXCEPT ![h] = t]
                /\ updatedAt' = [updatedAt EXCEPT ![Doc(h)] = t]
          /\ Goto(h, "reload")
       \/ /\ updatedAt[Doc(h)] # seen[h]
          /\ Goto(h, "fresh")
          /\ UNCHANGED <<bumped, updatedAt>>
    /\ UNCHANGED <<exists, removed, rewound, ledger, base, todo, seen,
                   outcome, results, landed, told>>

(* The compare-and-set that claims the version this handler read, one past *)
(* it when the clock has not moved on.                                     *)
Cas(h) ==
    /\ pc[h] = "cas"
    /\ \/ /\ updatedAt[Doc(h)] = seen[h]
          /\ \E t \in Stamps :
                LET at == IF t > seen[h] THEN t ELSE seen[h] + 1
                IN /\ bumped' = [bumped EXCEPT ![h] = at]
                   /\ updatedAt' = [updatedAt EXCEPT ![Doc(h)] = at]
          /\ Goto(h, "reload")
       \/ /\ updatedAt[Doc(h)] # seen[h]
          /\ Goto(h, "fresh")
          /\ UNCHANGED <<bumped, updatedAt>>
    /\ UNCHANGED <<exists, removed, rewound, ledger, base, todo, seen,
                   outcome, results, landed, told>>

(* The loser fetches the document again for its conflict answer. *)
Fresh(h) ==
    /\ pc[h] = "fresh"
    /\ Outcome(h, "conflict")
    /\ UNCHANGED <<docVars, ledger, base, todo, seen, bumped, results,
                   landed, told>>

(* update<Entity>ForOp loads the document anew and refuses a removed one. *)
Reload(h) ==
    /\ pc[h] = "reload"
    /\ \/ ~removed[Doc(h)] /\ Goto(h, "save") /\ UNCHANGED outcome
       \/ removed[Doc(h)] /\ Outcome(h, "rejected")
    /\ UNCHANGED <<docVars, ledger, base, todo, seen, bumped, results,
                   landed, told>>

(* save() writes the changed paths and stamps updatedAt; it does not look  *)
(* at what happened to the document since it was loaded.                   *)
Save(h) ==
    /\ pc[h] = "save"
    /\ \E t \in Stamps : StampAt(Doc(h), t) /\ seen' = [seen EXCEPT ![h] = t]
    /\ Land(Op(h))
    /\ Goto(h, "raise")
    /\ UNCHANGED <<exists, removed, ledger, base, todo, bumped, outcome,
                   results, told>>

(* If the save landed below bumpedAt the row is lifted to it. *)
Raise(h) ==
    /\ pc[h] = "raise"
    /\ updatedAt' = IF seen[h] < bumped[h] /\ updatedAt[Doc(h)] = seen[h]
                    THEN [updatedAt EXCEPT ![Doc(h)] = bumped[h]]
                    ELSE updatedAt
    /\ Outcome(h, "applied")
    /\ UNCHANGED <<exists, removed, rewound, ledger, base, todo,
                   seen, bumped, results, landed, told>>

(* delete: never compares versions; a second delete is refused for a       *)
(* transaction and a no-op for the other collections.                      *)
ReadForDelete(h) ==
    /\ pc[h] = "apply" /\ Kind[Op(h)] = "delete"
    /\ LET d == Doc(h)
       IN \/ ~exists[d] /\ Outcome(h, "rejected")
          \/ /\ exists[d] /\ removed[d]
             /\ Outcome(h, IF Family[d] = "transaction" THEN "rejected"
                           ELSE "noop")
          \/ exists[d] /\ ~removed[d] /\ Goto(h, "remove") /\ UNCHANGED outcome
    /\ UNCHANGED <<docVars, ledger, base, todo, seen, bumped, results,
                   landed, told>>

(* The tombstone or archive flag is written.  For a transaction this is an *)
(* updateMany that skips rows tombstoned meanwhile; elsewhere a save().    *)
Remove(h) ==
    /\ pc[h] = "remove"
    /\ \/ /\ removed[Doc(h)] /\ Family[Doc(h)] = "transaction"
          /\ UNCHANGED <<updatedAt, rewound, removed, landed>>
       \/ /\ ~removed[Doc(h)] \/ Family[Doc(h)] # "transaction"
          /\ \E t \in Stamps : StampAt(Doc(h), t)
          /\ removed' = [removed EXCEPT ![Doc(h)] = TRUE]
          /\ Land(Op(h))
    /\ Outcome(h, "applied")
    /\ UNCHANGED <<exists, ledger, base, todo, seen, bumped, results,
                   told>>

(* A round trip throws: a validation error, a lost connection, or the      *)
(* follow-up work of a write that has already been made.                   *)
Fail(h) ==
    /\ pc[h] \in Working \ {"release"}
    /\ Outcome(h, "rejected")
    /\ UNCHANGED <<docVars, ledger, base, todo, seen, bumped, results,
                   landed, told>>

-----------------------------------------------------------------------------
(* The row keeps the outcome of an op that took effect ... *)
Settle(h) ==
    /\ pc[h] = "settle"
    /\ ledger' = [ledger EXCEPT ![Op(h)] = outcome[h]]
    /\ Report(h, outcome[h])
    /\ UNCHANGED <<docVars, base, landed, told>>

(* ... and is deleted otherwise, so that a retry runs the op again. *)
Release(h) ==
    /\ pc[h] = "release"
    /\ ledger' = [ledger EXCEPT ![Op(h)] = "absent"]
    /\ Report(h, outcome[h])
    /\ UNCHANGED <<docVars, base, landed, told>>

(* The response reaches the device, which drops the ops with a final       *)
(* status from its queue.                                                  *)
Respond(h) ==
    /\ pc[h] = "respond"
    /\ told' = [op \in Ops |-> told[op] \cup
                    {s \in Final : <<op, s>> \in results[h]}]
    /\ results' = [results EXCEPT ![h] = {}]
    /\ Goto(h, "idle")
    /\ UNCHANGED <<docVars, ledger, base, todo, seen, bumped, outcome,
                   landed>>

(* The process dies or the response is lost; the database is as it was. *)
Crash(h) ==
    /\ pc[h] # "idle"
    /\ Goto(h, "idle")
    /\ todo' = [todo EXCEPT ![h] = <<>>]
    /\ results' = [results EXCEPT ![h] = {}]
    /\ Forget(h)
    /\ UNCHANGED <<docVars, ledger, base, landed, told>>

(* The TTL index drops a row 30 days old: no request is still at work on it. *)
Expire(op) ==
    /\ ledger[op] # "absent"
    /\ \A h \in Handlers : pc[h] \in Working => Op(h) # op
    /\ ledger' = [ledger EXCEPT ![op] = "absent"]
    /\ UNCHANGED <<docVars, base, runVars, landed, told>>

Step(h) ==
    \/ Claim(h) \/ Poll(h)
    \/ ReadForCreate(h) \/ Insert(h)
    \/ ReadForUpdate(h) \/ Cas(h) \/ Fresh(h) \/ Reload(h) \/ Save(h) \/ Raise(h)
    \/ ReadForDelete(h) \/ Remove(h)
    \/ Settle(h) \/ Release(h) \/ Respond(h)

Next ==
    \/ \E op \in Ops : Compose(op) \/ Expire(op)
    \/ \E h \in Handlers : \/ \E batch \in Batches : Receive(h, batch)
                           \/ Step(h) \/ Fail(h) \/ Crash(h)

Spec == Init /\ [][Next]_vars

(* The event loop runs every continuation, and a poll has a deadline. *)
FairSpec == Spec /\ \A h \in Handlers : WF_vars(Step(h))
-----------------------------------------------------------------------------
(* The promise that the requests, the ledger and the versions implement.   *)
Contract == INSTANCE PushContract
    WITH exists <- exists, removed <- removed, landed <- landed,
         base <- base, told <- told, rewound <- rewound

(* A save has stamped the document of op behind its version.               *)
Rewound(op) == Target[op] \in rewound

(* Every step of the server is a step of PushContract or none of its       *)
(* concern: effects are atomic and single, answers are true.               *)
ImplementsContract == Contract!Spec

(* No sequence of retries, concurrent duplicates, errors, crashes and      *)
(* expired ledger rows applies an operation twice ("applies exactly once", *)
(* syncOperation.model.ts), whatever the clock; only an update of a        *)
(* document whose version a save has taken back may be applied again.      *)
AppliedAtMostOnce ==
    \A op \in Ops : landed[op] <= 1 \/ Rewound(op)

(* A device drops an op it was told is applied or a no-op: its effect is   *)
(* then in the database, whichever request the answer came through.        *)
AckedOpsAreDone ==
    \A op \in Ops : told[op] \cap {"applied", "noop"} # {} => Contract!Done(op)

(* Of the updates captured against one version of a document, at most one  *)
(* is applied; the others are conflicts (applyUpdateWithConcurrencyGuard). *)
(* A clock that stands still while versions are raised is no excuse: only  *)
(* a save that stamps the document behind its version makes another winner *)
(* possible, before the last step of the update has lifted it again.       *)
OneWinnerPerVersion ==
    \A a, b \in Ops :
        (/\ a # b /\ Target[a] = Target[b]
         /\ Kind[a] = "update" /\ Kind[b] = "update"
         /\ base[a] = base[b] /\ base[a] # Unset)
        => landed[a] = 0 \/ landed[b] = 0 \/ Rewound(a)

(* An op a device was told is in conflict is out of its queue and in its   *)
(* inbox: no duplicate of the request may still apply it.                  *)
ConflictIsFinal ==
    [][\A op \in Ops : landed'[op] # landed[op]
            => "conflict" \notin told[op] \/ Rewound(op)]_vars

(* A delete racing an update resolves to the delete: whatever was loaded   *)
(* before the tombstone was written, saving it does not bring it back.     *)
DeleteWins == [][\A d \in Docs : removed[d] => removed'[d]]_vars

(* An update that ends as applied leaves its document strictly past the    *)
(* version it was made against, "even when the wall clock did not advance  *)
(* across the apply": the claim, the save and the lift see to it together, *)
(* unless another write came between the save and the lift.                *)
LandsPastItsBase ==
    [][\A h \in Handlers :
        (pc[h] = "raise" /\ pc'[h] = "settle" /\ updatedAt[Doc(h)] = seen[h])
        => updatedAt'[Doc(h)] > base[Op(h)]]_vars

(* Every request ends, also one that waits for a claim whose holder died.  *)
RequestsEnd == \A h \in Handlers : pc[h] # "idle" ~> pc[h] = "idle"
-----------------------------------------------------------------------------
(* The inductive invariant behind these properties, part by part.          *)

EditStages == {"cas", "fresh", "reload", "save", "raise"}

(* A handler that is not idle has an op, and each stage its kind of op.    *)
Staged ==
    \A h \in Handlers :
        /\ pc[h] \in Working \cup {"claim", "poll"} => todo[h] # <<>>
        /\ \A i \in DOMAIN todo[h] : Sendable(todo[h][i])
        /\ pc[h] = "insert" => Kind[Op(h)] = "create"
        /\ pc[h] \in EditStages => Kind[Op(h)] = "update"
        /\ pc[h] = "remove" => Kind[Op(h)] = "delete"

(* The unique index on (userId, opId) is a mutex: whoever works on an op   *)
(* owns its pending row, and nobody else does.                             *)
Exclusive ==
    /\ \A h \in Handlers : pc[h] \in Working => ledger[Op(h)] = "pending"
    /\ \A g, h \in Handlers :
          (g # h /\ pc[g] \in Working /\ pc[h] \in Working) => Op(g) # Op(h)

(* A compare-and-set moves its document past the version it replaces, and  *)
(* until some save stamps a document behind its version, that only grows:  *)
(* an update whose base is behind stays behind.                            *)
VersionedOp(op) ==
    Target[op] \in rewound \/
    /\ base[op] <= updatedAt[Target[op]]
    /\ (Kind[op] = "update" /\ landed[op] > 0) =>
           base[op] \in Nat /\ base[op] < updatedAt[Target[op]]
VersionedAt(h) ==
    /\ pc[h] = "cas" => seen[h] = base[Op(h)]
    /\ pc[h] \in {"fresh", "reload", "save"} =>
           base[Op(h)] < updatedAt[Doc(h)] \/ Doc(h) \in rewound
    /\ pc[h] \in {"reload", "save", "raise"} =>
           base[Op(h)] \in Nat /\ base[Op(h)] < bumped[h]
Versioned ==
    /\ \A op \in Ops : VersionedOp(op)
    /\ \A h \in Handlers : VersionedAt(h)

(* What an op about to take effect, or one that has, says of its document. *)
GroundedOp(op) ==
    /\ landed[op] <= 1 \/ Rewound(op)
    /\ (Kind[op] = "create" /\ landed[op] > 0) => exists[Target[op]]
    /\ (Kind[op] = "delete" /\ landed[op] > 0) => removed[Target[op]]
GroundedAt(h) ==
    /\ pc[h] \in EditStages \cup {"remove"} => exists[Doc(h)]
    /\ pc[h] \in {"cas", "reload", "save"} =>
           landed[Op(h)] = 0 \/ Doc(h) \in rewound
    /\ pc[h] = "remove" => landed[Op(h)] = 0
    /\ pc[h] = "raise" => landed[Op(h)] > 0
Grounded ==
    /\ \A op \in Ops : GroundedOp(op)
    /\ \A h \in Handlers : GroundedAt(h)

(* An update has won its version once it has claimed it.                   *)
Won(op) == \/ landed[op] > 0
           \/ \E h \in Handlers : pc[h] \in {"reload", "save"} /\ Op(h) = op
SingleWinner ==
    \A a, b \in Ops :
        (/\ a # b /\ Target[a] = Target[b]
         /\ Kind[a] = "update" /\ Kind[b] = "update"
         /\ base[a] = base[b] /\ base[a] # Unset)
        => ~Won(a) \/ ~Won(b) \/ Rewound(a)

(* An op judged to be in conflict can never pass the version check again.  *)
Dead(op) ==
    /\ Kind[op] = "update" /\ base[op] # Unset
    /\ \/ removed[Target[op]] /\ Family[Target[op]] # "archive"
       \/ base[op] < updatedAt[Target[op]]
       \/ Rewound(op)
Judged(op) == \/ "conflict" \in told[op]
              \/ \E h \in Handlers : <<op, "conflict">> \in results[h]
BuriedAt(h) ==
    /\ (pc[h] = "release" /\ outcome[h] = "conflict") => Dead(Op(h))
    /\ pc[h] \in {"cas", "reload", "save"} => ~Judged(Op(h)) \/ Rewound(Op(h))
Buried ==
    /\ \A op \in Ops : Judged(op) => Dead(op)
    /\ \A h \in Handlers : BuriedAt(h)

(* Every place an answer of success can come from states a fact.           *)
Success == {"applied", "noop"}
Attested(op) ==
    \/ ledger[op] \in Success
    \/ told[op] \cap Success # {}
    \/ \E h \in Handlers, s \in Success : <<op, s>> \in results[h]
AnsweredOp(op) == Attested(op) => Contract!Done(op)
AnsweredAt(h) ==
    /\ pc[h] = "settle" => outcome[h] \in Success /\ Contract!Done(Op(h))
    /\ pc[h] = "release" => outcome[h] \notin Success
Answered ==
    /\ \A op \in Ops : AnsweredOp(op)
    /\ \A h \in Handlers : AnsweredAt(h)

Inv == /\ TypeOK /\ Staged /\ Exclusive /\ Versioned /\ Grounded
       /\ SingleWinner /\ Buried /\ Answered
=============================================================================
