----------------------------- MODULE PullCursor -----------------------------
(***************************************************************************)
(* How a device follows the server's collections: the bootstrap snapshot,  *)
(* and the pull in pages behind a cursor (updatedAt, _id) per entity.      *)
(*                                                                         *)
(* The server reads one collection after the other, so writes fall between *)
(* the reads of one page as well as between pages.  A write carries the    *)
(* reading of the clock of the process that made it, and reaches the       *)
(* collection some time after: its updatedAt may be earlier than, or the   *)
(* same as, one that was read before.                                      *)
(*                                                                         *)
(* One pull at a time: SyncSession has what overlapping pulls do.          *)
(*                                                                         *)
(* Source: backend/src/modules/sync/sync.service.ts and, on the device,    *)
(* frontend/corvale/src/platform/sync/pullLoop.ts, platform/db.            *)
(***************************************************************************)
EXTENDS Integers, FiniteSets

CONSTANTS
    Docs,           \* document ids, numbers in the order of _id
    NumEntities,    \* the collections, in the order of SYNC_ENTITIES
    EntityOf,       \* EntityOf[d]: the collection of d
    SoftDeletes,    \* collections whose deleted documents become tombstones
    Limit,          \* the documents of a page
    MaxClock,       \* bound on the readings of the clocks
    MaxWrites,      \* bound on the writes
    MaxFaults       \* bound on lost responses and dead tabs

Entities == 1..NumEntities
Stamps == 0..MaxClock

ASSUME CursorAssumption ==
    /\ Docs \subseteq Nat \ {0} /\ IsFiniteSet(Docs)
    /\ NumEntities \in Nat \ {0} /\ EntityOf \in [Docs -> Entities]
    /\ SoftDeletes \subseteq Entities
    /\ Limit \in Nat \ {0}
    /\ MaxClock \in Nat /\ MaxWrites \in Nat /\ MaxFaults \in Nat

VARIABLES
    db,         \* db[d]: the document in the database
    writes,     \* the writes made so far
    row,        \* row[d]: the device's row
    cursor,     \* the device's checkpoint: cursor[e] is a position in e
    pc,         \* what the device is doing
    at,         \* the collection the server reads next
    page,       \* page[d]: the documents read so far
    next,       \* the cursors to hand out with the page
    remaining,  \* room left in the page
    hasMore,    \* whether the page is not the last
    faults,
    seen,       \* history: seen[e], the last position there was at a read of e
    late,       \* history: documents written at a position not after seen
    erased,     \* history: documents taken away while the device shows them
    since       \* history: documents written since the device began to pull

pageVars == <<at, page, next, remaining, hasMore>>
pullHistory == <<seen, late, erased, since>>
vars == <<db, writes, row, cursor, pc, pageVars, faults, pullHistory>>

(* A document as the write of number no left it, at its updatedAt.         *)
Writes == [is : {"live", "gone"}, at : Nat, no : Nat]
Absent == [is |-> "none", at |-> 0, no |-> 0]
Start == <<0, 0>>   \* the cursor of a collection never read
NoPage == [d \in {} |-> Absent]

TypeOK ==
    /\ db \in [Docs -> Writes \cup {Absent}] /\ row \in [Docs -> Writes \cup {Absent}]
    /\ writes \in Nat /\ faults \in Nat
    /\ cursor \in [Entities -> Nat \X Nat] /\ next \in [Entities -> Nat \X Nat]
    /\ pc \in {"idle", "bootstrap", "seed", "pull", "apply"}
    /\ at \in 1..(NumEntities + 1)
    /\ DOMAIN page \subseteq Docs /\ \A d \in DOMAIN page : page[d] \in Writes
    /\ remaining \in 0..Limit /\ hasMore \in BOOLEAN
    /\ seen \in [Entities -> Nat \X Nat]
    /\ late \subseteq Docs /\ erased \subseteq Docs /\ since \subseteq Docs
-----------------------------------------------------------------------------
(* Positions in a collection: updatedAt first, _id among equals.           *)
Before(p, q) == p[1] < q[1] \/ (p[1] = q[1] /\ p[2] < q[2])
Pos(d) == <<db[d].at, d>>

(* The position of the last of some documents, c if there are none.        *)
LastOf(docs, c) ==
    IF docs = {} THEN c
    ELSE Pos(CHOOSE d \in docs : \A x \in docs : x = d \/ Before(Pos(x), Pos(d)))

(* What the user sees of a document.                                       *)
View(x) == IF x.is = "live" THEN <<x.no>> ELSE <<>>

(* upsertFromServer and applyTombstone; a tombstone needs a row.           *)
Merge(d) ==
    IF d \notin DOMAIN page THEN row[d]
    ELSE IF /\ page[d].is = "gone" /\ EntityOf[d] \in SoftDeletes
            /\ row[d].is = "none" THEN row[d]
    ELSE page[d]

Init ==
    /\ db \in [Docs -> {Absent, [is |-> "live", at |-> 0, no |-> 0]}]
    /\ writes = 0
    /\ row = [d \in Docs |-> Absent]
    /\ cursor = [e \in Entities |-> Start]
    /\ pc = "idle" /\ at = 1 /\ page = NoPage /\ next = cursor
    /\ remaining = Limit /\ hasMore = FALSE /\ faults = 0
    /\ seen = cursor /\ late = {} /\ erased = {} /\ since = {}
-----------------------------------------------------------------------------
(* A write arrives, at whatever its writer's clock showed.  A              *)
(* soft-deleted document stays deleted; an archived one may be restored.   *)
Write(d, is, t) ==
    /\ writes < MaxWrites
    /\ is = "gone" => db[d].is # "none"
    /\ is = "live" => ~(db[d].is = "gone" /\ EntityOf[d] \in SoftDeletes)
    /\ writes' = writes + 1
    /\ db' = [db EXCEPT ![d] = [is |-> is, at |-> t, no |-> writes']]
    /\ IF Before(seen[EntityOf[d]], <<t, d>>)
       THEN late' = late \ {d} /\ erased' = erased \ {d}
       ELSE late' = late \cup {d} /\ erased' = erased
    /\ since' = since \cup {d}
    /\ UNCHANGED <<row, cursor, pc, pageVars, faults, seen>>

(* A document is taken away for good, and no tombstone tells of it.        *)
Vanish(d) ==
    /\ db' = [db EXCEPT ![d] = Absent]
    /\ erased' = IF View(row[d]) = <<>> /\ View(Merge(d)) = <<>>
                 THEN erased ELSE erased \cup {d}
    /\ UNCHANGED <<writes, row, cursor, pc, pageVars, faults, seen, late, since>>

(* The TTL of tombstones, whether or not the device has seen them.         *)
Reap(d) ==
    /\ db[d].is = "gone" /\ EntityOf[d] \in SoftDeletes
    /\ Vanish(d)

(* A transfer that fails on its way deletes the legs it has created; they  *)
(* may be on the device by then.  Any document written so far may be one.  *)
Undo(d) ==
    /\ db[d].no > 0 /\ EntityOf[d] \in SoftDeletes
    /\ Vanish(d)
-----------------------------------------------------------------------------
Request(label, c) ==
    /\ pc' = label
    /\ at' = 1 /\ page' = NoPage /\ next' = c /\ remaining' = Limit /\ hasMore' = FALSE
    /\ UNCHANGED <<db, writes, faults, seen, late, erased>>

(* provisionLocalDb, on a device without a checkpoint.                     *)
Provision ==
    /\ pc = "idle" /\ \A e \in Entities : cursor[e] = Start
    /\ Request("bootstrap", cursor)
    /\ UNCHANGED <<row, cursor, since>>

(* runPullLoop.                                                            *)
Pull ==
    /\ pc = "idle"
    /\ Request("pull", cursor)
    /\ since' = {}
    /\ UNCHANGED <<row, cursor>>

Reading(label) == pc = label /\ at <= NumEntities

Present == {d \in Docs : EntityOf[d] = at /\ db[d].is # "none"}
After(c) == {d \in Present : Before(c, Pos(d))}

(* Adds the documents to the page, and moves the cursor of the collection. *)
Collect(docs, position) ==
    /\ page' = [d \in DOMAIN page \cup docs |->
                   IF d \in docs THEN db[d] ELSE page[d]]
    /\ next' = [next EXCEPT ![at] = position]
    /\ at' = at + 1
    /\ seen' = [seen EXCEPT ![at] = LastOf(After(seen[at]), seen[at])]
    /\ UNCHANGED <<db, writes, row, cursor, pc, faults, late, erased, since>>

Visible == {d \in Present : db[d].is = "live" \/ at \notin SoftDeletes}

(* buildBootstrapSnapshot: the soft-delete filter hides the tombstones.    *)
Snapshot ==
    /\ Reading("bootstrap")
    /\ Collect(Visible, LastOf(Visible, Start))
    /\ UNCHANGED <<remaining, hasMore>>

Rest == After(next[at])
Earlier(docs, d) == {x \in docs : Before(Pos(x), Pos(d))}
First(n, docs) == {d \in docs : Cardinality(Earlier(docs, d)) < n}

ReadAs(docs, position, more) ==
    /\ Reading("pull")
    /\ Collect(docs, position)
    /\ remaining' = remaining - Cardinality(docs)
    /\ hasMore' = more

Fits == First(remaining, Rest)

ReadForgettingTheRest ==
    ReadAs(Fits, LastOf(Fits, next[at]), hasMore \/ remaining = 0)

ReadSkippingThePeeked ==
    ReadAs(Fits, LastOf(First(remaining + 1, Rest), next[at]),
           hasMore \/ remaining = 0 \/ Fits # Rest)

ReadAgain ==
    ReadAs(Fits, next[at], hasMore \/ remaining = 0 \/ Fits # Rest)

(* buildPullPage: what follows the cursor, as far as there is room.  A     *)
(* collection without room left means another page, also when nothing in   *)
(* it has changed.                                                         *)
Read == ReadAs(Fits, LastOf(Fits, next[at]),
               hasMore \/ remaining = 0 \/ Fits # Rest)

Respond ==
    /\ pc \in {"bootstrap", "pull"} /\ at > NumEntities
    /\ pc' = IF pc = "pull" THEN "apply" ELSE "seed"
    /\ UNCHANGED <<db, writes, row, cursor, pageVars, faults, pullHistory>>

(* seedFromBootstrap: the rows and the checkpoint in one transaction.      *)
Seed ==
    /\ pc = "seed"
    /\ row' = [d \in Docs |-> Merge(d)]
    /\ cursor' = next
    /\ Request("idle", next)
    /\ UNCHANGED since

(* A page and its checkpoint in one transaction, then the next request.    *)
Apply ==
    /\ pc = "apply"
    /\ row' = [d \in Docs |-> Merge(d)]
    /\ cursor' = next
    /\ Request(IF hasMore THEN "pull" ELSE "idle", next)
    /\ UNCHANGED since

Lose ==
    /\ pc # "idle" /\ faults < MaxFaults
    /\ faults' = faults + 1
    /\ pc' = "idle"
    /\ at' = 1 /\ page' = NoPage /\ next' = cursor
    /\ remaining' = Limit /\ hasMore' = FALSE
    /\ UNCHANGED <<db, writes, row, cursor, pullHistory>>

Sync == Pull \/ Snapshot \/ Read \/ Respond \/ Seed \/ Apply

Next ==
    \/ \E d \in Docs, is \in {"live", "gone"}, t \in Stamps : Write(d, is, t)
    \/ \E d \in Docs : Reap(d) \/ Undo(d)
    \/ Provision \/ Sync \/ Lose

Spec == Init /\ [][Next]_vars

(* The bridge polls while the tab is open.                                 *)
FairSpec == Spec /\ WF_vars(Sync)
-----------------------------------------------------------------------------
(* A cursor cannot promise everything: a write that arrives at a position  *)
(* the collection had already been read past, and a document taken away    *)
(* without a tombstone while the device shows it.                          *)
OutOfReach == late \cup erased

(* What the device does not show as the database has it lies behind the    *)
(* cursor of its collection, where a later pull finds it: through limits   *)
(* reached in the middle of a collection, documents of one millisecond,    *)
(* writes between two reads of one page, the cursors of a bootstrap, and   *)
(* lost pages.                                                             *)
NothingBehind ==
    \A d \in Docs \ OutOfReach : \/ View(row[d]) = View(db[d])
                                 \/ Before(cursor[EntityOf[d]], Pos(d))

(* What makes NothingBehind inductive: the same holds of the page under    *)
(* construction and the cursors that go with it; no cursor is past what    *)
(* was there at a read; and the page holds what its cursors have passed.   *)
WithinSeen ==
    \A e \in Entities : ~Before(seen[e], cursor[e]) /\ ~Before(seen[e], next[e])

PageFollows ==
    \A d \in Docs \ OutOfReach : \/ View(Merge(d)) = View(db[d])
                                 \/ Before(next[EntityOf[d]], Pos(d))

PageHolds ==
    \A d \in DOMAIN page :
        /\ EntityOf[d] < at
        /\ Before(cursor[EntityOf[d]], <<page[d].at, d>>)
        /\ ~Before(next[EntityOf[d]], <<page[d].at, d>>)

CursorsMove ==
    /\ \A e \in Entities : next[e] = cursor[e] \/ (e < at /\ Before(cursor[e], next[e]))
    /\ pc = "idle" => page = NoPage /\ next = cursor
    /\ pc \in {"bootstrap", "seed"} => \A e \in Entities : cursor[e] = Start

Unread == \A d \in Docs : cursor[EntityOf[d]] = Start => row[d] = Absent

AbsentUnseen ==
    \A d \in Docs \ OutOfReach :
        db[d].is = "none" => View(row[d]) = <<>> /\ View(Merge(d)) = <<>>

Inv == /\ TypeOK /\ WithinSeen /\ NothingBehind /\ PageFollows /\ PageHolds
       /\ CursorsMove /\ Unread /\ AbsentUnseen

(* A pull that ends, hasMore being false, has brought every document as it *)
(* was when the pull began, or a later write of it.                        *)
PullCatchesUp ==
    [][(pc = "apply" /\ pc' = "idle" /\ faults' = faults) =>
          \A d \in Docs \ (OutOfReach \cup since) : View(row'[d]) = View(db[d])]_vars

(* Once the writes stop, the device shows what the database holds.         *)
Converges == <>[](\A d \in Docs \ OutOfReach : View(row[d]) = View(db[d]))
=============================================================================
