----------------------------- MODULE LocalStore -----------------------------
(* The device's SQLite database (platform/db) as the tasks of one page use *)
(* it.  All tasks share one connection; transaction() sends BEGIN, awaits  *)
(* a callback and sends COMMIT, or ROLLBACK when the callback threw, and   *)
(* nothing keeps the statements of the other tasks out in between: they    *)
(* run inside the open transaction and share its fate.  The tasks are a    *)
(* change of the user (useTagsData.ts and its like), an answer that flush  *)
(* writes down, a page of the pull and the resolution of a conflict.       *)
EXTENDS Integers

CONSTANTS
    Tasks,          \* asynchronous functions under way in the page
    Changes,        \* changes of the user, each of a record of its own
    Rows,           \* documents of one page of the pull
    NumPages,       \* pages the server has for this device
    MaxRounds,      \* times one change may be kept against the server
    CommitMayFail,  \* may COMMIT itself throw?
    NoChange        \* the change of a task that has none

ASSUME PagesAssumption == NumPages \in Nat
ASSUME RoundsAssumption == MaxRounds \in Nat
ASSUME ChangesAssumption == NoChange \notin Changes

VARIABLES
    disk,    \* the committed content
    work,    \* the content the connection sees
    open,    \* is a transaction open on the connection?
    label,   \* the next statement of each task
    op,      \* the op a task is about: a change and its round
    batch,   \* the page a task applies, 0 if none
    left,    \* the rows of that page not written yet
    undone   \* has a transaction been rolled back?

storeVars == <<disk, work, open, label, op, batch, left, undone>>
taskVars == <<op, batch, left>>

NoOp == <<NoChange, 0>>
Ops == Changes \X (0..MaxRounds)
Pages == 1..NumPages

(* row: what the record of a change shows; taken: the changes whose op was *)
(* queued; done: those answered for good or given up; queue and inbox: the *)
(* ops of _outbox and of the unresolved _conflicts; landed: the rows       *)
(* written by the pull; checkpoint: how many pages _sync_meta says.        *)
Contents == [row: [Changes -> {"old", "mine", "server"}],
             taken: SUBSET Changes, done: SUBSET Changes,
             queue: SUBSET Ops, inbox: SUBSET Ops,
             landed: SUBSET (Pages \X Rows), checkpoint: 0..NumPages]

InTransaction == {"row", "enqueue", "follow", "page", "commit", "rollback"}
Autocommitted == {"record", "remove", "settle", "again", "rewrite", "mark"}
Labels == InTransaction \cup Autocommitted \cup {"idle", "begin"}

StoreTypeOK ==
    /\ disk \in Contents /\ work \in Contents
    /\ open \in BOOLEAN /\ undone \in BOOLEAN
    /\ label \in [Tasks -> Labels]
    /\ op \in [Tasks -> Ops \cup {NoOp}]
    /\ batch \in [Tasks -> 0..NumPages]
    /\ left \in [Tasks -> SUBSET Rows]

StoreInit ==
    /\ work = [row |-> [c \in Changes |-> "old"], taken |-> {}, done |-> {},
               queue |-> {}, inbox |-> {}, landed |-> {}, checkpoint |-> 0]
    /\ disk = work
    /\ open = FALSE /\ undone = FALSE
    /\ label = [t \in Tasks |-> "idle"]
    /\ op = [t \in Tasks |-> NoOp]
    /\ batch = [t \in Tasks |-> 0]
    /\ left = [t \in Tasks |-> {}]

Goto(t, l) == label' = [label EXCEPT ![t] = l]

(* A statement on the connection: durable at once, unless a transaction is *)
(* open, whoever opened it.                                                *)
Exec(content) ==
    /\ work' = content
    /\ disk' = IF open THEN disk ELSE content
    /\ UNCHANGED <<open, undone>>

(* A task ends: its locals are gone. *)
End(t) ==
    /\ Goto(t, "idle")
    /\ op' = [op EXCEPT ![t] = NoOp]
    /\ batch' = [batch EXCEPT ![t] = 0]
    /\ left' = [left EXCEPT ![t] = {}]

-----------------------------------------------------------------------------
(* A task starts: nothing is written yet. *)
StartTask(t, l, o, p) ==
    /\ label[t] = "idle"
    /\ Goto(t, l)
    /\ op' = [op EXCEPT ![t] = o]
    /\ batch' = [batch EXCEPT ![t] = p]
    /\ left' = [left EXCEPT ![t] = IF p = 0 THEN {} ELSE Rows]
    /\ UNCHANGED <<disk, work, open, undone>>

(* The user saves a form; one whose save failed may be saved again. *)
Capture(t, c) == c \notin work.taken /\ StartTask(t, "begin", <<c, 0>>, 0)

(* runPullLoop reads the checkpoint, then waits for the page behind it. *)
PullPage(t) ==
    /\ work.checkpoint < NumPages
    /\ StartTask(t, "begin", NoOp, work.checkpoint + 1)

(* flush has an answer for an op of the queue it listed. *)
Accepted(t, o) == o \in work.queue /\ StartTask(t, "settle", o, 0)

(* Slips of the kind the code avoids, here and below: an op dropped without*)
(* a row in the inbox, a BEGIN inside the try, a COMMIT not awaited, a bad *)
(* row of a page skipped, a checkpoint one page too far.                   *)
ConflictedUnrecorded(t, o) == o \in work.queue /\ StartTask(t, "remove", o, 0)

Conflicted(t, o) == o \in work.queue /\ StartTask(t, "record", o, 0)

(* The user resolves a conflict of the inbox: keep-mine or keep-server. *)
KeepMine(t, o) ==
    o \in work.inbox /\ o[2] < MaxRounds /\ StartTask(t, "again", o, 0)
KeepServer(t, o) == o \in work.inbox /\ StartTask(t, "rewrite", o, 0)

-----------------------------------------------------------------------------
(* transaction(): BEGIN, refused while another transaction is open. *)
Begin(t) ==
    /\ label[t] = "begin" /\ ~open
    /\ open' = TRUE
    /\ Goto(t, IF batch[t] = 0 THEN "row" ELSE "page")
    /\ UNCHANGED <<disk, work, undone, taskVars>>

RefuseInsideTry(t) ==
    /\ label[t] = "begin" /\ open
    /\ work' = disk
    /\ open' = FALSE
    /\ undone' = TRUE
    /\ End(t)
    /\ UNCHANGED disk

(* The BEGIN is before the try: its error reaches the caller and no        *)
(* ROLLBACK is sent.                                                       *)
Refuse(t) ==
    /\ label[t] = "begin" /\ open
    /\ End(t)
    /\ UNCHANGED <<disk, work, open, undone>>

(* A capture is over, and so is a pull that has the last page; otherwise   *)
(* runPullLoop waits for the page behind the one it has, wherever the      *)
(* stored checkpoint is by then.                                           *)
Proceed(t) ==
    IF batch[t] \in 1..(NumPages - 1)
    THEN /\ Goto(t, "begin")
         /\ batch' = [batch EXCEPT ![t] = @ + 1]
         /\ left' = [left EXCEPT ![t] = Rows]
         /\ UNCHANGED op
    ELSE End(t)

CommitTransaction(t) ==
    /\ label[t] = "commit"
    /\ disk' = work
    /\ open' = FALSE
    /\ Proceed(t)
    /\ UNCHANGED <<work, undone>>

Rollback(t) ==
    /\ label[t] = "rollback"
    /\ work' = disk
    /\ open' = FALSE
    /\ undone' = TRUE
    /\ End(t)
    /\ UNCHANGED disk

(* A statement throws ("Tag not found", a NOT NULL column, no key): the    *)
(* transaction is rolled back; outside one the task just ends.             *)
Throw(t) ==
    /\ label[t] # "idle" /\ label[t] # "rollback"
    /\ label[t] = "commit" => CommitMayFail
    /\ IF label[t] \in InTransaction
       THEN Goto(t, "rollback") /\ UNCHANGED taskVars
       ELSE End(t)
    /\ UNCHANGED <<disk, work, open, undone>>

-----------------------------------------------------------------------------
(* Repository.create, update or remove: the row, then its op. *)
WriteRow(t) ==
    /\ label[t] = "row"
    /\ Exec([work EXCEPT !.row[op[t][1]] = "mine"])
    /\ Goto(t, "enqueue")
    /\ UNCHANGED taskVars

Enqueue(t) ==
    /\ label[t] = "enqueue"
    /\ Exec([work EXCEPT !.queue = @ \cup {op[t]},
                         !.taken = @ \cup {op[t][1]}])
    /\ Goto(t, "follow")
    /\ UNCHANGED taskVars

(* What else the callback does: the balance of the account, a second       *)
(* record.                                                                 *)
Follow(t) ==
    /\ label[t] = "follow"
    /\ Goto(t, "commit")
    /\ UNCHANGED <<disk, work, open, undone, taskVars>>

SkipBadRow(t) ==
    /\ label[t] = "page"
    /\ \E r \in left[t] :
          /\ \E kept \in {{}, {<<batch[t], r>>}} :
                Exec([work EXCEPT !.landed = @ \cup kept])
          /\ left' = [left EXCEPT ![t] = @ \ {r}]
    /\ UNCHANGED <<label, op, batch>>

(* The rows of a page, one statement each, then the checkpoint. *)
WritePage(t) ==
    /\ label[t] = "page"
    /\ \E r \in left[t] :
          /\ Exec([work EXCEPT !.landed = @ \cup {<<batch[t], r>>}])
          /\ left' = [left EXCEPT ![t] = @ \ {r}]
    /\ UNCHANGED <<label, op, batch>>

SetCheckpoint(t) ==
    /\ label[t] = "page" /\ left[t] = {}
    /\ Exec([work EXCEPT !.checkpoint = batch[t]])
    /\ Goto(t, "commit")
    /\ UNCHANGED taskVars

(* recordConflict; then flush drops the op, whose row of the inbox is the  *)
(* only place that keeps the change.                                       *)
Record(t) ==
    /\ label[t] = "record"
    /\ Exec([work EXCEPT !.inbox = @ \cup {op[t]}])
    /\ Goto(t, "remove")
    /\ UNCHANGED taskVars

Remove(t) ==
    /\ label[t] = "remove"
    /\ Exec([work EXCEPT !.queue = @ \ {op[t]}])
    /\ End(t)

(* The op took effect, or the user discards it: it leaves the queue. *)
Settle(t) ==
    /\ label[t] = "settle"
    /\ Exec([work EXCEPT !.queue = @ \ {op[t]}, !.done = @ \cup {op[t][1]}])
    /\ End(t)

(* resolveConflict: a fresh op with the local version, or the server's     *)
(* version over the row; then the conflict is marked as resolved.          *)
QueueAgain(t) ==
    /\ label[t] = "again"
    /\ Exec([work EXCEPT !.queue = @ \cup {<<op[t][1], op[t][2] + 1>>}])
    /\ Goto(t, "mark")
    /\ UNCHANGED taskVars

Rewrite(t) ==
    /\ label[t] = "rewrite"
    /\ Exec([work EXCEPT !.row[op[t][1]] = "server",
                         !.done = @ \cup {op[t][1]}])
    /\ Goto(t, "mark")
    /\ UNCHANGED taskVars

Mark(t) ==
    /\ label[t] = "mark"
    /\ Exec([work EXCEPT !.inbox = @ \ {op[t]}])
    /\ End(t)

(* The page is closed or reloaded: SQLite rolls an open transaction back. *)
Reload ==
    /\ work' = disk
    /\ open' = FALSE
    /\ label' = [t \in Tasks |-> "idle"]
    /\ op' = [t \in Tasks |-> NoOp]
    /\ batch' = [t \in Tasks |-> 0]
    /\ left' = [t \in Tasks |-> {}]
    /\ UNCHANGED <<disk, undone>>

Starts(t) ==
    \/ \E c \in Changes : Capture(t, c)
    \/ PullPage(t)
    \/ \E o \in Ops : \/ Accepted(t, o) \/ Conflicted(t, o)
                      \/ KeepMine(t, o) \/ KeepServer(t, o)

Step(t) ==
    \/ Begin(t) \/ Refuse(t) \/ CommitTransaction(t) \/ Rollback(t) \/ Throw(t)
    \/ WriteRow(t) \/ Enqueue(t) \/ Follow(t)
    \/ WritePage(t) \/ SetCheckpoint(t)
    \/ Record(t) \/ Remove(t) \/ Settle(t)
    \/ QueueAgain(t) \/ Rewrite(t) \/ Mark(t)

StoreNext == Reload \/ \E t \in Tasks : Starts(t) \/ Step(t)

StoreSpec == StoreInit /\ [][StoreNext]_storeVars
-----------------------------------------------------------------------------
(* A change is on the screen only if its op is queued, and is queued only  *)
(* if its row was written ("optimistic local apply inside one SQLite       *)
(* transaction", Repository.ts), whatever else uses the connection.        *)
Matched(content, c) ==
    /\ content.row[c] = "mine" => c \in content.taken
    /\ c \in content.taken => content.row[c] # "old"

CaptureIsAtomic == \A c \in Changes : Matched(disk, c)

(* The checkpoint does not pass a page with a row that did not land        *)
(* (pullLoop.ts: no "silently dropping a partially-applied page").         *)
CheckpointNotAhead ==
    \A p \in 1..disk.checkpoint, r \in Rows : <<p, r>> \in disk.landed

(* A change that was queued is in the queue or in the inbox, or it was     *)
(* answered or given up: a conflict is recorded before its op is dropped   *)
(* (buildPushFn, resolveConflict).                                         *)
Kept(content, c) ==
    \/ c \in content.done
    \/ \E o \in content.queue \cup content.inbox : o[1] = c

NoChangeIsLost == \A c \in disk.taken : Kept(disk, c)

(* Only a ROLLBACK of another task's transaction can take it away: neither *)
(* a reload, nor a throw outside a transaction, nor any interleaving does. *)
LostOnlyByRollback == undone \/ NoChangeIsLost
-----------------------------------------------------------------------------
(* One task at most is inside a transaction, and one is open exactly then; *)
(* with none open the connection sees the committed content.               *)
Exclusive ==
    /\ \A t \in Tasks : label[t] \in InTransaction => open
    /\ open => \E t \in Tasks : label[t] \in InTransaction
    /\ \A t, u \in Tasks :
          label[t] \in InTransaction /\ label[u] \in InTransaction => t = u
    /\ ~open => work = disk

(* A row and its op differ only while the task between the two writes has  *)
(* the transaction.                                                        *)
Paired ==
    /\ CaptureIsAtomic
    /\ \A c \in Changes :
          \/ Matched(work, c)
          \/ \E t \in Tasks : label[t] \in {"enqueue", "rollback"} /\ op[t][1] = c
    /\ \A t \in Tasks : label[t] = "enqueue" => work.row[op[t][1]] # "old"

AboutChange == {"row", "enqueue"} \cup Autocommitted

(* What a task is about fits the statement it is at. *)
Fitting ==
    /\ \A t \in Tasks : label[t] \in AboutChange => op[t] \in Ops
    /\ \A t \in Tasks : label[t] = "begin" /\ batch[t] = 0 => op[t] \in Ops
    /\ \A t \in Tasks : label[t] = "page" => batch[t] > 0
    /\ \A t \in Tasks : label[t] \in {"row", "enqueue", "follow"} => batch[t] = 0
    /\ \A t \in Tasks : label[t] = "again" => op[t][2] < MaxRounds

StoreInv == StoreTypeOK /\ Exclusive /\ Fitting /\ Paired
=============================================================================
