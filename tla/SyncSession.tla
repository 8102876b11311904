----------------------------- MODULE SyncSession -----------------------------
(***************************************************************************)
(* One device and the server: the local rows, the outbox in which every    *)
(* change waits for its answer, the flushes that send it and the pulls     *)
(* that bring the server's rows back, while other devices write.           *)
(*                                                                         *)
(* Nothing keeps two runs of syncNow apart (the online event, the poll of  *)
(* the background bridge, the button, a second tab), so several are        *)
(* modelled, and each await between reading and writing local tables is a  *)
(* step.  The server answers an op in one step, as PushContract allows it  *)
(* to be seen, and stamps every write with a new time.                     *)
(*                                                                         *)
(* Source: frontend/corvale/src/platform/sync and platform/db/repositories.*)
(***************************************************************************)
EXTENDS Integers, Sequences, FiniteSets, FiniteSetsExt

CONSTANTS
    Runs,           \* runs of syncNow that may be under way together
    Recs,           \* record ids
    StampsRows,     \* an edit writes the device's time into updatedAt
    DeletesOnce,    \* the server refuses to delete a deleted record
    MayChoose,        \* what the user may choose for a conflict
    MayDiscard,     \* whether the user may discard a failed op
    MayError,       \* whether an op may fail over an error of the server
    MayRefuse,      \* whether the server may refuse a payload for good
    Caps,           \* what MAX_PUSH_OPS may be
    MaxOps,         \* bound on the changes made on the device
    MaxRemote,      \* bound on the writes of other devices
    MaxFaults       \* bound on lost responses, dead tabs and server errors

ASSUME SessionAssumption ==
    /\ {StampsRows, DeletesOnce, MayDiscard, MayError, MayRefuse} \subseteq BOOLEAN
    /\ MayChoose \subseteq {"keep-mine", "keep-server"}
    /\ {MaxOps, MaxRemote, MaxFaults} \subseteq Nat
    /\ Caps \subseteq Nat \ {0}

VARIABLES
    server,     \* server[rec]: the document the server holds
    ledger,     \* ops the server has applied
    clock,      \* the last timestamp the server gave
    cap,        \* how many ops it takes in one request; never changes
    row,        \* row[rec]: the device's row
    bad,        \* ops whose payload the server's validation refuses
    log,        \* the ops captured so far; an op is its index in log
    queue,      \* ops in the _outbox table, sent in the order of log
    failed,     \* queued ops that carry a lastError
    waiting,    \* queued ops whose nextAttemptAt is ahead
    inbox,      \* the _conflicts table
    checkpoint, \* the pull checkpoint in _sync_meta
    pc,         \* pc[r]: where run r stands
    sent,       \* sent[r]: ops of its request the server has not answered
    answers,    \* answers[r]: answers the device has not dealt with
    from,       \* from[r]: the checkpoint its pull started from
    page,       \* page[r]: the page it fetched
    remotes, faults,    \* counters for the bounds
    discarded,  \* history: ops the user discarded
    erred,      \* history: ops that failed over an error of the server
    crossed     \* history: an older page or document was put over newer ones

vars == <<server, ledger, clock, cap, bad, row, log, queue, failed, waiting, inbox,
          checkpoint, pc, sent, answers, from, page, remotes, faults, discarded,
          erred, crossed>>
outboxVars == <<log, queue, failed, waiting>>
runVars == <<pc, sent, answers, from, page>>
flags == <<erred, crossed>>
serverVars == <<server, ledger, clock, cap, bad>>

Device == -1    \* a timestamp of the device: no version of the server
Others == 0     \* the author of what came from elsewhere
Ops == 1..Len(log)
None == [there |-> FALSE, gone |-> FALSE, at |-> 0, by |-> Others]
Rows == [there : BOOLEAN, gone : BOOLEAN, at : Nat \cup {Device}, by : Nat]
NoPage == [rows |-> <<>>, upTo |-> 0]

TypeOK ==
    /\ server \in [Recs -> Rows]
    /\ row \in [Recs -> Rows]
    /\ \A o \in Ops : log[o] \in [rec : Recs, kind : {"create", "update", "delete"},
                                  base : Nat \cup {Device}]
    /\ ledger \subseteq Ops /\ bad \subseteq Ops
    /\ queue \subseteq Ops /\ discarded \subseteq Ops
    /\ failed \subseteq queue /\ waiting \subseteq failed
    /\ inbox \subseteq [op : Ops, seen : Rows, open : BOOLEAN]
    /\ clock \in Nat /\ cap \in Caps /\ checkpoint \in Nat
    /\ pc \in [Runs -> {"idle", "sent", "orphan", "settle", "pull",
                        "fetch", "apply"}]
    /\ \A r \in Runs : /\ sent[r] \subseteq Ops
                       /\ \A a \in answers[r] :
                            a \in [op : Ops, seen : Rows,
                                   status : {"applied", "conflict", "rejected"}]
    /\ from \in [Runs -> Nat]

-----------------------------------------------------------------------------
Live(x) == x.there /\ ~x.gone
Goto(r, label) == pc' = [pc EXCEPT ![r] = label]

(* What the user sees of a row. *)
View(x) == IF Live(x) THEN <<x.at, x.by>> ELSE <<>>

(* Repository.create/update/remove: the row and its op in one transaction. *)
Enqueue(rec, kind, base) ==
    /\ Len(log) < MaxOps
    /\ log' = Append(log, [rec |-> rec, kind |-> kind, base |-> base])
    /\ queue' = queue \cup {Len(log')}
    /\ UNCHANGED <<failed, waiting>>

Init ==
    /\ server \in [Recs -> {None, [None EXCEPT !.there = TRUE]}]
    /\ row = server
    /\ ledger = {} /\ clock = 0 /\ cap \in Caps /\ bad = {}
    /\ checkpoint = 0
    /\ log = <<>> /\ queue = {} /\ failed = {} /\ waiting = {}
    /\ inbox = {}
    /\ pc = [r \in Runs |-> "idle"]
    /\ sent = [r \in Runs |-> {}]
    /\ answers = [r \in Runs |-> {}]
    /\ from = [r \in Runs |-> 0]
    /\ page = [r \in Runs |-> NoPage]
    /\ remotes = 0 /\ faults = 0 /\ discarded = {}
    /\ erred = {} /\ crossed = FALSE

-----------------------------------------------------------------------------
(* The user. *)
Create(rec) ==
    /\ ~row[rec].there
    /\ Enqueue(rec, "create", Device)
    /\ row' = [row EXCEPT ![rec] = [there |-> TRUE, gone |-> FALSE,
                                    at |-> Device, by |-> Len(log')]]
    /\ UNCHANGED <<serverVars, inbox, checkpoint, runVars, remotes, faults, discarded,
                   flags>>

Edit(rec) ==
    /\ Live(row[rec])
    /\ Enqueue(rec, "update", row[rec].at)
    /\ row' = [row EXCEPT ![rec].by = Len(log'),
                          ![rec].at = IF StampsRows THEN Device ELSE @]
    /\ UNCHANGED <<serverVars, inbox, checkpoint, runVars, remotes, faults, discarded,
                   flags>>

Remove(rec) ==
    /\ Live(row[rec])
    /\ Enqueue(rec, "delete", Device)
    /\ row' = [row EXCEPT ![rec].gone = TRUE, ![rec].at = Device]
    /\ UNCHANGED <<serverVars, inbox, checkpoint, runVars, remotes, faults, discarded,
                   flags>>

(* "Retry" and "discard" of a failed op in the sync issues. *)
Retry(o) ==
    /\ o \in failed
    /\ failed' = failed \ {o} /\ waiting' = waiting \ {o}
    /\ UNCHANGED <<serverVars, row, log, queue, inbox, checkpoint, runVars,
                   remotes, faults, discarded, flags>>

Discard(o) ==
    /\ MayDiscard /\ o \in failed
    /\ queue' = queue \ {o}
    /\ failed' = failed \ {o} /\ waiting' = waiting \ {o}
    /\ discarded' = discarded \cup {o}
    /\ UNCHANGED <<serverVars, row, log, inbox, checkpoint, runVars, remotes, faults, flags>>

(* The pull has brought a newer document than the one in the conflict. *)
PulledSince(c) ==
    LET rec == log[c.op].rec
    IN  server[rec].at \in c.seen.at + 1 .. checkpoint

(* resolveConflict: the server's document replaces the row, or the change  *)
(* is queued again against the version it lost to.  The conflict is marked *)
(* resolved in a write of its own, which a dead tab never makes.           *)
Resolve(c, choice) ==
    /\ c.open
    /\ \/ /\ choice = "keep-server"
          /\ row' = [row EXCEPT ![log[c.op].rec] = c.seen]
          /\ crossed' = (crossed \/ PulledSince(c))
          /\ UNCHANGED outboxVars
       \/ /\ choice = "keep-mine"
          /\ Enqueue(log[c.op].rec, "update", c.seen.at)
          /\ UNCHANGED <<row, crossed>>
    /\ \/ /\ inbox' = (inbox \ {c}) \cup {[c EXCEPT !.open = FALSE]}
          /\ UNCHANGED faults
       \/ /\ faults < MaxFaults
          /\ faults' = faults + 1
          /\ UNCHANGED inbox
    /\ UNCHANGED <<serverVars, checkpoint, runVars, remotes, discarded, erred>>

(* The backoff of an op runs out. *)
Elapse(o) ==
    /\ o \in waiting
    /\ waiting' = waiting \ {o}
    /\ UNCHANGED <<serverVars, row, log, queue, failed, inbox, checkpoint,
                   runVars, remotes, faults, discarded, flags>>

-----------------------------------------------------------------------------
(* flush: list the queue and choose the batch.                             *)
SameRec(o, p) == log[o].rec = log[p].rec

BlocksForever(o) ==
    \/ o \in waiting
    \/ /\ log[o].kind = "update"
       /\ \E p \in Ops : p < o /\ SameRec(p, o) /\ log[p].kind = "update"

(* An op in backoff, and a second update, hold back what follows them.     *)
Blocks(o) ==
    \/ o \in waiting
    \/ /\ log[o].kind = "update"
       /\ \E p \in queue : p < o /\ SameRec(p, o) /\ log[p].kind = "update"

Batch == {o \in queue : \A p \in queue : (p <= o /\ SameRec(p, o)) => ~Blocks(p)}

(* A request with more ops than MAX_PUSH_OPS is refused as a whole: syncNow*)
(* throws, before its pull, and leaves everything as it was.               *)
Flush(r) ==
    /\ pc[r] = "idle"
    /\ Cardinality(Batch) <= cap
    /\ sent' = [sent EXCEPT ![r] = Batch]
    /\ Goto(r, IF Batch = {} THEN "pull" ELSE "sent")
    /\ UNCHANGED <<serverVars, row, outboxVars, inbox, checkpoint, answers,
                   from, page, remotes, faults, discarded, flags>>

(* The server's verdict on an op it has not applied yet. *)
Judge(o) ==
    LET s == server[log[o].rec]
        kind == log[o].kind
    IN  IF kind = "create"
        THEN IF s.there THEN IF s.gone THEN "rejected" ELSE "applied"
             ELSE IF o \in bad THEN "rejected" ELSE "lands"
        ELSE IF ~s.there THEN "rejected"
        ELSE IF kind = "update"
        THEN IF s.gone \/ s.at # log[o].base THEN "conflict" ELSE "lands"
        ELSE IF s.gone THEN IF DeletesOnce THEN "rejected" ELSE "applied"
        ELSE IF o \in bad THEN "rejected" ELSE "lands"

Verdict(o) == IF o \in ledger THEN "applied" ELSE Judge(o)

Answer(r, o, status) ==
    answers' = [answers EXCEPT ![r] = @ \cup
        {[op |-> o, status |-> status,
          seen |-> IF status = "conflict" THEN server[log[o].rec] ELSE None]}]

Lands(o) ==
    /\ clock' = clock + 1
    /\ server' = [server EXCEPT ![log[o].rec] =
                     [there |-> TRUE, gone |-> log[o].kind = "delete",
                      at |-> clock', by |-> o]]
    /\ ledger' = ledger \cup {o}
    /\ UNCHANGED <<cap, bad, faults>>

(* Validation refuses the payload: of a create and a delete before anything*)
(* is written, of an update after the compare-and-set has moved the        *)
(* version, so that its retry is a conflict.                               *)
Refuses(o) ==
    /\ MayRefuse /\ faults < MaxFaults
    /\ faults' = faults + 1
    /\ \/ /\ log[o].kind = "update"
          /\ clock' = clock + 1
          /\ server' = [server EXCEPT ![log[o].rec].at = clock']
          /\ UNCHANGED bad
       \/ /\ log[o].kind # "update"
          /\ bad' = bad \cup {o}
          /\ UNCHANGED <<clock, server>>
    /\ UNCHANGED <<ledger, cap>>

ServeOp(r, o) ==
    /\ pc[r] \in {"sent", "orphan"} /\ o \in sent[r]
    /\ sent' = [sent EXCEPT ![r] = @ \ {o}]
    /\ \/ /\ Verdict(o) = "lands"
          /\ \/ Lands(o) /\ Answer(r, o, "applied")
             \/ Refuses(o) /\ Answer(r, o, "rejected")
          /\ UNCHANGED erred
       \/ /\ Verdict(o) # "lands"
          /\ Answer(r, o, Verdict(o))
          /\ UNCHANGED <<serverVars, faults, erred>>
       \/ /\ MayError /\ faults < MaxFaults
          /\ o \notin ledger /\ Verdict(o) # "rejected"
          /\ faults' = faults + 1
          /\ erred' = erred \cup {o}
          /\ Answer(r, o, "rejected")
          /\ UNCHANGED serverVars
    /\ UNCHANGED <<row, outboxVars, inbox, checkpoint, pc, from, page, remotes,
                   discarded, crossed>>

ServeNewestFirst(r) == sent[r] # {} /\ ServeOp(r, Max(sent[r]))

(* The server serves the ops of a request in their order, whether or not   *)
(* the device still waits for the response.                                *)
Serve(r) == sent[r] # {} /\ ServeOp(r, Min(sent[r]))

RecordLatestOnly(r) ==
    /\ pc[r] = "sent" /\ sent[r] = {}
    /\ LET new == {b \in answers[r] : b.status = "conflict"}
       IN  inbox' = {c \in inbox : \A b \in new : ~SameRec(c.op, b.op)}
                      \cup {[op |-> b.op, seen |-> b.seen, open |-> TRUE] : b \in new}
    /\ Goto(r, "settle")
    /\ UNCHANGED <<serverVars, row, outboxVars, checkpoint, sent, answers,
                   from, page, remotes, faults, discarded, flags>>

(* The response: buildPushFn writes its conflicts into the inbox ...       *)
Record(r) ==
    /\ pc[r] = "sent" /\ sent[r] = {}
    /\ inbox' = inbox \cup {[op |-> a.op, seen |-> a.seen, open |-> TRUE] :
                               a \in {b \in answers[r] : b.status = "conflict"}}
    /\ Goto(r, "settle")
    /\ UNCHANGED <<serverVars, row, outboxVars, checkpoint, sent, answers,
                   from, page, remotes, faults, discarded, flags>>

(* ... and flush then takes the answers one by one: an op leaves the queue *)
(* or is marked failed, if it is still there.                              *)
Settle(r) ==
    /\ pc[r] = "settle"
    /\ \E a \in answers[r] :
          /\ \A b \in answers[r] : a.op <= b.op
          /\ \/ /\ a.status # "rejected"
                /\ queue' = queue \ {a.op}
                /\ failed' = failed \ {a.op} /\ waiting' = waiting \ {a.op}
             \/ /\ a.status = "rejected"
                /\ failed' = failed \cup ({a.op} \cap queue)
                /\ waiting' = waiting \cup ({a.op} \cap queue)
                /\ UNCHANGED queue
          /\ answers' = [answers EXCEPT ![r] = @ \ {a}]
          /\ Goto(r, IF answers'[r] = {} THEN "pull" ELSE "settle")
    /\ UNCHANGED <<serverVars, row, log, inbox, checkpoint, sent, from, page,
                   remotes, faults, discarded, flags>>

-----------------------------------------------------------------------------
(* runPullLoop. *)
ReadCheckpoint(r) ==
    /\ pc[r] = "pull"
    /\ from' = [from EXCEPT ![r] = checkpoint]
    /\ Goto(r, "fetch")
    /\ UNCHANGED <<serverVars, row, outboxVars, inbox, checkpoint, sent,
                   answers, page, remotes, faults, discarded, flags>>

(* The server's rows behind the checkpoint, up to the newest of them.      *)
Fetch(r) ==
    /\ pc[r] = "fetch"
    /\ LET changed == {rec \in Recs : server[rec].at > from[r]}
       IN page' = [page EXCEPT ![r] =
             [rows |-> [rec \in changed |-> server[rec]],
              upTo |-> Max({from[r]} \cup {server[rec].at : rec \in changed})]]
    /\ Goto(r, "apply")
    /\ UNCHANGED <<serverVars, row, outboxVars, inbox, checkpoint, sent,
                   answers, from, remotes, faults, discarded, flags>>

(* upsertFromServer and applyTombstone; a tombstone needs a row.           *)
Merge(r, rec) ==
    IF rec \notin DOMAIN page[r].rows THEN row[rec]
    ELSE IF page[r].rows[rec].gone /\ ~row[rec].there THEN row[rec]
    ELSE page[r].rows[rec]

ApplySkipsAhead(r) ==
    /\ pc[r] = "apply"
    /\ row' = [rec \in Recs |-> Merge(r, rec)]
    /\ checkpoint' = clock
    /\ crossed' = (crossed \/ checkpoint # from[r])
    /\ page' = [page EXCEPT ![r] = NoPage]
    /\ from' = [from EXCEPT ![r] = 0]
    /\ Goto(r, "idle")
    /\ UNCHANGED <<serverVars, outboxVars, inbox, sent, answers, remotes,
                   faults, discarded, erred>>

(* The page and its checkpoint, in one transaction.                        *)
Apply(r) ==
    /\ pc[r] = "apply"
    /\ row' = [rec \in Recs |-> Merge(r, rec)]
    /\ checkpoint' = page[r].upTo
    /\ crossed' = (crossed \/ checkpoint # from[r])
    /\ page' = [page EXCEPT ![r] = NoPage]
    /\ from' = [from EXCEPT ![r] = 0]
    /\ Goto(r, "idle")
    /\ UNCHANGED <<serverVars, outboxVars, inbox, sent, answers, remotes,
                   faults, discarded, erred>>

(* The tab dies or the response does not arrive.  A request that is out    *)
(* may still be served.                                                    *)
Lose(r) ==
    /\ pc[r] \notin {"idle", "orphan"} /\ faults < MaxFaults
    /\ faults' = faults + 1
    /\ Goto(r, IF pc[r] = "sent" THEN "orphan" ELSE "idle")
    /\ answers' = [answers EXCEPT ![r] = {}]
    /\ page' = [page EXCEPT ![r] = NoPage]
    /\ from' = [from EXCEPT ![r] = 0]
    /\ UNCHANGED <<serverVars, row, outboxVars, inbox, checkpoint, sent,
                   remotes, discarded, flags>>

(* The server is through with the request, or dies over it.                *)
Vanish(r) ==
    /\ pc[r] = "orphan"
    /\ Goto(r, "idle")
    /\ sent' = [sent EXCEPT ![r] = {}]
    /\ answers' = [answers EXCEPT ![r] = {}]
    /\ UNCHANGED <<serverVars, row, outboxVars, inbox, checkpoint, from, page,
                   remotes, faults, discarded, flags>>

(* Another device changes or deletes a record. *)
Remote(rec) ==
    /\ remotes < MaxRemote /\ Live(server[rec])
    /\ remotes' = remotes + 1
    /\ clock' = clock + 1
    /\ \E gone \in BOOLEAN :
          server' = [server EXCEPT ![rec] = [there |-> TRUE, gone |-> gone,
                                             at |-> clock', by |-> Others]]
    /\ UNCHANGED <<ledger, cap, bad, row, outboxVars, inbox, checkpoint, runVars, faults,
                   discarded, flags>>

Advance(r) ==
    \/ Flush(r) \/ Serve(r) \/ Record(r) \/ Settle(r)
    \/ ReadCheckpoint(r) \/ Fetch(r) \/ Apply(r) \/ Vanish(r)

Next ==
    \/ \E rec \in Recs : Create(rec) \/ Edit(rec) \/ Remove(rec) \/ Remote(rec)
    \/ \E o \in Ops : Retry(o) \/ Discard(o) \/ Elapse(o)
    \/ \E c \in inbox, choice \in MayChoose : Resolve(c, choice)
    \/ \E r \in Runs : Advance(r) \/ Lose(r)

Spec == Init /\ [][Next]_vars

(* The bridge polls while the tab is open, and a backoff is at most five   *)
(* minutes long.                                                           *)
FairSpec == /\ Spec
            /\ WF_runVars(\E r \in Runs : Advance(r))
            /\ \A o \in 1..MaxOps : WF_waiting(o \in waiting /\ Elapse(o))
-----------------------------------------------------------------------------
(* A change leaves the queue only because the server has it, because it is *)
(* in the conflict inbox, or because the user discarded it; through lost   *)
(* responses, dead tabs and flushes of two tabs over one table.  (With the *)
(* types: what is failed or waits is in the queue.)                        *)
NoChangeIsLost ==
    /\ TypeOK
    /\ \A o \in Ops :
        \/ o \in queue \cup ledger \cup discarded
        \/ \E c \in inbox : c.op = o
        \/ log[o].kind = "delete" /\ server[log[o].rec].gone

(* Whatever the device does not show of the server is still behind its     *)
(* checkpoint, or is about to be changed by an op of its own.              *)
NothingSkipped ==
    \A rec \in Recs :
        \/ View(row[rec]) = View(server[rec])
        \/ server[rec].at > checkpoint
        \/ \E o \in queue \cup discarded : log[o].rec = rec

(* It is so as long as no pull is applied to a checkpoint that another one *)
(* has moved since it started, and no conflict is resolved to a document   *)
(* of the server that a pull has replaced since.                           *)
NothingSkippedAlone == crossed \/ NothingSkipped

(* The server applies what the device did to a record in the order in      *)
(* which it was done, whatever was held back, retried or sent twice; except*)
(* that it goes on with a batch after an op has failed over an error, and  *)
(* that a request under way may still bring it an op the user discards.    *)
LandsInOrder ==
    [][\A o \in ledger' \ ledger, p \in ledger :
          log[o].rec = log[p].rec => p < o \/ o \in erred \cup discarded]_vars

(* An op the server will never accept: no create is left in the queue that *)
(* could make the record it is about.                                      *)
Refused(o) ==
    /\ Verdict(o) = "rejected"
    /\ \A p \in queue : SameRec(p, o) /\ log[p].kind = "create" =>
           Verdict(p) = "rejected"

(* The queue drains: again and again it holds nothing but ops the server   *)
(* refuses for good, or so many that it refuses the request (buildBatch    *)
(* knows no MAX_PUSH_OPS).  Nothing blocks what is behind it for ever.     *)
QueueDrains == []<>((\A o \in queue : Refused(o)) \/ Cardinality(Batch) > cap)

=============================================================================
