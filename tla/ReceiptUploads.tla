---------------------------- MODULE ReceiptUploads ----------------------------
(***************************************************************************)
(* Receipts captured offline for one transaction.  A capture caches the    *)
(* file (platform/db/receiptBlobCache.ts) and queues an entry              *)
(* (platform/sync/receiptUploadQueue.ts); each time the panel of the       *)
(* transaction is shown online a run of flushReceiptUploads sends what is  *)
(* queued: POST the file, then attach the receipt to the transaction.      *)
(* Every file is counted as one unit of the cache.                         *)
(***************************************************************************)
EXTENDS Integers, Sequences, FiniteSets, Functions

CONSTANTS
    Files,      \* one capture each
    Runs,       \* the runs that may overlap: one for each panel or tab
    Cap,        \* DEFAULT_RECEIPT_CACHE_MAX_BYTES
    MaxFlushes, MaxMishaps      \* bounds: runs begun; losses, kills, refusals

ASSUME CapAssumption == Cap \in Nat
ASSUME BoundsAssumption == MaxFlushes \in Nat /\ MaxMishaps \in Nat

VARIABLES
    entry,      \* entry[f]: the row of f in _receipt_uploads
    cache,      \* the rows of _blobs, the least recently used first
    dropping,   \* files dismissed whose blob is still to be deleted
    run,        \* run[r]: where a run is, with the rows it listed
    posted,     \* server: posted[f] receipts made of f; <<f, k>> is the k-th
    attached, version,  \* server: receiptIds and __v of the transaction
    synced,     \* server: the transaction has been pushed
    strays,     \* server: saves whose caller has given up
    other,      \* another device that detaches or deletes a receipt
    removed,    \* history: receipts detached or deleted
    deleted,    \* server: receipts with deletedAt
    lost,       \* history: lost[f] answers to a POST of f went missing
    shared,     \* history: files two runs held at a time
    stranded,   \* history: files whose run died with them in hand
    flushes, mishaps

client == <<entry, cache, dropping>>
server == <<posted, attached, version, synced, strays, other, removed, deleted>>
history == <<lost, shared, stranded, flushes, mishaps>>
uploadVars == <<client, run, server, history>>

NoReceipt == <<>>
Unresolved == {"pending", "uploading"}
Waiting(f) == entry[f].status \in Unresolved
NoEntry == [status |-> "none", receipt |-> NoReceipt, waits |-> FALSE]
Idle == [at |-> "idle", ready |-> {}, file |-> NoReceipt, receipt |-> NoReceipt,
         seen |-> 0, ids |-> {}, outcome |-> "none"]
NoOther == [do |-> "none", receipt |-> NoReceipt, seen |-> 0, ids |-> {}]

Faulty == mishaps < MaxMishaps /\ mishaps' = mishaps + 1
-----------------------------------------------------------------------------
(* The blobs that are not gone, in their order. *)
Without(blobs, gone) ==
    LET stay == {i \in DOMAIN blobs : blobs[i] \notin gone}
        Rank(i) == Cardinality({j \in stay : j <= i})
    IN [n \in 1..Cardinality(stay) |-> blobs[CHOOSE i \in stay : Rank(i) = n]]

Touched(f) == Append(Without(cache, {f}), f)

(* A slip: only what is being sent right now is spared. *)
FittedSparingUploading(blobs) ==
    LET loose == Without(blobs, {f \in Files : entry[f].status = "uploading"})
        over == Len(blobs) - Cap
        gone == {loose[i] : i \in {j \in DOMAIN loose : j <= over}}
    IN Without(blobs, gone)

(* evictReceiptBlobsToFit: the oldest first, but none that is queued.      *)
Fitted(blobs) ==
    LET loose == Without(blobs, {f \in Files : Waiting(f)})
        over == Len(blobs) - Cap
        gone == {loose[i] : i \in {j \in DOMAIN loose : j <= over}}
    IN Without(blobs, gone)

(* queueFilesOffline: one local transaction puts the blob, evicts, and     *)
(* only then enqueues the entry.                                           *)
CaptureFile(f) ==
    /\ entry[f] = NoEntry
    /\ cache' = Fitted(Append(cache, f))
    /\ entry' = [entry EXCEPT ![f].status = "pending"]
    /\ UNCHANGED <<dropping, run, server, history>>

(* A tile that shows the cached picture refreshes its lastAccessedAt. *)
Preview(f) ==
    /\ f \in Range(cache) /\ entry[f].status \notin {"none", "removed", "uploaded"}
    /\ cache' = Touched(f)
    /\ UNCHANGED <<entry, dropping, run, server, history>>

(* nextAttemptAt comes to pass. *)
BackoffEnds(f) ==
    /\ entry[f].waits
    /\ entry' = [entry EXCEPT ![f].waits = FALSE]
    /\ UNCHANGED <<cache, dropping, run, server, history>>

(* handleDismissQueued: the entry first, its blob one await later. *)
Dismiss(f) ==
    /\ entry[f].status \in Unresolved \cup {"rejected"}
    /\ entry' = [entry EXCEPT ![f].status = "removed", ![f].waits = FALSE]
    /\ dropping' = dropping \cup {f}
    /\ UNCHANGED <<cache, run, server, history>>

DropBlob(f) ==
    /\ f \in dropping
    /\ dropping' = dropping \ {f}
    /\ cache' = Without(cache, {f})
    /\ UNCHANGED <<entry, run, server, history>>

(* An uploaded entry goes over to the receipts of the form; the cached     *)
(* blob stays.                                                             *)
Promote(f) ==
    /\ entry[f].status = "uploaded"
    /\ entry' = [entry EXCEPT ![f].status = "removed"]
    /\ UNCHANGED <<cache, dropping, run, server, history>>
-----------------------------------------------------------------------------
Row(f) == [file |-> f, receipt |-> entry[f].receipt]
Listed(r) == {row.file : row \in run[r].ready}
           \cup (IF run[r].at = "idle" THEN {} ELSE {run[r].file})

(* flush lists what is pending and due, once.  It works on these copies.   *)
Flush(r) ==
    LET due == {f \in Files : entry[f].status = "pending" /\ ~entry[f].waits}
    IN
    /\ run[r].at = "idle" /\ due # {} /\ flushes < MaxFlushes
    /\ \E f \in due :
         run' = [run EXCEPT ![r] = [Idle EXCEPT !.at = "mark", !.file = f,
                    !.receipt = Row(f).receipt,
                    !.ready = {Row(g) : g \in due \ {f}}]]
    /\ flushes' = flushes + 1
    /\ shared' = shared \cup (due \cap UNION {Listed(q) : q \in Runs \ {r}})
    /\ UNCHANGED <<client, server, lost, stranded, mishaps>>

(* An UPDATE of a row that is gone changes nothing. *)
Updated(f, to) == IF entry[f].status = "removed" THEN entry
                  ELSE [entry EXCEPT ![f] = to]

MarkUploading(r) ==
    LET f == run[r].file IN
    /\ run[r].at = "mark"
    /\ entry' = Updated(f, [entry[f] EXCEPT !.status = "uploading"])
    /\ run' = [run EXCEPT ![r].at = "read"]
    /\ UNCHANGED <<cache, dropping, server, history>>

(* A slip: the file is sent again whatever the row remembers. *)
ReadBlobToPost(r) ==
    LET f == run[r].file IN
    /\ run[r].at = "read"
    /\ IF f \in Range(cache)
       THEN /\ cache' = Touched(f)
            /\ run' = [run EXCEPT ![r].at = "post"]
       ELSE cache' = cache /\ run' = [run EXCEPT ![r].at = "settle",
                                               ![r].outcome = "rejected"]
    /\ UNCHANGED <<entry, dropping, server, history>>

Ends(r, outcome) == [run EXCEPT ![r].at = "settle", ![r].outcome = outcome]

(* getReceiptBlob; a receipt made earlier goes straight to the attach.     *)
ReadBlob(r) ==
    LET f == run[r].file IN
    /\ run[r].at = "read"
    /\ IF f \in Range(cache)
       THEN /\ cache' = Touched(f)
            /\ run' = [run EXCEPT ![r].at =
                  IF run[r].receipt = NoReceipt THEN "post" ELSE "attach"]
       ELSE cache' = cache /\ run' = Ends(r, "rejected")
    /\ UNCHANGED <<entry, dropping, server, history>>

(* POST /receipts.  Any answer but 201 rejects (a virus, a quota, a scan   *)
(* service that is down); no answer is a retry, whether or not the server  *)
(* made the receipt.                                                       *)
Post(r) ==
    LET f == run[r].file IN
    /\ run[r].at = "post"
    /\ \/ /\ posted' = [posted EXCEPT ![f] = @ + 1]
          /\ \/ /\ run' = [run EXCEPT ![r].at = "attach",
                                      ![r].receipt = <<f, posted[f] + 1>>]
                /\ UNCHANGED <<lost, mishaps>>
             \/ /\ Faulty
                /\ lost' = [lost EXCEPT ![f] = @ + 1]
                /\ run' = Ends(r, "retry")
       \/ /\ Faulty
          /\ \E outcome \in {"retry", "rejected"} : run' = Ends(r, outcome)
          /\ UNCHANGED <<posted, lost>>
    /\ UNCHANGED <<client, attached, version, synced, strays, other, removed,
                   deleted, shared, stranded, flushes>>

(* attachReceipt: the transaction and the receipt are loaded and checked.  *)
Attach(r) ==
    LET id == run[r].receipt IN
    /\ run[r].at = "attach"
    /\ \/ /\ run' = IF synced /\ id \notin deleted \cup attached
                    THEN [run EXCEPT ![r].at = "save", ![r].seen = version,
                                     ![r].ids = attached]
                    ELSE Ends(r, "rejected")
          /\ UNCHANGED mishaps
       \/ Faulty /\ run' = Ends(r, "retry")
    /\ UNCHANGED <<client, server, lost, shared, stranded, flushes>>

(* A slip: __v is not looked at. *)
SavesUnchecked(seen, ids) == attached' = ids /\ version' = version + 1

(* save() of a whole array: Mongoose lets it through only if __v is still  *)
(* the one that was loaded.                                                *)
Saves(seen, ids) ==
    IF seen = version
    THEN attached' = ids /\ version' = version + 1
    ELSE UNCHANGED <<attached, version>>

(* Its answer, if it comes; or the caller gives up while it is under way.  *)
Save(r) ==
    LET id == run[r].receipt
        ids == run[r].ids \cup {id}
    IN
    /\ run[r].at = "save"
    /\ \/ /\ Saves(run[r].seen, ids)
          /\ \/ /\ run' = Ends(r, IF run[r].seen = version THEN "uploaded"
                                  ELSE "rejected")
                /\ UNCHANGED mishaps
             \/ Faulty /\ run' = Ends(r, "retry")
          /\ UNCHANGED strays
       \/ /\ Faulty /\ run' = Ends(r, "retry")
          /\ strays' = strays \cup {[seen |-> run[r].seen, ids |-> ids]}
          /\ UNCHANGED <<attached, version>>
    /\ UNCHANGED <<client, posted, synced, other, removed, deleted, lost, shared,
                   stranded, flushes>>

SavesLate(s) ==
    /\ s \in strays
    /\ strays' = strays \ {s}
    /\ Saves(s.seen, s.ids)
    /\ UNCHANGED <<client, run, posted, synced, other, removed, deleted, history>>

(* A slip: the receipt of an unfinished attempt is forgotten. *)
SettledAnew(r) ==
    LET e == entry[run[r].file] IN
    CASE run[r].outcome = "uploaded" ->
            [e EXCEPT !.status = "uploaded", !.receipt = run[r].receipt]
      [] run[r].outcome = "rejected" -> [e EXCEPT !.status = "rejected"]
      [] run[r].outcome = "retry" ->
            [e EXCEPT !.status = "pending", !.waits = TRUE]

(* And a slip: only a verdict is written back. *)
SettledVerdictsOnly(r) ==
    IF run[r].outcome = "retry" THEN entry[run[r].file] ELSE SettledAnew(r)

(* The row after an attempt.  A receipt that was made is remembered, so    *)
(* that the next attempt resumes at the attach.                            *)
Settled(r) ==
    LET e == entry[run[r].file] IN
    CASE run[r].outcome = "uploaded" ->
            [e EXCEPT !.status = "uploaded", !.receipt = run[r].receipt]
      [] run[r].outcome = "rejected" -> [e EXCEPT !.status = "rejected"]
      [] run[r].outcome = "retry" ->
            [e EXCEPT !.status = "pending", !.waits = TRUE,
                      !.receipt = IF run[r].receipt = NoReceipt THEN @
                                  ELSE run[r].receipt]

SettleUpload(r) ==
    /\ run[r].at = "settle"
    /\ entry' = Updated(run[r].file, Settled(r))
    /\ \/ /\ run[r].ready = {}
          /\ run' = [run EXCEPT ![r] = Idle]
       \/ \E row \in run[r].ready :
            run' = [run EXCEPT ![r] = [Idle EXCEPT !.at = "mark",
                       !.file = row.file, !.receipt = row.receipt,
                       !.ready = run[r].ready \ {row}]]
    /\ UNCHANGED <<cache, dropping, server, history>>

(* The tab is closed.  Only 'pending' is ever listed again. *)
Kill(r) ==
    /\ run[r].at # "idle" /\ Faulty
    /\ run' = [run EXCEPT ![r] = Idle]
    /\ stranded' = stranded \cup {run[r].file}
    /\ strays' = IF run[r].at # "save" THEN strays
                 ELSE strays \cup {[seen |-> run[r].seen,
                                    ids |-> run[r].ids \cup {run[r].receipt}]}
    /\ UNCHANGED <<client, posted, attached, version, synced, other, removed,
                   deleted, lost, shared, flushes>>
-----------------------------------------------------------------------------
(* The outbox pushes the transaction, independently of this queue. *)
PushTransaction ==
    /\ ~synced /\ synced' = TRUE
    /\ UNCHANGED <<client, run, posted, attached, version, strays, other,
                   removed, deleted, history>>

(* detachReceipt loads, filters and saves; deleteReceipt pulls the id out  *)
(* of the transaction, with no look at __v, and then buries the receipt.   *)
Detaches(id) ==
    /\ other.do = "none" /\ id \in attached
    /\ other' = [do |-> "detach", receipt |-> id, seen |-> version,
                 ids |-> attached \ {id}]
    /\ UNCHANGED <<client, run, posted, attached, version, synced, strays,
                   removed, deleted, history>>

Detach ==
    /\ other.do = "detach"
    /\ Saves(other.seen, other.ids)
    /\ removed' = IF other.seen = version THEN removed \cup {other.receipt}
                  ELSE removed
    /\ other' = NoOther
    /\ UNCHANGED <<client, run, posted, synced, strays, deleted, history>>

PullReceipt(id) ==
    /\ other.do = "none" /\ id \notin deleted
    /\ attached' = attached \ {id}
    /\ removed' = removed \cup {id}
    /\ other' = [NoOther EXCEPT !.do = "delete", !.receipt = id]
    /\ UNCHANGED <<client, run, posted, version, synced, strays, deleted, history>>

Delete ==
    /\ other.do = "delete"
    /\ deleted' = deleted \cup {other.receipt}
    /\ other' = NoOther
    /\ UNCHANGED <<client, run, posted, attached, version, synced, strays,
                   removed, history>>

Receipts == {<<f, k>> : f \in Files, k \in 1..(MaxFlushes + MaxMishaps)}
Known == {id \in Receipts : id[2] <= posted[id[1]]}
-----------------------------------------------------------------------------
UploadsInit ==
    /\ entry = [f \in Files |-> NoEntry]
    /\ cache = <<>> /\ dropping = {}
    /\ run = [r \in Runs |-> Idle]
    /\ posted = [f \in Files |-> 0]
    /\ attached = {} /\ version = 0
    /\ synced \in BOOLEAN
    /\ strays = {} /\ other = NoOther /\ removed = {} /\ deleted = {}
    /\ lost = [f \in Files |-> 0]
    /\ shared = {} /\ stranded = {}
    /\ flushes = 0 /\ mishaps = 0

Works(r) ==
    \/ MarkUploading(r) \/ ReadBlob(r) \/ Post(r)
    \/ Attach(r) \/ Save(r) \/ SettleUpload(r)

UploadsNext ==
    \/ \E f \in Files : \/ CaptureFile(f) \/ Preview(f) \/ BackoffEnds(f)
                        \/ Dismiss(f) \/ DropBlob(f) \/ Promote(f)
    \/ \E r \in Runs : Flush(r) \/ Works(r) \/ Kill(r)
    \/ \E s \in strays : SavesLate(s)
    \/ PushTransaction \/ Detach \/ Delete
    \/ \E id \in Known : Detaches(id) \/ PullReceipt(id)

UploadsSpec == UploadsInit /\ [][UploadsNext]_uploadVars
-----------------------------------------------------------------------------
UploadsTypeOK ==
    /\ entry \in [Files -> [status: Unresolved \cup {"none", "uploaded",
                                                     "rejected", "removed"},
                            receipt: Receipts \cup {NoReceipt}, waits: BOOLEAN]]
    /\ IsInjective(cache) /\ Range(cache) \subseteq Files
    /\ \A r \in Runs :
         run[r].at \in {"idle", "mark", "read", "post", "attach", "save", "settle"}
    /\ attached \subseteq Known /\ deleted \subseteq removed
    /\ version \in Nat /\ synced \in BOOLEAN

(* "skip re-uploading and resume at the attach step, otherwise a retry     *)
(* [...] would create a second, orphaned receipt on the server every time" *)
(* (receiptUploadQueue.ts:318): a file is posted again only if an answer   *)
(* to its POST was lost, or two runs had listed it.                        *)
ReuploadHasCause ==
    \A f \in Files : posted[f] <= 1 + lost[f] \/ f \in shared

(* However often a file is sent and whatever is lost, the transaction ends *)
(* up with it once, unless two runs had it in hand at a time.              *)
AttachedOnce ==
    \A f \in Files \ shared : Cardinality({id \in attached : id[1] = f}) <= 1

(* An entry shown as uploaded is on the transaction, unless it was taken   *)
(* off again: a save of receiptIds by another request does not drop it.    *)
UploadedIsAttached ==
    \A f \in Files :
        entry[f].status = "uploaded" => entry[f].receipt \in attached \cup removed

(* The cache never gives up a blob while its entry is waiting to be sent   *)
(* (receiptBlobCache.ts:18), from the moment it is queued.  (With the      *)
(* types: the cache holds no file twice.)                                  *)
QueuedBlobIsSpared ==
    []UploadsTypeOK /\ [][\A f \in Files :
          Waiting(f) /\ f \in Range(cache) /\ f \notin Range(cache')
          => entry'[f].status \in {"rejected", "removed"} \/ f \in dropping]_uploadVars

(* "uploading -> pending again on a transient failure"                     *)
(* (receiptUploadQueue.ts:28): an entry is under way only while a run has  *)
(* it in hand; only the death of that run leaves it so, for ever.          *)
SendingHasARun ==
    \A f \in Files \ stranded :
        entry[f].status = "uploading" => \E r \in Runs : run[r].file = f
=============================================================================
