---------------------------- MODULE Device_proofs ----------------------------
(* What holds of a device.  Of the receipts captured on it (Receipt-   *)
(* Uploads), for any number of files, runs, flushes and faults; of its pull *)
(* (PullCursor), for any number of collections, documents, writes and      *)
(* faults and any size of a page, when writes are committed in the order   *)
(* of their stamps; and of the database its tasks share (LocalStore), for  *)
(* any number of tasks, changes and pages.                                 *)
EXTENDS ReceiptUploads, PullCursor, LocalStore,
        FiniteSetTheorems, SequenceTheorems, WellFoundedInduction, TLAPS

-----------------------------------------------------------------------------
(* The receipts. *)

Ids == {<<f, i>> : f \in Files, i \in Nat}
MaybeIds == Ids \cup {NoReceipt}
ListedRows == [file : Files, receipt : MaybeIds]
Entries == [status : Unresolved \cup {"none", "uploaded", "rejected", "removed"},
            receipt : MaybeIds, waits : BOOLEAN]
RunStates == [at : {"idle", "mark", "read", "post", "attach", "save", "settle"},
              ready : SUBSET ListedRows, file : Files \cup {NoReceipt}, receipt : MaybeIds,
              seen : Nat, ids : SUBSET Ids,
              outcome : {"none", "uploaded", "rejected", "retry"}]
Saved == [seen : Nat, ids : SUBSET Ids]
Others == [do : {"none", "detach", "delete"}, receipt : MaybeIds, seen : Nat,
           ids : SUBSET Ids]

Active(r) == run[r].at # "idle"
Hands(r, f) == Active(r) /\ run[r].file = f
Lists(r, f) == \E item \in run[r].ready : item.file = f

UploadsTyped ==
    /\ entry \in [Files -> Entries] /\ run \in [Runs -> RunStates]
    /\ posted \in [Files -> Nat] /\ lost \in [Files -> Nat] /\ version \in Nat
    /\ attached \subseteq Ids /\ removed \subseteq Ids
    /\ strays \subseteq Saved /\ other \in Others

(* What a run has fits its place: a file once it is under way, no receipt  *)
(* before the POST and one after it, a verdict at the end.                 *)
Placed == \A r \in Runs :
    /\ IF Active(r) THEN run[r].file \in Files ELSE run[r].ready = {}
    /\ run[r].at = "post" => run[r].receipt = NoReceipt
    /\ run[r].at \in {"attach", "save"} => run[r].receipt \in Ids
    /\ run[r].at = "settle" => run[r].outcome \in {"uploaded", "rejected", "retry"}
    /\ run[r].at = "settle" /\ run[r].outcome = "uploaded" => run[r].receipt \in Ids

(* Who holds a receipt holds it with its file.                             *)
Owned ==
    /\ \A f \in Files : entry[f].receipt # NoReceipt => entry[f].receipt[1] = f
    /\ \A r \in Runs : run[r].receipt # NoReceipt => run[r].receipt[1] = run[r].file
    /\ \A r \in Runs : \A item \in run[r].ready :
          item.receipt # NoReceipt => item.receipt[1] = item.file

(* A run has each file once; a file two runs never shared is with one run. *)
Alone ==
    /\ \A r \in Runs : \A item, twin \in run[r].ready :
          ~Hands(r, item.file) /\ (item.file = twin.file => item = twin)
    /\ \A f \in Files \ shared, r, q \in Runs :
          (Hands(r, f) \/ Lists(r, f)) /\ (Hands(q, f) \/ Lists(q, f)) => r = q

(* From the mark to its end an attempt shows in the entry, if that is      *)
(* still there: nobody else lists it.                                      *)
Marked == \A f \in Files \ shared, r \in Runs :
    Hands(r, f) /\ run[r].at # "mark" => entry[f].status \in {"uploading", "removed"}

(* An id that somebody knows of, or that is on the way to the transaction. *)
InSight(id) ==
    \/ id \in attached
    \/ \E f \in Files : entry[f].receipt = id
    \/ \E r \in Runs : \/ run[r].receipt = id \/ id \in run[r].ids
                       \/ \E item \in run[r].ready : item.receipt = id
    \/ \E s \in strays : id \in s.ids
    \/ id \in other.ids
OneName == \A f \in Files \ shared, i, j \in Nat :
    InSight(<<f, i>>) /\ InSight(<<f, j>>) => i = j
Answered ==
    /\ \A f \in Files : lost[f] <= posted[f]
    /\ \A f \in Files \ shared, i \in Nat : InSight(<<f, i>>) => lost[f] < posted[f]
    /\ \A f \in Files, i \in Nat : InSight(<<f, i>>) => i \in 1..posted[f]

(* Who may send a file without an id has had no answer to any POST of it.  *)
Unanswered == \A f \in Files \ shared :
    /\ \A r \in Runs : Hands(r, f) /\ run[r].receipt = NoReceipt => posted[f] <= lost[f]
    /\ \A r \in Runs : \A item \in run[r].ready :
          item.file = f /\ item.receipt = NoReceipt => posted[f] <= lost[f]
    /\ entry[f].status \in {"none", "pending"} /\ entry[f].receipt = NoReceipt
          => posted[f] <= lost[f]

(* What SendingHasARun lacks to be inductive: the run is at work.          *)
Sending == \A f \in Files \ stranded :
    entry[f].status = "uploading" => \E r \in Runs : Hands(r, f)

(* If __v has not moved, the copy a save writes back has all there is.     *)
Current ==
    /\ \A r \in Runs : run[r].at = "save" =>
          run[r].seen <= version /\ (run[r].seen = version => attached \subseteq run[r].ids)
    /\ \A s \in strays : s.seen <= version /\ (s.seen = version => attached \subseteq s.ids)
    /\ other.do = "detach" =>
          /\ other.receipt \in Ids /\ other.seen <= version
          /\ other.seen = version => attached \subseteq other.ids \cup {other.receipt}
UploadsKept ==
    /\ UploadedIsAttached
    /\ \A r \in Runs : run[r].at = "settle" /\ run[r].outcome = "uploaded" =>
          run[r].receipt \in attached \cup removed

UploadsInv ==
    /\ UploadsTyped /\ Placed /\ Owned /\ Alone /\ Marked /\ OneName /\ Answered
    /\ Unanswered /\ Sending /\ Current /\ UploadsKept /\ ReuploadHasCause
-----------------------------------------------------------------------------
LEMMA NoReceiptIsNoId == NoReceipt \notin Ids
<1>1. ASSUME NEW f \in Files, NEW i \in Nat PROVE <<>> # <<f, i>>
  <2>1. Len(<<>>) = 0 /\ Len(<<f, i>>) = 2
      OBVIOUS
  <2> QED BY <2>1
<1> QED BY <1>1 DEF NoReceipt, Ids

LEMMA IdParts ==
    ASSUME NEW id \in Ids
    PROVE  \E i \in Nat : id[1] \in Files /\ id = <<id[1], i>>
BY DEF Ids

(* Names stay one while nobody learns a new one and nothing is posted.     *)
LEMMA NamesKept ==
    ASSUME OneName, Answered, UNCHANGED <<posted, lost>>, shared \subseteq shared',
           \A id \in Ids : InSight(id)' => InSight(id)
    PROVE  OneName' /\ Answered'
<1>1. \A f \in Files, i \in Nat : <<f, i>> \in Ids
    BY DEF Ids
<1> QED BY <1>1 DEF OneName, Answered

(* Who holds what depends on which runs are at work, on which files.       *)
LEMMA HoldingsKept ==
    ASSUME Alone, UNCHANGED shared,
           \A r \in Runs : /\ run'[r].file = run[r].file /\ run'[r].ready = run[r].ready
                           /\ Active(r)' <=> Active(r)
    PROVE  Alone'
BY DEF Alone, Hands, Lists

(* The variables the invariant is about. *)
told == <<entry, run, posted, lost, version, attached, removed, strays, other,
          shared, stranded>>
LEMMA Untold ==
    ASSUME UploadsInv, UNCHANGED told PROVE UploadsInv'
<1> USE DEF told, Active, Hands, Lists
<1>1. \A id \in Ids : InSight(id)' <=> InSight(id)
    BY DEF InSight
<1>2. OneName' /\ Answered'
    BY <1>1, NamesKept DEF UploadsInv
<1>3. (UploadsTyped /\ Placed /\ Owned /\ Alone)'
    BY DEF UploadsInv, UploadsTyped, Placed, Owned, Alone
<1>4. (Marked /\ Unanswered /\ Sending)'
    BY DEF UploadsInv, Marked, Unanswered, Sending
<1>5. (Current /\ UploadsKept /\ ReuploadHasCause)'
    BY DEF UploadsInv, Current, UploadsKept, ReuploadHasCause, UploadedIsAttached
<1> QED BY <1>2, <1>3, <1>4, <1>5 DEF UploadsInv
-----------------------------------------------------------------------------
(* What the user does touches a row, never its receipt.                    *)
LEMMA RowTouched ==
    ASSUME UploadsInv, NEW f \in Files,
           UNCHANGED <<run, server, history>>,
           entry' \in [Files -> Entries],
           \A g \in Files \ {f} : entry'[g] = entry[g],
           entry'[f].receipt = entry[f].receipt,
           \/ entry'[f].status = entry[f].status
           \/ entry[f].status = "none" /\ entry'[f].status = "pending"
           \/ entry'[f].status = "removed"
    PROVE  UploadsInv'
<1> USE DEF UploadsInv, server, history
<1>1. \A g \in Files : entry'[g].receipt = entry[g].receipt
    OBVIOUS
<1>2. \A g \in Files : \/ entry'[g].status = entry[g].status
                       \/ entry[g].status = "none" /\ entry'[g].status = "pending"
                       \/ entry'[g].status = "removed"
    OBVIOUS
<1>3. UploadsTyped' /\ Placed'
    BY DEF UploadsTyped, Placed, Active
<1>4. Owned' /\ Alone'
    BY <1>1 DEF Owned, Alone, Hands, Lists, Active
<1>5. \A id \in Ids : InSight(id)' => InSight(id)
    BY <1>1 DEF InSight
<1>6. OneName' /\ Answered'
    BY <1>5, NamesKept
<1>7. Marked'
  <2> SUFFICES ASSUME NEW g \in Files \ shared, NEW r \in Runs, Hands(r, g),
                      run[r].at # "mark"
               PROVE  entry'[g].status \in {"uploading", "removed"}
      BY DEF Marked, Hands, Active
  <2> QED BY <1>2 DEF Marked
<1>8. Unanswered'
    BY <1>1, <1>2 DEF Unanswered, Hands, Active
<1>9. Sending'
    BY <1>2 DEF Sending, Hands, Active
<1>10. Current' /\ ReuploadHasCause'
    BY DEF Current, ReuploadHasCause
<1>11. UploadsKept'
    BY <1>1, <1>2 DEF UploadsKept, UploadedIsAttached
<1> QED BY <1>3, <1>4, <1>6, <1>7, <1>8, <1>9, <1>10, <1>11

LEMMA UserStep ==
    ASSUME UploadsInv, NEW f \in Files,
           CaptureFile(f) \/ BackoffEnds(f) \/ Dismiss(f) \/ Promote(f)
    PROVE  UploadsInv'
<1>1. entry \in [Files -> Entries]
    BY DEF UploadsInv, UploadsTyped
<1>2. CASE CaptureFile(f)
  <2>1. entry[f].status = "none"
      BY <1>2 DEF CaptureFile, NoEntry
  <2> QED BY <1>1, <1>2, <2>1, RowTouched DEF CaptureFile, Entries, Unresolved
<1>3. CASE BackoffEnds(f)
    BY <1>1, <1>3, RowTouched DEF BackoffEnds, Entries, Unresolved
<1>4. CASE Dismiss(f)
    BY <1>1, <1>4, RowTouched DEF Dismiss, Entries, Unresolved
<1>5. CASE Promote(f)
    BY <1>1, <1>5, RowTouched DEF Promote, Entries, Unresolved
<1> QED BY <1>2, <1>3, <1>4, <1>5
-----------------------------------------------------------------------------
(* A step within an attempt: the run stays with its file and its list.     *)
GoesOn(r, s) ==
    /\ Active(r) /\ run' = [run EXCEPT ![r] = s] /\ s \in RunStates
    /\ s.at # "idle" /\ s.file = run[r].file /\ s.ready = run[r].ready

LEMMA GoingOn ==
    ASSUME UploadsTyped, NEW r \in Runs, NEW s, GoesOn(r, s)
    PROVE  /\ run' \in [Runs -> RunStates] /\ run'[r] = s
           /\ \A q \in Runs \ {r} : run'[q] = run[q]
           /\ \A q \in Runs : /\ run'[q].file = run[q].file /\ run'[q].ready = run[q].ready
                              /\ Active(q)' <=> Active(q)
           /\ \A f : \A q \in Runs : Hands(q, f)' <=> Hands(q, f)
BY DEF UploadsTyped, GoesOn, Active, Hands

LEMMA MarkStep ==
    ASSUME UploadsInv, NEW r \in Runs, MarkUploading(r) PROVE UploadsInv'
<1> DEFINE f == run[r].file
           s == [run[r] EXCEPT !.at = "read"]
<1>1. run[r] \in RunStates /\ f \in Files
    BY DEF UploadsInv, UploadsTyped, Placed, Active, MarkUploading
<1>2. GoesOn(r, s)
    BY <1>1 DEF GoesOn, Active, MarkUploading, RunStates
<1>3. /\ entry' \in [Files -> Entries]
      /\ \A g \in Files : /\ entry'[g].receipt = entry[g].receipt
                          /\ g # f => entry'[g] = entry[g]
      /\ entry'[f].status = IF entry[f].status = "removed" THEN "removed" ELSE "uploading"
    BY <1>1 DEF UploadsInv, UploadsTyped, MarkUploading, Updated, Entries, Unresolved
<1>4. UNCHANGED <<cache, dropping, server, history>>
    BY DEF MarkUploading
<1>5. s.at = "read" /\ s.receipt = run[r].receipt /\ s.ids = run[r].ids /\ Active(r)
    BY <1>1 DEF RunStates, MarkUploading, Active
<1>6. Hands(r, f)
    BY <1>5 DEF Hands
<1>7. ASSUME UploadsTyped
      PROVE  /\ run' \in [Runs -> RunStates] /\ run'[r] = s
             /\ \A q \in Runs \ {r} : run'[q] = run[q]
             /\ \A q \in Runs : /\ run'[q].file = run[q].file /\ run'[q].ready = run[q].ready
                                /\ Active(q)' <=> Active(q)
             /\ \A g : \A q \in Runs : Hands(q, g)' <=> Hands(q, g)
    BY <1>2, <1>7, GoingOn
<1> HIDE DEF s
<1> USE DEF UploadsInv, server, history
<1>8. UploadsTyped' /\ Placed'
    BY <1>3, <1>4, <1>5, <1>7 DEF UploadsTyped, Placed, Active
<1>9. Owned' /\ Alone'
    BY <1>3, <1>4, <1>5, <1>7, HoldingsKept DEF Owned
<1>10. \A id \in Ids : InSight(id)' => InSight(id)
    BY <1>3, <1>4, <1>5, <1>7 DEF InSight
<1>11. OneName' /\ Answered'
    BY <1>4, <1>10, NamesKept
<1>12. Marked'
  <2> SUFFICES ASSUME NEW g \in Files \ shared, NEW q \in Runs, Hands(q, g)',
                      run'[q].at # "mark"
               PROVE  entry'[g].status \in {"uploading", "removed"}
      BY <1>4 DEF Marked
  <2>1. Hands(q, g)
      BY <1>7
  <2>2. CASE g = f
      BY <1>3, <2>2
  <2>3. CASE g # f
    <3>1. q # r
        BY <2>1, <2>3 DEF Hands
    <3> QED BY <1>3, <1>7, <2>1, <2>3, <3>1 DEF Marked
  <2> QED BY <2>2, <2>3
<1>13. Unanswered'
    BY <1>3, <1>4, <1>5, <1>7 DEF Unanswered
<1>14. Sending'
    BY <1>1, <1>3, <1>4, <1>6, <1>7 DEF Sending
<1>15. Current' /\ ReuploadHasCause'
    BY <1>4, <1>5, <1>7 DEF Current, ReuploadHasCause
<1>16. UploadsKept'
    BY <1>1, <1>3, <1>4, <1>5, <1>7 DEF UploadsKept, UploadedIsAttached
<1> QED BY <1>8, <1>9, <1>11, <1>12, <1>13, <1>14, <1>15, <1>16
-----------------------------------------------------------------------------
(* A step beyond the mark that leaves the rows alone and names nothing new.*)
LEMMA AttemptStep ==
    ASSUME UploadsInv, NEW r \in Runs, NEW s, GoesOn(r, s), run[r].at # "mark",
           s.receipt = run[r].receipt,
           UNCHANGED <<entry, posted, lost, shared, stranded, other>>,
           \A id \in attached' \cup s.ids : InSight(id),
           \A x \in strays' : \A id \in x.ids : InSight(id)
    PROVE  /\ Owned' /\ Alone' /\ Marked' /\ OneName' /\ Answered' /\ Unanswered'
           /\ Sending' /\ ReuploadHasCause'
<1>1. /\ run' \in [Runs -> RunStates] /\ run'[r] = s
      /\ \A q \in Runs \ {r} : run'[q] = run[q]
      /\ \A q \in Runs : /\ run'[q].file = run[q].file /\ run'[q].ready = run[q].ready
                         /\ Active(q)' <=> Active(q)
      /\ \A g : \A q \in Runs : Hands(q, g)' <=> Hands(q, g)
    BY GoingOn DEF UploadsInv
<1> USE DEF UploadsInv
<1>2. \A q \in Runs : run'[q].receipt = run[q].receipt
    BY <1>1
<1>3. Owned' /\ Alone'
    BY <1>1, <1>2, HoldingsKept DEF Owned
<1>4. Marked' /\ Unanswered' /\ Sending' /\ ReuploadHasCause'
    BY <1>1, <1>2 DEF Marked, Unanswered, Sending, ReuploadHasCause
<1>5. \A id \in Ids : InSight(id)' => InSight(id)
  <2> SUFFICES ASSUME NEW id \in Ids, InSight(id)' PROVE InSight(id)
      OBVIOUS
  <2>1. CASE id \in attached' \cup s.ids \/ \E x \in strays' : id \in x.ids
      BY <2>1
  <2>2. CASE id \notin attached' \cup s.ids /\ ~\E x \in strays' : id \in x.ids
      BY <1>1, <1>2, <2>2 DEF InSight
  <2> QED BY <2>1, <2>2
<1>6. OneName' /\ Answered'
    BY <1>5, NamesKept
<1> QED BY <1>3, <1>4, <1>6

LEMMA ReadStep ==
    ASSUME UploadsInv, NEW r \in Runs, ReadBlob(r) PROVE UploadsInv'
<1>1. run[r] \in RunStates /\ run[r].at = "read"
    BY DEF UploadsInv, UploadsTyped, ReadBlob
<1>2. PICK s : /\ run' = [run EXCEPT ![r] = s]
               /\ s.at \in {"post", "attach", "settle"} /\ s.file = run[r].file
               /\ s.ready = run[r].ready /\ s.receipt = run[r].receipt
               /\ s.ids = run[r].ids /\ s \in RunStates
               /\ s.at = "post" => run[r].receipt = NoReceipt
               /\ s.at = "attach" => run[r].receipt # NoReceipt
               /\ s.at = "settle" => s.outcome = "rejected"
  <2> DEFINE a == [run[r] EXCEPT !.at = IF run[r].receipt = NoReceipt THEN "post" ELSE "attach"]
             b == [run[r] EXCEPT !.at = "settle", !.outcome = "rejected"]
  <2>1. a \in RunStates /\ b \in RunStates
      BY <1>1 DEF RunStates
  <2>2. run' = [run EXCEPT ![r] = a] \/ run' = [run EXCEPT ![r] = b]
      BY DEF ReadBlob, Ends, UploadsInv, UploadsTyped
  <2> QED BY <1>1, <2>1, <2>2, ZenonT(40) DEF RunStates
<1>3. GoesOn(r, s)
    BY <1>1, <1>2 DEF GoesOn, Active
<1>4. run' \in [Runs -> RunStates] /\ run'[r] = s /\ \A q \in Runs \ {r} : run'[q] = run[q]
    BY <1>2 DEF UploadsInv, UploadsTyped
<1>5. UNCHANGED <<entry, server, history>>
    BY DEF ReadBlob
<1>6. /\ \A id \in attached' \cup s.ids : InSight(id)
      /\ \A x \in strays' : \A id \in x.ids : InSight(id)
    BY <1>2, <1>5 DEF InSight, server
<1> USE DEF UploadsInv, server, history
<1>7. /\ Owned' /\ Alone' /\ Marked' /\ OneName' /\ Answered' /\ Unanswered'
      /\ Sending' /\ ReuploadHasCause'
    BY <1>1, <1>2, <1>3, <1>5, <1>6, AttemptStep
<1>8. UploadsTyped' /\ Placed'
    BY <1>1, <1>2, <1>4, <1>5 DEF UploadsTyped, Placed, Active, RunStates, MaybeIds
<1>9. Current' /\ UploadsKept'
    BY <1>2, <1>4, <1>5 DEF Current, UploadsKept, UploadedIsAttached
<1> QED BY <1>7, <1>8, <1>9

(* An attempt ends and the server is left as it was.                       *)
LEMMA GivenUp ==
    ASSUME UploadsInv, NEW r \in Runs, run[r].at \in {"read", "post", "attach", "save"},
           NEW s, run' = [run EXCEPT ![r] = s], s \in RunStates,
           s.at = "settle", s.outcome \in {"retry", "rejected"}, s.file = run[r].file,
           s.ready = run[r].ready, s.receipt = run[r].receipt, s.ids = run[r].ids,
           UNCHANGED <<entry, posted, lost, attached, version, removed, other,
                       shared, stranded>>,
           strays' \subseteq Saved,
           \A x \in strays' \ strays :
              /\ \A id \in x.ids : InSight(id)
              /\ x.seen <= version /\ (x.seen = version => attached \subseteq x.ids)
    PROVE  UploadsInv'
<1>1. GoesOn(r, s)
    BY DEF GoesOn, Active
<1>2. run' \in [Runs -> RunStates] /\ run'[r] = s /\ \A q \in Runs \ {r} : run'[q] = run[q]
    BY DEF UploadsInv, UploadsTyped
<1>3. /\ \A id \in attached' \cup s.ids : InSight(id)
      /\ \A x \in strays' : \A id \in x.ids : InSight(id)
    BY DEF InSight
<1> USE DEF UploadsInv
<1>4. /\ Owned' /\ Alone' /\ Marked' /\ OneName' /\ Answered' /\ Unanswered'
      /\ Sending' /\ ReuploadHasCause'
    BY <1>1, <1>3, AttemptStep
<1>5. UploadsTyped' /\ Placed'
    BY <1>2 DEF UploadsTyped, Placed, Active
<1>6. Current' /\ UploadsKept'
    BY <1>2 DEF Current, UploadsKept, UploadedIsAttached
<1> QED BY <1>4, <1>5, <1>6

(* A receipt is made, and its id comes back or not.                        *)
LEMMA Posted ==
    ASSUME UploadsInv, NEW r \in Runs, run[r].at = "post", NEW s, GoesOn(r, s),
           s.ids = run[r].ids,
           posted' = [posted EXCEPT ![run[r].file] = @ + 1],
           \/ /\ s.at = "attach" /\ s.receipt = <<run[r].file, posted[run[r].file] + 1>>
              /\ UNCHANGED lost
           \/ /\ s.at = "settle" /\ s.outcome = "retry" /\ s.receipt = run[r].receipt
              /\ lost' = [lost EXCEPT ![run[r].file] = @ + 1],
           UNCHANGED <<entry, attached, version, removed, strays, other, shared, stranded>>
    PROVE  UploadsInv'
<1> DEFINE f == run[r].file
<1>1. /\ run' \in [Runs -> RunStates] /\ run'[r] = s
      /\ \A q \in Runs \ {r} : run'[q] = run[q]
      /\ \A q \in Runs : /\ run'[q].file = run[q].file /\ run'[q].ready = run[q].ready
                         /\ Active(q)' <=> Active(q)
      /\ \A g : \A q \in Runs : Hands(q, g)' <=> Hands(q, g)
    BY GoingOn DEF UploadsInv
<1> USE DEF UploadsInv
<1>2. f \in Files /\ Hands(r, f) /\ run[r].receipt = NoReceipt
    BY DEF Placed, Active, Hands
<1>3. /\ posted \in [Files -> Nat] /\ lost \in [Files -> Nat]
      /\ posted' \in [Files -> Nat] /\ lost' \in [Files -> Nat]
      /\ posted'[f] = posted[f] + 1 /\ lost'[f] \in {lost[f], lost[f] + 1}
      /\ \A g \in Files \ {f} : posted'[g] = posted[g] /\ lost'[g] = lost[g]
    BY <1>2 DEF UploadsTyped
<1>4. s.at = "attach" => s.receipt \in Ids /\ s.receipt[1] = f /\ lost' = lost
    BY <1>2, <1>3 DEF Ids
<1>5. s.at = "settle" => s.receipt = NoReceipt /\ lost'[f] = lost[f] + 1
    BY <1>2, <1>3
<1>6. UploadsTyped' /\ Placed'
    BY <1>1, <1>2, <1>3, <1>4 DEF UploadsTyped, Placed, Active
<1>7. Owned' /\ Alone'
    BY <1>1, <1>4, <1>5, HoldingsKept DEF Owned
<1>8. Marked' /\ Sending'
    BY <1>1 DEF Marked, Sending
<1>9. f \notin shared => posted[f] <= lost[f] /\ \A i \in Nat : ~InSight(<<f, i>>)
    BY <1>2, <1>3 DEF Unanswered, Answered
<1>10. \A id \in Ids : InSight(id)' => InSight(id) \/ id = s.receipt
    BY <1>1 DEF InSight
<1>11. \A g \in Files, i \in Nat : <<g, i>> \in Ids
    BY DEF Ids
<1>12. s.receipt \in Ids => s.receipt = <<f, posted[f] + 1>>
    BY <1>2, NoReceiptIsNoId
<1>13. ASSUME NEW g \in Files \ shared, NEW i \in Nat, InSight(<<g, i>>)'
       PROVE  \/ g # f /\ InSight(<<g, i>>)
              \/ g = f /\ i = posted[f] + 1 /\ s.at = "attach"
  <2>1. CASE <<g, i>> = s.receipt
    <3>1. <<g, i>> = <<f, posted[f] + 1>> /\ s.at = "attach"
        BY <1>5, <1>11, <1>12, <2>1, NoReceiptIsNoId
    <3> QED BY <3>1
  <2>2. CASE <<g, i>> # s.receipt
    <3>1. InSight(<<g, i>>)
        BY <1>10, <1>11, <1>13, <2>2
    <3> QED BY <1>9, <3>1
  <2> QED BY <2>1, <2>2
<1>14. OneName'
    BY <1>13 DEF OneName
<1>15. Answered'
  <2>1. ASSUME NEW g \in Files, NEW i \in Nat, InSight(<<g, i>>)'
        PROVE  i \in 1..posted'[g]
    <3>1. CASE InSight(<<g, i>>)
      <4>1. i \in 1..posted[g]
          BY <3>1 DEF Answered
      <4> QED BY <1>2, <1>3, <4>1
    <3>2. CASE ~InSight(<<g, i>>)
      <4>1. s.receipt = <<g, i>> /\ s.receipt \in Ids
          BY <1>10, <1>11, <2>1, <3>2
      <4>2. g = f /\ i = posted[f] + 1
          BY <1>12, <4>1
      <4> QED BY <1>2, <1>3, <4>2
    <3> QED BY <3>1, <3>2
  <2>2. /\ \A g \in Files : lost'[g] <= posted'[g]
        /\ \A g \in Files \ shared, i \in Nat : InSight(<<g, i>>)' => lost'[g] < posted'[g]
      BY <1>3, <1>4, <1>13 DEF Answered
  <2> QED BY <2>1, <2>2 DEF Answered
<1>16. Unanswered'
  <2> SUFFICES ASSUME NEW g \in Files \ shared PROVE
        /\ \A q \in Runs : Hands(q, g)' /\ run'[q].receipt = NoReceipt => posted'[g] <= lost'[g]
        /\ \A q \in Runs : \A item \in run'[q].ready :
              item.file = g /\ item.receipt = NoReceipt => posted'[g] <= lost'[g]
        /\ entry[g].status \in {"none", "pending"} /\ entry[g].receipt = NoReceipt
              => posted'[g] <= lost'[g]
      BY DEF Unanswered
  <2>1. CASE g # f
    <3>1. \A q \in Runs : Hands(q, g) => q # r
        BY <2>1 DEF Hands
    <3> QED BY <1>1, <1>3, <2>1, <3>1 DEF Unanswered
  <2>2. CASE g = f /\ s.at = "settle"
    <3>1. posted'[f] <= lost'[f]
        BY <1>3, <1>5, <1>9, <2>2
    <3> QED BY <2>2, <3>1
  <2>3. CASE g = f /\ s.at = "attach"
    <3>1. \A q \in Runs : Hands(q, f) \/ Lists(q, f) => q = r
        BY <1>2, <2>3 DEF Alone
    <3>2. ~Lists(r, f)
        BY <1>2 DEF Alone, Lists
    <3>3. s.receipt # NoReceipt
        BY <1>4, <2>3, NoReceiptIsNoId
    <3>4. entry[f].status \notin {"none", "pending"}
        BY <1>2, <2>3 DEF Marked
    <3> QED BY <1>1, <2>3, <3>1, <3>2, <3>3, <3>4 DEF Lists
  <2> QED BY <2>1, <2>2, <2>3
<1>17. ReuploadHasCause'
    BY <1>3, <1>9 DEF ReuploadHasCause
<1>18. Current' /\ UploadsKept'
    BY <1>1 DEF Current, UploadsKept, UploadedIsAttached
<1> QED BY <1>6, <1>7, <1>8, <1>14, <1>15, <1>16, <1>17, <1>18

LEMMA PostStep ==
    ASSUME UploadsInv, NEW r \in Runs, Post(r) PROVE UploadsInv'
<1> DEFINE f == run[r].file
           known == [run[r] EXCEPT !.at = "attach", !.receipt = <<f, posted[f] + 1>>]
           over(o) == [run[r] EXCEPT !.at = "settle", !.outcome = o]
<1>1. run[r] \in RunStates /\ run[r].at = "post" /\ f \in Files /\ posted[f] + 1 \in Nat
    BY DEF UploadsInv, UploadsTyped, Placed, Active, Post
<1>2. <<f, posted[f] + 1>> \in MaybeIds
    BY <1>1 DEF MaybeIds, Ids
<1>3. /\ known \in RunStates /\ known.at = "attach" /\ known.file = f
      /\ known.ready = run[r].ready /\ known.ids = run[r].ids
      /\ known.receipt = <<f, posted[f] + 1>>
    BY <1>1, <1>2 DEF RunStates
<1>4. \A o \in {"retry", "rejected"} :
         /\ over(o) \in RunStates /\ over(o).at = "settle" /\ over(o).file = f
         /\ over(o).ready = run[r].ready /\ over(o).ids = run[r].ids
         /\ over(o).receipt = run[r].receipt /\ over(o).outcome = o
    BY <1>1 DEF RunStates
<1>5. UNCHANGED <<entry, attached, version, removed, strays, other, shared, stranded>>
    BY DEF Post, client
<1>6. \/ /\ posted' = [posted EXCEPT ![f] = @ + 1] /\ UNCHANGED lost
         /\ run' = [run EXCEPT ![r] = known]
      \/ /\ posted' = [posted EXCEPT ![f] = @ + 1] /\ lost' = [lost EXCEPT ![f] = @ + 1]
         /\ run' = [run EXCEPT ![r] = over("retry")]
      \/ /\ UNCHANGED <<posted, lost>>
         /\ \E o \in {"retry", "rejected"} : run' = [run EXCEPT ![r] = over(o)]
    BY DEF Post, Ends, UploadsInv, UploadsTyped
<1> HIDE DEF known, over
<1>7. CASE /\ posted' = [posted EXCEPT ![f] = @ + 1] /\ UNCHANGED lost
           /\ run' = [run EXCEPT ![r] = known]
  <2>1. GoesOn(r, known)
      BY <1>1, <1>3, <1>7 DEF GoesOn, Active
  <2> QED BY <1>1, <1>3, <1>5, <1>7, <2>1, Posted
<1>8. CASE /\ posted' = [posted EXCEPT ![f] = @ + 1] /\ lost' = [lost EXCEPT ![f] = @ + 1]
           /\ run' = [run EXCEPT ![r] = over("retry")]
  <2>1. GoesOn(r, over("retry"))
      BY <1>1, <1>4, <1>8 DEF GoesOn, Active
  <2> QED BY <1>1, <1>4, <1>5, <1>8, <2>1, Posted
<1>9. CASE /\ UNCHANGED <<posted, lost>>
           /\ \E o \in {"retry", "rejected"} : run' = [run EXCEPT ![r] = over(o)]
  <2>1. PICK o \in {"retry", "rejected"} : run' = [run EXCEPT ![r] = over(o)]
      BY <1>9
  <2>2. strays' \subseteq Saved
      BY <1>5 DEF UploadsInv, UploadsTyped
  <2> QED BY <1>1, <1>4, <1>5, <1>9, <2>1, <2>2, GivenUp
<1> QED BY <1>6, <1>7, <1>8, <1>9

LEMMA AttachStep ==
    ASSUME UploadsInv, NEW r \in Runs, Attach(r) PROVE UploadsInv'
<1> DEFINE on == [run[r] EXCEPT !.at = "save", !.seen = version, !.ids = attached]
           over(o) == [run[r] EXCEPT !.at = "settle", !.outcome = o]
<1>1. /\ run[r] \in RunStates /\ run[r].at = "attach" /\ run[r].receipt \in Ids
      /\ version \in Nat /\ attached \subseteq Ids
    BY DEF UploadsInv, UploadsTyped, Placed, Attach
<1>2. /\ on \in RunStates /\ on.at = "save" /\ on.file = run[r].file
      /\ on.ready = run[r].ready /\ on.receipt = run[r].receipt
      /\ on.seen = version /\ on.ids = attached
    BY <1>1 DEF RunStates
<1>3. \A o \in {"retry", "rejected"} :
         /\ over(o) \in RunStates /\ over(o).at = "settle" /\ over(o).file = run[r].file
         /\ over(o).ready = run[r].ready /\ over(o).ids = run[r].ids
         /\ over(o).receipt = run[r].receipt /\ over(o).outcome = o
    BY <1>1 DEF RunStates
<1>4. UNCHANGED <<entry, server, lost, shared, stranded>>
    BY DEF Attach, client
<1>5. \/ run' = [run EXCEPT ![r] = on]
      \/ \E o \in {"retry", "rejected"} : run' = [run EXCEPT ![r] = over(o)]
    BY DEF Attach, Ends, UploadsInv, UploadsTyped
<1> HIDE DEF on, over
<1> USE DEF server
<1>6. CASE run' = [run EXCEPT ![r] = on]
  <2>1. GoesOn(r, on)
      BY <1>1, <1>2, <1>6 DEF GoesOn, Active
  <2>2. run' \in [Runs -> RunStates] /\ run'[r] = on /\ \A q \in Runs \ {r} : run'[q] = run[q]
      BY <1>2, <1>6 DEF UploadsInv, UploadsTyped
  <2>3. /\ \A id \in attached' \cup on.ids : InSight(id)
        /\ \A x \in strays' : \A id \in x.ids : InSight(id)
      BY <1>2, <1>4 DEF InSight
  <2>4. /\ Owned' /\ Alone' /\ Marked' /\ OneName' /\ Answered' /\ Unanswered'
        /\ Sending' /\ ReuploadHasCause'
      BY <1>1, <1>2, <1>4, <2>1, <2>3, AttemptStep
  <2>5. UploadsTyped' /\ Placed'
      BY <1>1, <1>2, <1>4, <2>2 DEF UploadsInv, UploadsTyped, Placed, Active
  <2>6. Current' /\ UploadsKept'
      BY <1>1, <1>2, <1>4, <2>2 DEF UploadsInv, Current, UploadsKept, UploadedIsAttached
  <2> QED BY <2>4, <2>5, <2>6 DEF UploadsInv
<1>7. CASE \E o \in {"retry", "rejected"} : run' = [run EXCEPT ![r] = over(o)]
  <2>1. PICK o \in {"retry", "rejected"} : run' = [run EXCEPT ![r] = over(o)]
      BY <1>7
  <2>2. strays' \subseteq Saved
      BY <1>4 DEF UploadsInv, UploadsTyped
  <2> QED BY <1>1, <1>3, <1>4, <2>1, <2>2, GivenUp
<1> QED BY <1>5, <1>6, <1>7

(* The save is carried out: nothing that was attached is dropped by it.    *)
LEMMA UploadsWritten ==
    ASSUME UploadsInv, NEW r \in Runs, run[r].at = "save", run[r].seen = version,
           NEW s, run' = [run EXCEPT ![r] = s], s \in RunStates,
           s.at = "settle", s.outcome \in {"uploaded", "retry"}, s.file = run[r].file,
           s.ready = run[r].ready, s.receipt = run[r].receipt, s.ids = run[r].ids,
           attached' = run[r].ids \cup {run[r].receipt}, version' = version + 1,
           UNCHANGED <<entry, posted, lost, removed, strays, other, shared, stranded>>
    PROVE  UploadsInv'
<1>1. GoesOn(r, s)
    BY DEF GoesOn, Active
<1>2. run' \in [Runs -> RunStates] /\ run'[r] = s /\ \A q \in Runs \ {r} : run'[q] = run[q]
    BY DEF UploadsInv, UploadsTyped
<1>3. /\ run[r] \in RunStates /\ run[r].receipt \in Ids /\ version \in Nat
      /\ run[r].ids \subseteq Ids
    BY DEF UploadsInv, UploadsTyped, Placed, RunStates
<1>4. /\ \A id \in attached' \cup s.ids : InSight(id)
      /\ \A x \in strays' : \A id \in x.ids : InSight(id)
    BY DEF InSight
<1> USE DEF UploadsInv
<1>5. /\ Owned' /\ Alone' /\ Marked' /\ OneName' /\ Answered' /\ Unanswered'
      /\ Sending' /\ ReuploadHasCause'
    BY <1>1, <1>4, AttemptStep
<1>6. UploadsTyped' /\ Placed'
    BY <1>2, <1>3 DEF UploadsTyped, Placed, Active
<1>7. attached \subseteq attached' /\ run[r].receipt \in attached'
    BY DEF Current
<1>8. Current'
  <2>1. /\ \A q \in Runs : run'[q].at = "save" => run'[q].seen \in Nat /\ run'[q].seen <= version
        /\ \A x \in strays : x.seen \in Nat /\ x.seen <= version
        /\ other.do = "detach" =>
              other.receipt \in Ids /\ other.seen \in Nat /\ other.seen <= version
      BY <1>2 DEF Current, UploadsTyped, RunStates, Saved, Others
  <2> QED BY <1>3, <2>1 DEF Current
<1>9. UploadsKept'
    BY <1>2, <1>7 DEF UploadsKept, UploadedIsAttached
<1> QED BY <1>5, <1>6, <1>8, <1>9

LEMMA SaveStep ==
    ASSUME UploadsInv, NEW r \in Runs, Save(r) PROVE UploadsInv'
<1> DEFINE ids == run[r].ids \cup {run[r].receipt}
           stray == [seen |-> run[r].seen, ids |-> ids]
           over(o) == [run[r] EXCEPT !.at = "settle", !.outcome = o]
<1>1. /\ run[r] \in RunStates /\ run[r].at = "save" /\ run[r].receipt \in Ids
      /\ run[r].seen \in Nat /\ run[r].ids \subseteq Ids
    BY DEF UploadsInv, UploadsTyped, Placed, Save, RunStates
<1>2. \A o \in {"retry", "rejected", "uploaded"} :
         /\ over(o) \in RunStates /\ over(o).at = "settle" /\ over(o).file = run[r].file
         /\ over(o).ready = run[r].ready /\ over(o).ids = run[r].ids
         /\ over(o).receipt = run[r].receipt /\ over(o).outcome = o
    BY <1>1 DEF RunStates
<1>3. UNCHANGED <<entry, posted, lost, removed, other, shared, stranded>>
    BY DEF Save, client
<1>4. \/ /\ run[r].seen = version /\ attached' = ids /\ version' = version + 1
         /\ \E o \in {"retry", "uploaded"} : run' = [run EXCEPT ![r] = over(o)]
         /\ strays' = strays
      \/ /\ UNCHANGED <<attached, version, strays>>
         /\ \E o \in {"retry", "rejected"} : run' = [run EXCEPT ![r] = over(o)]
      \/ /\ UNCHANGED <<attached, version>> /\ strays' = strays \cup {stray}
         /\ run' = [run EXCEPT ![r] = over("retry")]
  <2>1. \A o : Ends(r, o) = [run EXCEPT ![r] = over(o)]
      BY DEF Ends, UploadsInv, UploadsTyped
  <2> HIDE DEF over
  <2> QED BY <2>1 DEF Save, Saves
<1>5. strays \subseteq Saved /\ stray \in Saved
    BY <1>1 DEF UploadsInv, UploadsTyped, Saved
<1>6. /\ \A id \in ids : InSight(id)
      /\ run[r].seen <= version /\ (run[r].seen = version => attached \subseteq ids)
    BY <1>1 DEF InSight, UploadsInv, Current
<1> HIDE DEF over
<1>7. CASE /\ run[r].seen = version /\ attached' = ids /\ version' = version + 1
           /\ \E o \in {"retry", "uploaded"} : run' = [run EXCEPT ![r] = over(o)]
           /\ strays' = strays
  <2>1. PICK o \in {"retry", "uploaded"} : run' = [run EXCEPT ![r] = over(o)]
      BY <1>7
  <2> QED BY <1>1, <1>2, <1>3, <1>7, <2>1, UploadsWritten, ZenonT(40)
<1>8. CASE /\ UNCHANGED <<attached, version, strays>>
           /\ \E o \in {"retry", "rejected"} : run' = [run EXCEPT ![r] = over(o)]
  <2>1. PICK o \in {"retry", "rejected"} : run' = [run EXCEPT ![r] = over(o)]
      BY <1>8
  <2> QED BY <1>1, <1>2, <1>3, <1>5, <1>8, <2>1, GivenUp, ZenonT(40)
<1>9. CASE /\ UNCHANGED <<attached, version>> /\ strays' = strays \cup {stray}
           /\ run' = [run EXCEPT ![r] = over("retry")]
  <2>1. strays' \subseteq Saved /\ \A x \in strays' \ strays : x.seen = run[r].seen /\ x.ids = ids
      BY <1>5, <1>9
  <2> QED BY <1>1, <1>2, <1>3, <1>6, <1>9, <2>1, GivenUp
<1> QED BY <1>4, <1>7, <1>8, <1>9

(* What becomes of the row: only a verdict, or a retry that forgets no id. *)
LEMMA SettledRow ==
    ASSUME UploadsInv, NEW r \in Runs, SettleUpload(r)
    PROVE  LET f == run[r].file IN
           /\ f \in Files /\ entry' \in [Files -> Entries]
           /\ \A g \in Files \ {f} : entry'[g] = entry[g]
           /\ entry'[f].receipt \in {entry[f].receipt, run[r].receipt}
           /\ entry'[f].status \in {"uploaded", "rejected", "pending", "removed"}
           /\ entry[f].status = "removed" => entry'[f].status = "removed"
           /\ entry'[f].status = "uploaded" =>
                 run[r].outcome = "uploaded" /\ entry'[f].receipt = run[r].receipt
           /\ entry'[f].status = "pending" =>
                 entry'[f].receipt = IF run[r].receipt = NoReceipt THEN entry[f].receipt
                                     ELSE run[r].receipt
<1> DEFINE f == run[r].file
<1>1. /\ run[r] \in RunStates /\ f \in Files /\ entry \in [Files -> Entries]
      /\ run[r].outcome \in {"uploaded", "rejected", "retry"} /\ entry[f] \in Entries
      /\ run[r].receipt \in MaybeIds
    BY DEF UploadsInv, UploadsTyped, Placed, Active, SettleUpload, RunStates
<1>2. CASE entry[f].status = "removed"
  <2>1. entry' = entry
      BY <1>2 DEF SettleUpload, Updated
  <2> QED BY <1>1, <1>2, <2>1
<1>3. CASE entry[f].status # "removed"
  <2> DEFINE e == Settled(r)
  <2>1. /\ e \in Entries /\ e.receipt \in {entry[f].receipt, run[r].receipt}
        /\ e.status \in {"uploaded", "rejected", "pending"}
        /\ e.status = "uploaded" => run[r].outcome = "uploaded" /\ e.receipt = run[r].receipt
        /\ e.status = "pending" =>
              e.receipt = IF run[r].receipt = NoReceipt THEN entry[f].receipt
                          ELSE run[r].receipt
    <3>1. CASE run[r].outcome = "uploaded"
        BY <1>1, <3>1 DEF Settled, Entries
    <3>2. CASE run[r].outcome = "rejected"
        BY <1>1, <3>2 DEF Settled, Entries
    <3>3. CASE run[r].outcome = "retry"
        BY <1>1, <3>3 DEF Settled, Entries, Unresolved
    <3> QED BY <1>1, <3>1, <3>2, <3>3
  <2>2. entry' = [entry EXCEPT ![f] = e]
      BY <1>3 DEF SettleUpload, Updated
  <2> HIDE DEF e
  <2> QED BY <1>1, <1>3, <2>1, <2>2
<1> QED BY <1>2, <1>3

(* Where a run is after an attempt: at the next row it listed, or done.    *)
LEMMA MovesOn ==
    ASSUME UploadsInv, NEW r \in Runs, SettleUpload(r)
    PROVE  \E s \in RunStates :
           /\ run' = [run EXCEPT ![r] = s] /\ s.ids = {}
           /\ \/ s.at = "idle" /\ s.ready = {} /\ s.receipt = NoReceipt
              \/ \E item \in run[r].ready :
                    /\ s.at = "mark" /\ s.file = item.file /\ s.receipt = item.receipt
                    /\ s.ready = run[r].ready \ {item}
<1>1. run[r] \in RunStates /\ Idle \in RunStates
    BY DEF UploadsInv, UploadsTyped, RunStates, Idle, MaybeIds
<1>2. CASE run' = [run EXCEPT ![r] = Idle]
    BY <1>1, <1>2 DEF Idle
<1>3. CASE \E item \in run[r].ready :
             run' = [run EXCEPT ![r] = [Idle EXCEPT !.at = "mark", !.file = item.file,
                        !.receipt = item.receipt, !.ready = run[r].ready \ {item}]]
  <2>1. PICK item \in run[r].ready :
             run' = [run EXCEPT ![r] = [Idle EXCEPT !.at = "mark", !.file = item.file,
                        !.receipt = item.receipt, !.ready = run[r].ready \ {item}]]
      BY <1>3
  <2> DEFINE s == [Idle EXCEPT !.at = "mark", !.file = item.file,
                       !.receipt = item.receipt, !.ready = run[r].ready \ {item}]
  <2>2. item \in ListedRows /\ run[r].ready \subseteq ListedRows
      BY <1>1 DEF RunStates
  <2>3. /\ s \in RunStates /\ s.ids = {} /\ s.at = "mark" /\ s.file = item.file
        /\ s.receipt = item.receipt /\ s.ready = run[r].ready \ {item}
      BY <1>1, <2>2 DEF RunStates, Idle, ListedRows
  <2>4. run' = [run EXCEPT ![r] = s]
      BY <2>1
  <2> HIDE DEF s
  <2> QED BY <2>3, <2>4
<1> QED BY <1>2, <1>3 DEF SettleUpload

LEMMA SettleStep ==
    ASSUME UploadsInv, NEW r \in Runs, SettleUpload(r) PROVE UploadsInv'
<1> DEFINE f == run[r].file
<1>1. PICK s \in RunStates :
         /\ run' = [run EXCEPT ![r] = s] /\ s.ids = {}
         /\ \/ s.at = "idle" /\ s.ready = {} /\ s.receipt = NoReceipt
            \/ \E item \in run[r].ready :
                  /\ s.at = "mark" /\ s.file = item.file /\ s.receipt = item.receipt
                  /\ s.ready = run[r].ready \ {item}
    BY MovesOn
<1>2. run' \in [Runs -> RunStates] /\ run'[r] = s /\ \A q \in Runs \ {r} : run'[q] = run[q]
    BY <1>1 DEF UploadsInv, UploadsTyped
<1>3. /\ f \in Files /\ entry' \in [Files -> Entries]
      /\ \A g \in Files \ {f} : entry'[g] = entry[g]
      /\ entry'[f].receipt \in {entry[f].receipt, run[r].receipt}
      /\ entry'[f].status \in {"uploaded", "rejected", "pending", "removed"}
      /\ entry[f].status = "removed" => entry'[f].status = "removed"
      /\ entry'[f].status = "uploaded" =>
            run[r].outcome = "uploaded" /\ entry'[f].receipt = run[r].receipt
      /\ entry'[f].status = "pending" =>
            entry'[f].receipt = IF run[r].receipt = NoReceipt THEN entry[f].receipt
                                ELSE run[r].receipt
    BY SettledRow
<1>4. UNCHANGED <<server, history>>
    BY DEF SettleUpload
<1>5. run[r].at = "settle" /\ Active(r) /\ Hands(r, f)
    BY DEF SettleUpload, Active, Hands
<1>6. /\ \A item \in s.ready : item \in run[r].ready /\ (Active(r)' => item.file # s.file)
      /\ Active(r)' => s.at = "mark" /\ \E item \in run[r].ready :
                          s.file = item.file /\ s.receipt = item.receipt
      /\ ~Active(r)' => s.ready = {} /\ s.receipt = NoReceipt
      /\ \A g \in Files : Hands(r, g)' \/ Lists(r, g)' => Lists(r, g)
    BY <1>1, <1>2 DEF Active, Hands, Lists, UploadsInv, Alone
<1>7. \A q \in Runs \ {r}, g \in Files : /\ Hands(q, g)' <=> Hands(q, g)
                                         /\ Lists(q, g)' <=> Lists(q, g)
    BY <1>2 DEF Hands, Lists, Active
<1>8. \A item \in run[r].ready : item.file \in Files /\ item.receipt \in MaybeIds
    BY DEF UploadsInv, UploadsTyped, RunStates, ListedRows
<1> USE DEF UploadsInv, server, history
<1>9. UploadsTyped' /\ Placed'
    BY <1>2, <1>3, <1>4, <1>6, <1>8 DEF UploadsTyped, Placed, Active
<1>10. Owned'
  <2>1. \A g \in Files : entry'[g].receipt # NoReceipt => entry'[g].receipt[1] = g
      BY <1>3 DEF Owned
  <2>2. \A q \in Runs : run'[q].receipt # NoReceipt => run'[q].receipt[1] = run'[q].file
      BY <1>2, <1>6 DEF Owned
  <2>3. \A q \in Runs : \A item \in run'[q].ready :
           item.receipt # NoReceipt => item.receipt[1] = item.file
      BY <1>2, <1>6 DEF Owned
  <2> QED BY <2>1, <2>2, <2>3 DEF Owned
<1>11. Alone'
  <2>1. \A q \in Runs : \A item, twin \in run'[q].ready :
           ~Hands(q, item.file)' /\ (item.file = twin.file => item = twin)
    <3>1. \A item, twin \in run'[r].ready :
             ~Hands(r, item.file)' /\ (item.file = twin.file => item = twin)
        BY <1>2, <1>6 DEF Alone, Hands
    <3>2. \A q \in Runs \ {r} : \A item, twin \in run'[q].ready :
             ~Hands(q, item.file)' /\ (item.file = twin.file => item = twin)
        BY <1>2 DEF Alone, Hands, Active
    <3> QED BY <3>1, <3>2
  <2>2. \A g \in Files \ shared, p, q \in Runs :
           (Hands(p, g)' \/ Lists(p, g)') /\ (Hands(q, g)' \/ Lists(q, g)') => p = q
    <3>1. \A q \in Runs, g \in Files : Hands(q, g)' \/ Lists(q, g)' => Hands(q, g) \/ Lists(q, g)
        BY <1>6, <1>7
    <3> QED BY <3>1 DEF Alone
  <2> QED BY <1>4, <2>1, <2>2 DEF Alone
<1>12. Marked'
  <2> SUFFICES ASSUME NEW g \in Files \ shared, NEW q \in Runs, Hands(q, g)',
                      run'[q].at # "mark"
               PROVE  entry'[g].status \in {"uploading", "removed"}
      BY <1>4 DEF Marked
  <2>1. q # r /\ Hands(q, g)
      BY <1>2, <1>6, <1>7 DEF Hands
  <2>2. g # f
      BY <1>5, <2>1 DEF Alone
  <2> QED BY <1>2, <1>3, <2>1, <2>2 DEF Marked
<1>13. \A id \in Ids : InSight(id)' => InSight(id)
  <2> SUFFICES ASSUME NEW id \in Ids, InSight(id)' PROVE InSight(id)
      OBVIOUS
  <2>1. CASE \E g \in Files : entry'[g].receipt = id
      BY <1>3, <2>1 DEF InSight
  <2>2. CASE s.receipt = id \/ \E item \in s.ready : item.receipt = id
      BY <1>6, <2>2, NoReceiptIsNoId DEF InSight
  <2>3. CASE \E q \in Runs \ {r} : \/ run[q].receipt = id \/ id \in run[q].ids
                                   \/ \E item \in run[q].ready : item.receipt = id
      BY <2>3 DEF InSight
  <2>4. CASE id \in attached \/ (\E x \in strays : id \in x.ids) \/ id \in other.ids
      BY <2>4 DEF InSight
  <2> QED BY <1>1, <1>2, <1>4, <2>1, <2>2, <2>3, <2>4 DEF InSight
<1>14. OneName' /\ Answered'
    BY <1>4, <1>13, NamesKept
<1>15. Unanswered'
  <2> SUFFICES ASSUME NEW g \in Files \ shared PROVE
        /\ \A q \in Runs : Hands(q, g)' /\ run'[q].receipt = NoReceipt => posted[g] <= lost[g]
        /\ \A q \in Runs : \A item \in run'[q].ready :
              item.file = g /\ item.receipt = NoReceipt => posted[g] <= lost[g]
        /\ entry'[g].status \in {"none", "pending"} /\ entry'[g].receipt = NoReceipt
              => posted[g] <= lost[g]
      BY <1>4 DEF Unanswered
  <2>1. \A q \in Runs : Hands(q, g)' /\ run'[q].receipt = NoReceipt => posted[g] <= lost[g]
    <3>1. Hands(r, g)' /\ s.receipt = NoReceipt => posted[g] <= lost[g]
        BY <1>2, <1>6 DEF Unanswered, Hands
    <3> QED BY <1>2, <1>7, <3>1 DEF Unanswered
  <2>2. \A q \in Runs : \A item \in run'[q].ready :
           item.file = g /\ item.receipt = NoReceipt => posted[g] <= lost[g]
      BY <1>2, <1>6 DEF Unanswered
  <2>3. entry'[g].status \in {"none", "pending"} /\ entry'[g].receipt = NoReceipt
           => posted[g] <= lost[g]
      BY <1>3, <1>5 DEF Unanswered
  <2> QED BY <2>1, <2>2, <2>3
<1>16. Sending'
  <2> SUFFICES ASSUME NEW g \in Files \ stranded, entry'[g].status = "uploading"
               PROVE  \E q \in Runs : Hands(q, g)'
      BY <1>4 DEF Sending
  <2>1. g # f /\ entry[g].status = "uploading"
      BY <1>3
  <2>2. PICK q \in Runs : Hands(q, g)
      BY <2>1 DEF Sending
  <2>3. q # r
      BY <2>1, <2>2 DEF Hands
  <2> QED BY <1>7, <2>2, <2>3
<1>17. Current' /\ ReuploadHasCause'
    BY <1>1, <1>2, <1>4 DEF Current, ReuploadHasCause
<1>18. UploadsKept'
  <2>1. \A g \in Files : entry'[g].status = "uploaded" =>
           entry'[g].receipt \in attached \cup removed
      BY <1>3, <1>5 DEF UploadsKept, UploadedIsAttached
  <2>2. \A q \in Runs : run'[q].at = "settle" /\ run'[q].outcome = "uploaded" =>
           run'[q].receipt \in attached \cup removed
      BY <1>1, <1>2 DEF UploadsKept
  <2> QED BY <1>4, <2>1, <2>2 DEF UploadsKept, UploadedIsAttached
<1> QED BY <1>9, <1>10, <1>11, <1>12, <1>14, <1>15, <1>16, <1>17, <1>18

LEMMA FlushStep ==
    ASSUME UploadsInv, NEW r \in Runs, Flush(r) PROVE UploadsInv'
<1> DEFINE due == {f \in Files : entry[f].status = "pending" /\ ~entry[f].waits}
<1>1. PICK f \in due :
         run' = [run EXCEPT ![r] = [Idle EXCEPT !.at = "mark", !.file = f,
                    !.receipt = Row(f).receipt, !.ready = {Row(g) : g \in due \ {f}}]]
    BY DEF Flush
<1> DEFINE s == [Idle EXCEPT !.at = "mark", !.file = f,
                     !.receipt = Row(f).receipt, !.ready = {Row(g) : g \in due \ {f}}]
<1>2. \A g \in Files : /\ entry[g] \in Entries /\ entry[g].receipt \in MaybeIds
                       /\ Row(g) \in ListedRows /\ Row(g).file = g
                       /\ Row(g).receipt = entry[g].receipt
    BY DEF UploadsInv, UploadsTyped, Entries, Row, ListedRows
<1>3. /\ s \in RunStates /\ s.at = "mark" /\ s.file = f /\ s.ids = {}
      /\ s.receipt = entry[f].receipt /\ s.ready = {Row(g) : g \in due \ {f}}
      /\ s.outcome = "none"
  <2>1. {Row(g) : g \in due \ {f}} \subseteq ListedRows
      BY <1>2
  <2>2. Idle \in RunStates
      BY DEF RunStates, Idle, MaybeIds
  <2> QED BY <1>2, <2>1, <2>2 DEF RunStates, Idle
<1>4. \A item \in s.ready : /\ item.file \in due \ {f} /\ item.receipt = entry[item.file].receipt
                           /\ item = Row(item.file)
    BY <1>2, <1>3
<1>5. run' = [run EXCEPT ![r] = s]
    BY <1>1
<1> HIDE DEF s
<1>6. run' \in [Runs -> RunStates] /\ run'[r] = s /\ \A q \in Runs \ {r} : run'[q] = run[q]
    BY <1>3, <1>5 DEF UploadsInv, UploadsTyped
<1>7. /\ ~Active(r) /\ UNCHANGED <<client, server, lost, stranded>>
      /\ shared' = shared \cup (due \cap UNION {Listed(q) : q \in Runs \ {r}})
    BY DEF Flush, Active
<1>8. /\ \A q \in Runs \ {r}, g \in Files : /\ Hands(q, g)' <=> Hands(q, g)
                                            /\ Lists(q, g)' <=> Lists(q, g)
      /\ \A g \in Files : ~Hands(r, g) /\ (Hands(r, g)' \/ Lists(r, g)' => g \in due)
    BY <1>3, <1>4, <1>6, <1>7 DEF Hands, Lists, Active
<1>9. \A q \in Runs \ {r}, g \in due : Hands(q, g) \/ Lists(q, g) => g \in shared'
  <2> SUFFICES ASSUME NEW q \in Runs \ {r}, NEW g \in due, Hands(q, g) \/ Lists(q, g)
               PROVE  g \in Listed(q)
      BY <1>7
  <2> QED BY DEF Listed, Hands, Lists, Active
<1> USE DEF UploadsInv, client, server
<1>10. UploadsTyped' /\ Placed'
    BY <1>3, <1>6, <1>7 DEF UploadsTyped, Placed, Active
<1>11. Owned'
    BY <1>3, <1>4, <1>6, <1>7 DEF Owned
<1>12. Alone'
  <2>1. \A q \in Runs : \A item, twin \in run'[q].ready :
           ~Hands(q, item.file)' /\ (item.file = twin.file => item = twin)
    <3>1. \A item, twin \in run'[r].ready :
             ~Hands(r, item.file)' /\ (item.file = twin.file => item = twin)
        BY <1>3, <1>4, <1>6 DEF Hands
    <3>2. \A q \in Runs \ {r} : \A item, twin \in run'[q].ready :
             ~Hands(q, item.file)' /\ (item.file = twin.file => item = twin)
        BY <1>6 DEF Alone, Hands, Active
    <3> QED BY <3>1, <3>2
  <2>2. ASSUME NEW g \in Files \ shared', NEW p \in Runs, NEW q \in Runs,
               Hands(p, g)' \/ Lists(p, g)', Hands(q, g)' \/ Lists(q, g)'
        PROVE  p = q
    <3>1. CASE p # r /\ q # r
        BY <1>7, <1>8, <2>2, <3>1 DEF Alone
    <3>2. CASE p = r \/ q = r
        BY <1>8, <1>9, <2>2, <3>2
    <3> QED BY <3>1, <3>2
  <2> QED BY <2>1, <2>2 DEF Alone
<1>13. Marked'
    BY <1>3, <1>6, <1>7, <1>8 DEF Marked
<1>14. \A id \in Ids : InSight(id)' => InSight(id)
    BY <1>3, <1>4, <1>6, <1>7 DEF InSight
<1>15. OneName' /\ Answered'
    BY <1>7, <1>14, NamesKept
<1>16. Unanswered'
    BY <1>3, <1>4, <1>6, <1>7, <1>8 DEF Unanswered, Hands
<1>17. Sending'
  <2> SUFFICES ASSUME NEW g \in Files \ stranded, entry[g].status = "uploading"
               PROVE  \E q \in Runs : Hands(q, g)'
      BY <1>7 DEF Sending
  <2> QED BY <1>8 DEF Sending
<1>18. Current' /\ ReuploadHasCause' /\ UploadsKept'
    BY <1>3, <1>6, <1>7 DEF Current, ReuploadHasCause, UploadsKept, UploadedIsAttached
<1> QED BY <1>10, <1>11, <1>12, <1>13, <1>15, <1>16, <1>17, <1>18, SMTT(30)

LEMMA KillStep ==
    ASSUME UploadsInv, NEW r \in Runs, Kill(r) PROVE UploadsInv'
<1>1. /\ run' = [run EXCEPT ![r] = Idle] /\ Idle \in RunStates /\ Idle.at = "idle"
      /\ Idle.receipt = NoReceipt /\ Idle.ids = {} /\ Idle.ready = {}
    BY DEF Kill, RunStates, Idle, MaybeIds
<1>2. run' \in [Runs -> RunStates] /\ run'[r] = Idle /\ \A q \in Runs \ {r} : run'[q] = run[q]
    BY <1>1 DEF UploadsInv, UploadsTyped
<1>3. /\ UNCHANGED <<entry, posted, attached, version, other, removed, lost, shared>>
      /\ stranded' = stranded \cup {run[r].file}
    BY DEF Kill, client
<1>4. /\ strays' \subseteq Saved
      /\ \A x \in strays' \ strays :
            /\ \A id \in x.ids : InSight(id)
            /\ x.seen <= version /\ (x.seen = version => attached \subseteq x.ids)
  <2>1. CASE run[r].at # "save"
      BY <2>1 DEF Kill, UploadsInv, UploadsTyped
  <2>2. CASE run[r].at = "save"
    <3> DEFINE x == [seen |-> run[r].seen, ids |-> run[r].ids \cup {run[r].receipt}]
    <3>1. strays' = strays \cup {x}
        BY <2>2 DEF Kill
    <3>2. x \in Saved
        BY <2>2 DEF UploadsInv, UploadsTyped, Placed, RunStates, Saved
    <3>3. /\ \A id \in x.ids : InSight(id)
          /\ x.seen <= version /\ (x.seen = version => attached \subseteq x.ids)
        BY <2>2 DEF InSight, UploadsInv, Current
    <3> HIDE DEF x
    <3> QED BY <3>1, <3>2, <3>3 DEF UploadsInv, UploadsTyped
  <2> QED BY <2>1, <2>2
<1> HIDE DEF Idle
<1>5. /\ \A q \in Runs \ {r}, g \in Files : /\ Hands(q, g)' <=> Hands(q, g)
                                            /\ Lists(q, g)' <=> Lists(q, g)
      /\ \A g \in Files : ~Hands(r, g)' /\ ~Lists(r, g)'
    BY <1>1, <1>2 DEF Hands, Lists, Active
<1> USE DEF UploadsInv
<1>6. UploadsTyped' /\ Placed'
    BY <1>1, <1>2, <1>3, <1>4 DEF UploadsTyped, Placed, Active
<1>7. Owned'
    BY <1>1, <1>2, <1>3 DEF Owned
<1>8. Alone'
  <2>1. \A q \in Runs : \A item, twin \in run'[q].ready :
           ~Hands(q, item.file)' /\ (item.file = twin.file => item = twin)
      BY <1>1, <1>2 DEF Alone, Hands, Active
  <2> QED BY <1>3, <1>5, <2>1 DEF Alone
<1>9. Marked'
  <2> SUFFICES ASSUME NEW g \in Files \ shared, NEW q \in Runs, Hands(q, g)',
                      run'[q].at # "mark"
               PROVE  entry[g].status \in {"uploading", "removed"}
      BY <1>3 DEF Marked
  <2> QED BY <1>2, <1>5 DEF Marked
<1>10. \A id \in Ids : InSight(id)' => InSight(id)
    BY <1>1, <1>2, <1>3, <1>4, NoReceiptIsNoId DEF InSight
<1>11. OneName' /\ Answered'
    BY <1>3, <1>10, NamesKept
<1>12. Unanswered'
    BY <1>1, <1>2, <1>3, <1>5 DEF Unanswered
<1>13. Sending'
  <2> SUFFICES ASSUME NEW g \in Files \ stranded', entry[g].status = "uploading"
               PROVE  \E q \in Runs : Hands(q, g)'
      BY <1>3 DEF Sending
  <2>1. PICK q \in Runs : Hands(q, g)
      BY <1>3 DEF Sending
  <2>2. q # r
      BY <1>3, <2>1 DEF Hands
  <2> QED BY <1>5, <2>1, <2>2
<1>14. Current' /\ ReuploadHasCause' /\ UploadsKept'
    BY <1>1, <1>2, <1>3, <1>4 DEF Current, ReuploadHasCause, UploadsKept, UploadedIsAttached
<1> QED BY <1>6, <1>7, <1>8, <1>9, <1>11, <1>12, <1>13, <1>14
-----------------------------------------------------------------------------
(* What the server does by itself, or for another device.                  *)
LEMMA ServerStep ==
    ASSUME UploadsInv, UNCHANGED <<entry, run, posted, lost, shared, stranded>>,
           strays' \subseteq strays,
           \A id \in attached' \cup other'.ids : InSight(id)
    PROVE  /\ Placed' /\ Owned' /\ Alone' /\ Marked' /\ OneName' /\ Answered'
           /\ Unanswered' /\ Sending' /\ ReuploadHasCause'
<1> USE DEF UploadsInv, Hands, Lists, Active
<1>1. Placed' /\ Owned' /\ Alone'
    BY DEF Placed, Owned, Alone
<1>2. Marked' /\ Unanswered' /\ Sending' /\ ReuploadHasCause'
    BY DEF Marked, Unanswered, Sending, ReuploadHasCause
<1>3. \A id \in Ids : InSight(id)' => InSight(id)
    BY DEF InSight
<1>4. OneName' /\ Answered'
    BY <1>3, NamesKept
<1> QED BY <1>1, <1>2, <1>4

(* A save the server carries out late, or not at all.                      *)
LEMMA LateStep ==
    ASSUME UploadsInv, NEW x \in strays, SavesLate(x) PROVE UploadsInv'
<1>1. /\ UNCHANGED <<entry, run, posted, lost, shared, stranded, other, removed>>
      /\ strays' \subseteq strays
      /\ \/ attached' = attached /\ version' = version
         \/ x.seen = version /\ attached' = x.ids /\ version' = version + 1
    BY DEF SavesLate, Saves, client, history
<1>2. \A id \in attached' \cup other'.ids : InSight(id)
    BY <1>1 DEF InSight
<1> USE DEF UploadsInv
<1>3. /\ Placed' /\ Owned' /\ Alone' /\ Marked' /\ OneName' /\ Answered'
      /\ Unanswered' /\ Sending' /\ ReuploadHasCause'
    BY <1>1, <1>2, ServerStep
<1>4. x.ids \subseteq Ids /\ version \in Nat
    BY DEF UploadsTyped, Saved
<1>5. UploadsTyped'
    BY <1>1, <1>4 DEF UploadsTyped
<1>6. attached \subseteq attached'
    BY <1>1 DEF Current
<1>7. Current'
  <2>1. /\ \A q \in Runs : run[q].at = "save" => run[q].seen \in Nat /\ run[q].seen <= version
        /\ \A y \in strays : y.seen \in Nat /\ y.seen <= version
        /\ other.do = "detach" =>
              other.receipt \in Ids /\ other.seen \in Nat /\ other.seen <= version
      BY DEF Current, UploadsTyped, RunStates, Saved, Others
  <2> QED BY <1>1, <1>4, <2>1 DEF Current
<1>8. UploadsKept'
    BY <1>1, <1>6 DEF UploadsKept, UploadedIsAttached
<1> QED BY <1>3, <1>5, <1>7, <1>8

LEMMA OtherStep ==
    ASSUME UploadsInv, (\E id \in Known : Detaches(id) \/ PullReceipt(id)) \/ Detach \/ Delete
    PROVE  UploadsInv'
<1>1. UNCHANGED <<entry, run, posted, lost, shared, stranded, strays>>
    BY DEF Detaches, PullReceipt, Detach, Delete, client, history
<1>2. other \in Others /\ version \in Nat /\ NoOther \in Others /\ NoOther.ids = {}
    BY DEF UploadsInv, UploadsTyped, NoOther, Others, MaybeIds
<1> USE DEF UploadsInv
<1>3. ASSUME NEW id \in Known PROVE id \in Ids
    BY <1>3, BoundsAssumption DEF Known, Receipts, Ids
<1>4. CASE \E id \in Known : Detaches(id)
  <2>1. PICK id \in Known : Detaches(id)
      BY <1>4
  <2> DEFINE o == [do |-> "detach", receipt |-> id, seen |-> version, ids |-> attached \ {id}]
  <2>2. /\ other' = o /\ id \in Ids /\ UNCHANGED <<attached, version, removed>>
      BY <1>3, <2>1 DEF Detaches
  <2>3. o \in Others
      BY <1>2, <2>2 DEF UploadsTyped, Others, MaybeIds
  <2>4. \A i \in attached' \cup other'.ids : InSight(i)
      BY <2>2 DEF InSight
  <2>5. /\ Placed' /\ Owned' /\ Alone' /\ Marked' /\ OneName' /\ Answered'
        /\ Unanswered' /\ Sending' /\ ReuploadHasCause'
      BY <1>1, <2>4, ServerStep
  <2>6. UploadsTyped' /\ Current' /\ UploadsKept'
      BY <1>1, <1>2, <2>2, <2>3 DEF UploadsTyped, Current, UploadsKept, UploadedIsAttached
  <2> QED BY <2>5, <2>6
<1>5. CASE \E id \in Known : PullReceipt(id)
  <2>1. PICK id \in Known : PullReceipt(id)
      BY <1>5
  <2>2. /\ id \in Ids /\ attached' = attached \ {id} /\ removed' = removed \cup {id}
        /\ version' = version /\ other' \in Others /\ other'.do = "delete" /\ other'.ids = {}
      BY <1>3, <2>1 DEF PullReceipt, NoOther, Others, MaybeIds
  <2>3. \A i \in attached' \cup other'.ids : InSight(i)
      BY <2>2 DEF InSight
  <2>4. /\ Placed' /\ Owned' /\ Alone' /\ Marked' /\ OneName' /\ Answered'
        /\ Unanswered' /\ Sending' /\ ReuploadHasCause'
      BY <1>1, <2>3, ServerStep
  <2>5. UploadsTyped' /\ Current' /\ UploadsKept'
      BY <1>1, <1>2, <2>2 DEF UploadsTyped, Current, UploadsKept, UploadedIsAttached
  <2> QED BY <2>4, <2>5
<1>6. CASE Detach
  <2>1. /\ other.do = "detach" /\ other' = NoOther /\ NoOther.do = "none"
        /\ \/ /\ other.seen = version /\ attached' = other.ids /\ version' = version + 1
              /\ removed' = removed \cup {other.receipt}
           \/ UNCHANGED <<attached, version, removed>>
      BY <1>6 DEF Detach, Saves, NoOther
  <2>2. other.ids \subseteq Ids /\ other.receipt \in Ids
      BY <1>2, <2>1 DEF Others, Current
  <2>3. \A i \in attached' \cup other'.ids : InSight(i)
      BY <1>2, <2>1 DEF InSight
  <2>4. /\ Placed' /\ Owned' /\ Alone' /\ Marked' /\ OneName' /\ Answered'
        /\ Unanswered' /\ Sending' /\ ReuploadHasCause'
      BY <1>1, <2>3, ServerStep
  <2>5. UploadsTyped'
      BY <1>1, <1>2, <2>1, <2>2 DEF UploadsTyped
  <2>6. attached \cup removed \subseteq attached' \cup removed'
      BY <2>1 DEF Current
  <2>7. Current'
    <3>1. /\ \A q \in Runs : run[q].at = "save" => run[q].seen \in Nat /\ run[q].seen <= version
          /\ \A y \in strays : y.seen \in Nat /\ y.seen <= version
        BY DEF Current, UploadsTyped, RunStates, Saved
    <3> QED BY <1>1, <1>2, <2>1, <3>1 DEF Current
  <2>8. UploadsKept'
      BY <1>1, <2>6 DEF UploadsKept, UploadedIsAttached
  <2> QED BY <2>4, <2>5, <2>7, <2>8
<1>7. CASE Delete
  <2>1. /\ other' = NoOther /\ NoOther.do = "none" /\ UNCHANGED <<attached, version, removed>>
      BY <1>7 DEF Delete, NoOther
  <2>2. \A i \in attached' \cup other'.ids : InSight(i)
      BY <1>2, <2>1 DEF InSight
  <2>3. /\ Placed' /\ Owned' /\ Alone' /\ Marked' /\ OneName' /\ Answered'
        /\ Unanswered' /\ Sending' /\ ReuploadHasCause'
      BY <1>1, <2>2, ServerStep
  <2>4. UploadsTyped' /\ Current' /\ UploadsKept'
      BY <1>1, <1>2, <2>1 DEF UploadsTyped, Current, UploadsKept, UploadedIsAttached
  <2> QED BY <2>3, <2>4
<1> QED BY <1>4, <1>5, <1>6, <1>7
-----------------------------------------------------------------------------
LEMMA InitInv == UploadsInit => UploadsInv
<1> SUFFICES ASSUME UploadsInit PROVE UploadsInv
    OBVIOUS
<1>1. /\ \A f \in Files : /\ entry[f].status = "none" /\ entry[f].receipt = NoReceipt
                          /\ posted[f] = 0 /\ lost[f] = 0
      /\ \A r \in Runs : /\ run[r].at = "idle" /\ run[r].ready = {} /\ run[r].ids = {}
                         /\ run[r].receipt = NoReceipt
      /\ attached = {} /\ strays = {} /\ other.ids = {} /\ other.do = "none"
    BY DEF UploadsInit, NoEntry, Idle, NoOther
<1>2. UploadsTyped
    BY DEF UploadsInit, UploadsTyped, NoEntry, Idle, NoOther, Entries, RunStates, Others,
       MaybeIds
<1>3. \A id \in Ids : ~InSight(id)
    BY <1>1, NoReceiptIsNoId DEF InSight
<1>4. OneName /\ Answered
  <2>1. \A f \in Files, i \in Nat : <<f, i>> \in Ids
      BY DEF Ids
  <2> QED BY <1>1, <1>3, <2>1 DEF OneName, Answered
<1>5. Placed /\ Owned /\ Alone /\ Marked /\ Unanswered /\ Sending
    BY <1>1 DEF Placed, Owned, Alone, Marked, Unanswered, Sending, Hands, Lists, Active
<1>6. Current /\ UploadsKept /\ ReuploadHasCause
    BY <1>1 DEF Current, UploadsKept, ReuploadHasCause, UploadedIsAttached
<1> QED BY <1>2, <1>4, <1>5, <1>6 DEF UploadsInv

LEMMA NextInv == UploadsInv /\ [UploadsNext]_uploadVars => UploadsInv'
<1> SUFFICES ASSUME UploadsInv, [UploadsNext]_uploadVars PROVE UploadsInv'
    OBVIOUS
<1>1. CASE UNCHANGED told
    BY <1>1, Untold
<1>2. ASSUME NEW f \in Files, Preview(f) \/ DropBlob(f) PROVE UNCHANGED told
    BY <1>2 DEF Preview, DropBlob, told, server, history
<1>3. ASSUME PushTransaction PROVE UNCHANGED told
    BY <1>3 DEF PushTransaction, told, client, history
<1>4. ASSUME UNCHANGED uploadVars PROVE UNCHANGED told
    BY <1>4 DEF uploadVars, told, client, server, history
<1>5. ASSUME NEW f \in Files, CaptureFile(f) \/ BackoffEnds(f) \/ Dismiss(f) \/ Promote(f)
      PROVE  UploadsInv'
    BY <1>5, UserStep
<1>6. ASSUME NEW r \in Runs, Works(r) PROVE UploadsInv'
    BY <1>6, MarkStep, ReadStep, PostStep, AttachStep, SaveStep, SettleStep DEF Works
<1>7. ASSUME NEW r \in Runs, Flush(r) \/ Kill(r) PROVE UploadsInv'
    BY <1>7, FlushStep, KillStep
<1>8. ASSUME NEW s \in strays, SavesLate(s) PROVE UploadsInv'
    BY <1>8, LateStep
<1>9. CASE (\E id \in Known : Detaches(id) \/ PullReceipt(id)) \/ Detach \/ Delete
    BY <1>9, OtherStep
<1> QED BY <1>1, <1>2, <1>3, <1>4, <1>5, <1>6, <1>7, <1>8, <1>9 DEF UploadsNext

(* The inductive invariant of the queue, its runs and the server.          *)
THEOREM UploadsInvHolds == UploadsSpec => []UploadsInv
<1>1. UploadsInit => UploadsInv
    BY InitInv
<1>2. UploadsInv /\ [UploadsNext]_uploadVars => UploadsInv'
    BY NextInv
<1> QED BY <1>1, <1>2, PTL DEF UploadsSpec

(* However many runs and faults there are: a file is sent again only for   *)
(* want of an answer, or because two runs had listed it.                   *)
THEOREM Reuploads == UploadsSpec => []ReuploadHasCause
<1>1. UploadsInv => ReuploadHasCause
    BY DEF UploadsInv
<1> QED BY <1>1, UploadsInvHolds, PTL

(* The transaction has a file once, unless two runs had it at a time.      *)
THEOREM AttachesOnce == UploadsSpec => []AttachedOnce
<1>1. UploadsInv => AttachedOnce
  <2> SUFFICES ASSUME UploadsInv, NEW f \in Files \ shared
               PROVE  Cardinality({id \in attached : id[1] = f}) <= 1
      BY DEF AttachedOnce
  <2> DEFINE S == {id \in attached : id[1] = f}
  <2>1. \A a, b \in S : a = b
    <3> SUFFICES ASSUME NEW a \in S, NEW b \in S PROVE a = b
        OBVIOUS
    <3>1. a \in Ids /\ b \in Ids /\ InSight(a) /\ InSight(b)
        BY DEF UploadsInv, UploadsTyped, InSight
    <3>2. PICK i \in Nat, j \in Nat : a = <<f, i>> /\ b = <<f, j>>
        BY <3>1, IdParts
    <3> QED BY <3>1, <3>2 DEF UploadsInv, OneName
  <2>2. CASE S = {}
      BY <2>2, FS_EmptySet
  <2>3. CASE S # {}
    <3>1. PICK a \in S : S = {a}
        BY <2>1, <2>3
    <3>2. Cardinality({a}) = 1
        BY FS_Singleton
    <3> QED BY <3>1, <3>2
  <2> QED BY <2>2, <2>3
<1> QED BY <1>1, UploadsInvHolds, PTL

(* No save, late or not, takes an uploaded receipt off the transaction.    *)
THEOREM UploadsStay == UploadsSpec => []UploadedIsAttached
<1>1. UploadsInv => UploadedIsAttached
    BY DEF UploadsInv, UploadsKept
<1> QED BY <1>1, UploadsInvHolds, PTL

(* An entry is under way only while a run has it, or if that run was killed.*)
THEOREM SendingRuns == UploadsSpec => []SendingHasARun
<1>1. UploadsInv => SendingHasARun
    BY DEF UploadsInv, Sending, SendingHasARun, Hands
<1> QED BY <1>1, UploadsInvHolds, PTL
-----------------------------------------------------------------------------
(* The cache, and how often a file may be posted. *)

(* Runs that may still post a file.                                        *)
Posting == {"mark", "read", "post"}
ToPost(f) == {r \in Runs : Lists(r, f) \/ (Hands(r, f) /\ run[r].at \in Posting)}

(* A sequence without repetitions.                                         *)
Once(blobs) == \A i, j \in DOMAIN blobs : blobs[i] = blobs[j] => i = j

Cached ==
    /\ cache \in Seq(Files) /\ Once(cache)
    /\ \A f \in Range(cache) : entry[f].status # "none"

(* Each POST of a file, made or still to come, has had a flush of its own. *)
Counted ==
    /\ flushes \in Nat /\ flushes <= MaxFlushes
    /\ \A f \in Files : /\ IsFiniteSet(ToPost(f))
                        /\ posted[f] + Cardinality(ToPost(f)) <= flushes

Deleting ==
    /\ synced \in BOOLEAN /\ deleted \subseteq removed
    /\ other.do = "delete" => other.receipt \in removed

StockInv == UploadsInv /\ Cached /\ Counted /\ Deleting
-----------------------------------------------------------------------------
(* A set of positions, counted from its beginning. *)
RankIn(stay) == [i \in stay |-> Cardinality({j \in stay : j <= i})]

(* The ranks number the positions one by one.                              *)
LEMMA Ranks ==
    ASSUME NEW n \in Nat, NEW stay \in SUBSET (1..n)
    PROVE  /\ Cardinality(stay) \in Nat
           /\ \A i \in stay : RankIn(stay)[i] \in 1..Cardinality(stay)
           /\ \A i, j \in stay : RankIn(stay)[i] = RankIn(stay)[j] => i = j
           /\ \A k \in 1..Cardinality(stay) : \E i \in stay : RankIn(stay)[i] = k
<1>1. /\ \A i \in stay : i \in Int
      /\ \A i \in stay : RankIn(stay)[i] = Cardinality({j \in stay : j <= i})
    BY DEF RankIn
<1>2. IsFiniteSet(stay) /\ Cardinality(stay) \in Nat
  <2>1. IsFiniteSet(1..n)
      BY FS_Interval
  <2> QED BY <2>1, FS_Subset, FS_CardinalityType
<1>3. ASSUME NEW i \in stay PROVE RankIn(stay)[i] \in 1..Cardinality(stay)
  <2>1. PICK S : S = {j \in stay : j <= i}
      OBVIOUS
  <2>2. S \in SUBSET stay /\ i \in S
      BY <1>1, <2>1
  <2>3. IsFiniteSet(S) /\ Cardinality(S) <= Cardinality(stay) /\ Cardinality(S) \in Nat
      BY <1>2, <2>2, FS_Subset, FS_CardinalityType
  <2>4. Cardinality(S) # 0
      BY <2>2, <2>3, FS_EmptySet
  <2>5. RankIn(stay)[i] = Cardinality(S)
      BY <1>1, <2>1
  <2> QED BY <1>2, <2>3, <2>4, <2>5
<1>4. ASSUME NEW i \in stay, NEW j \in stay, RankIn(stay)[i] = RankIn(stay)[j], i < j
      PROVE  FALSE
  <2>1. PICK S : S = {k \in stay : k <= i}
      OBVIOUS
  <2>2. PICK T : T = {k \in stay : k <= j}
      OBVIOUS
  <2>3. S \in SUBSET T /\ T \in SUBSET stay /\ j \in T /\ j \notin S
    <3>1. (\A k \in stay : k <= i => k <= j) /\ j <= j /\ ~(j <= i)
        BY <1>1, <1>4
    <3> QED BY <2>1, <2>2, <3>1
  <2>4. IsFiniteSet(T) /\ Cardinality(T) = Cardinality(S)
      BY <1>1, <1>2, <1>4, <2>1, <2>2, <2>3, FS_Subset
  <2> QED BY <2>3, <2>4, FS_Subset
<1>5. \A i, j \in stay : RankIn(stay)[i] = RankIn(stay)[j] => i = j
    BY <1>1, <1>4
<1>6. IsFiniteSet(1..Cardinality(stay)) /\ Cardinality(1..Cardinality(stay)) = Cardinality(stay)
    BY <1>2, FS_Interval
<1>7. RankIn(stay) \in Injection(stay, 1..Cardinality(stay))
    BY <1>3, <1>5 DEF Injection, IsInjective, RankIn
<1>8. RankIn(stay) \in Surjection(stay, 1..Cardinality(stay))
    BY <1>6, <1>7, FS_Injection
<1> QED BY <1>2, <1>3, <1>5, <1>8 DEF Surjection

(* Taking blobs out leaves the others, each of them once.                  *)
LEMMA WithoutFacts ==
    ASSUME NEW S, NEW blobs \in Seq(S), Once(blobs), NEW gone
    PROVE  /\ Without(blobs, gone) \in Seq(S) /\ Once(Without(blobs, gone))
           /\ Range(Without(blobs, gone)) = Range(blobs) \ gone
<1>1. PICK stay : stay = {i \in DOMAIN blobs : blobs[i] \notin gone}
    OBVIOUS
<1>2. PICK rank : rank = RankIn(stay)
    OBVIOUS
<1>3. PICK n : n = Len(blobs)
    OBVIOUS
<1>4. n \in Nat /\ DOMAIN blobs = 1..n /\ stay \in SUBSET (1..n)
    BY <1>1, <1>3, LenProperties
<1>5. PICK c : c = Cardinality(stay)
    OBVIOUS
<1>6. /\ c \in Nat
      /\ \A i \in stay : rank[i] \in 1..c
      /\ \A i, j \in stay : rank[i] = rank[j] => i = j
      /\ \A k \in 1..c : \E i \in stay : rank[i] = k
  <2>1. /\ Cardinality(stay) \in Nat
        /\ \A i \in stay : RankIn(stay)[i] \in 1..Cardinality(stay)
        /\ \A i, j \in stay : RankIn(stay)[i] = RankIn(stay)[j] => i = j
        /\ \A k \in 1..Cardinality(stay) : \E i \in stay : RankIn(stay)[i] = k
      BY <1>4, Ranks
  <2> QED BY <1>2, <1>5, <2>1
<1>7. PICK slot : slot = [k \in 1..c |-> CHOOSE i \in stay : rank[i] = k]
    OBVIOUS
<1>8. \A k \in 1..c : slot[k] \in stay /\ rank[slot[k]] = k
    BY <1>6, <1>7
<1>9. PICK W : W = Without(blobs, gone)
    OBVIOUS
<1>10. Without(blobs, gone) = [k \in 1..c |-> blobs[slot[k]]]
  <2>1. \A k \in 1..c : (CHOOSE i \in stay : Cardinality({j \in stay : j <= i}) = k) = slot[k]
    <3> SUFFICES ASSUME NEW k \in 1..c
                 PROVE  (CHOOSE i \in stay : Cardinality({j \in stay : j <= i}) = k) = slot[k]
        OBVIOUS
    <3>1. \A i \in stay : rank[i] = Cardinality({j \in stay : j <= i})
        BY <1>2 DEF RankIn
    <3>2. (CHOOSE i \in stay : Cardinality({j \in stay : j <= i}) = k) =
             (CHOOSE i \in stay : rank[i] = k)
        BY <3>1
    <3> QED BY <1>7, <3>2
  <2>2. Without(blobs, gone) = [k \in 1..c |->
           blobs[CHOOSE i \in stay : Cardinality({j \in stay : j <= i}) = k]]
      BY <1>1, <1>5 DEF Without
  <2> QED BY <2>1, <2>2
<1>11. \A k \in 1..c : blobs[slot[k]] \in S
  <2>1. \A i \in 1..n : blobs[i] \in S
      BY <1>3, ElementOfSeq
  <2> QED BY <1>4, <1>8, <2>1
<1>12. W \in Seq(S) /\ DOMAIN W = 1..c
  <2>1. [k \in 1..c |-> blobs[slot[k]]] \in Seq(S)
      BY <1>6, <1>11, IsASeq
  <2> QED BY <1>9, <1>10, <2>1
<1>13. \A k \in 1..c : /\ W[k] = blobs[slot[k]] /\ slot[k] \in DOMAIN blobs
                     /\ blobs[slot[k]] \notin gone
    BY <1>1, <1>8, <1>9, <1>10
<1>14. Once(W)
  <2> SUFFICES ASSUME NEW k \in 1..c, NEW l \in 1..c, W[k] = W[l] PROVE k = l
      BY <1>12 DEF Once
  <2>1. slot[k] = slot[l]
      BY <1>13 DEF Once
  <2> QED BY <1>8, <2>1
<1>15. Range(W) = Range(blobs) \ gone
  <2>1. ASSUME NEW f \in Range(W) PROVE f \in Range(blobs) \ gone
    <3>1. PICK k \in 1..c : f = W[k]
        BY <1>12, <2>1 DEF Range
    <3> QED BY <1>13, <3>1 DEF Range
  <2>2. ASSUME NEW f \in Range(blobs), f \notin gone PROVE f \in Range(W)
    <3>1. PICK i \in DOMAIN blobs : f = blobs[i]
        BY DEF Range
    <3>2. i \in stay /\ rank[i] \in 1..c
        BY <1>1, <1>6, <2>2, <3>1
    <3>3. slot[rank[i]] = i
        BY <1>6, <1>8, <3>2
    <3>4. W[rank[i]] = f
        BY <1>13, <3>1, <3>2, <3>3
    <3> QED BY <1>12, <3>2, <3>4 DEF Range
  <2> QED BY <2>1, <2>2
<1> QED BY <1>9, <1>12, <1>14, <1>15

(* A new blob at the end.                                                    *)
LEMMA AppendOnce ==
    ASSUME NEW S, NEW blobs \in Seq(S), Once(blobs), NEW f \in S, f \notin Range(blobs)
    PROVE  /\ Append(blobs, f) \in Seq(S) /\ Once(Append(blobs, f))
           /\ Range(Append(blobs, f)) = Range(blobs) \cup {f}
<1>1. PICK n, B : n = Len(blobs) /\ B = Append(blobs, f)
    OBVIOUS
<1>2. /\ n \in Nat /\ DOMAIN blobs = 1..n
      /\ B \in Seq(S) /\ Len(B) = n + 1 /\ B[n + 1] = f
      /\ \A i \in 1..n : B[i] = blobs[i]
    BY <1>1, LenProperties, AppendProperties
<1>3. DOMAIN B = 1..(n + 1)
    BY <1>2, LenProperties
<1>4. \A i \in 1..n : B[i] \in Range(blobs)
    BY <1>2 DEF Range
<1>5. Once(B)
  <2> SUFFICES ASSUME NEW i \in 1..(n + 1), NEW j \in 1..(n + 1), B[i] = B[j] PROVE i = j
      BY <1>3 DEF Once
  <2>1. CASE i \in 1..n /\ j \in 1..n
      BY <1>2, <2>1 DEF Once
  <2>2. CASE i = n + 1 \/ j = n + 1
    <3>1. \A k \in 1..(n + 1) : k = n + 1 \/ B[k] # f
        BY <1>2, <1>4
    <3> QED BY <1>2, <2>2, <3>1
  <2> QED BY <1>2, <2>1, <2>2
<1>6. Range(B) = Range(blobs) \cup {f}
  <2>1. \A g \in Range(B) : g \in Range(blobs) \cup {f}
    <3>1. \A k \in 1..(n + 1) : k = n + 1 \/ k \in 1..n
        BY <1>2
    <3> QED BY <1>2, <1>3, <1>4, <3>1 DEF Range
  <2>2. \A g \in Range(blobs) \cup {f} : g \in Range(B)
    <3>1. \A k \in 1..n : k \in 1..(n + 1)
        BY <1>2
    <3>2. n + 1 \in 1..(n + 1)
        BY <1>2
    <3> QED BY <1>2, <1>3, <3>1, <3>2 DEF Range
  <2> QED BY <2>1, <2>2
<1> QED BY <1>1, <1>2, <1>5, <1>6

(* evictReceiptBlobsToFit takes none whose entry is waiting.               *)
LEMMA FittedFacts ==
    ASSUME NEW blobs \in Seq(Files), Once(blobs)
    PROVE  /\ Fitted(blobs) \in Seq(Files) /\ Once(Fitted(blobs))
           /\ Range(Fitted(blobs)) \subseteq Range(blobs)
           /\ \A f \in Files : Waiting(f) /\ f \in Range(blobs) => f \in Range(Fitted(blobs))
<1>1. PICK queued : queued = {f \in Files : Waiting(f)}
    OBVIOUS
<1>2. PICK loose : loose = Without(blobs, queued)
    OBVIOUS
<1>3. PICK gone : gone = {loose[i] : i \in {j \in DOMAIN loose : j <= Len(blobs) - Cap}}
    OBVIOUS
<1>4. Fitted(blobs) = Without(blobs, gone)
    BY <1>1, <1>2, <1>3 DEF Fitted
<1>5. Range(loose) = Range(blobs) \ queued
    BY <1>2, WithoutFacts
<1>6. gone \cap queued = {}
    BY <1>3, <1>5 DEF Range
<1>7. /\ Without(blobs, gone) \in Seq(Files) /\ Once(Without(blobs, gone))
      /\ Range(Without(blobs, gone)) = Range(blobs) \ gone
    BY WithoutFacts
<1> QED BY <1>1, <1>4, <1>6, <1>7

(* Reading a blob keeps them all.                                          *)
LEMMA TouchedFacts ==
    ASSUME cache \in Seq(Files), Once(cache), NEW f \in Range(cache)
    PROVE  /\ Touched(f) \in Seq(Files) /\ Once(Touched(f))
           /\ Range(Touched(f)) = Range(cache)
<1>1. PICK W : W = Without(cache, {f})
    OBVIOUS
<1>2. W \in Seq(Files) /\ Once(W) /\ Range(W) = Range(cache) \ {f}
    BY <1>1, WithoutFacts
<1>3. f \in Files
    BY LenProperties, ElementOfSeq DEF Range
<1>4. /\ Append(W, f) \in Seq(Files) /\ Once(Append(W, f))
      /\ Range(Append(W, f)) = Range(W) \cup {f}
    BY <1>2, <1>3, AppendOnce
<1> QED BY <1>1, <1>2, <1>4 DEF Touched
-----------------------------------------------------------------------------
(* What a step that leaves the cache alone, or takes some blobs from it or *)
(* adds one, has to show.                                                  *)
Spares == \A f \in Files :
    Waiting(f) /\ f \in Range(cache) /\ f \notin Range(cache') => f \in dropping

(* A row that is there stays a row.                                        *)
RowsStay == \A f \in Files : entry[f].status # "none" => entry'[f].status # "none"

(* A cache left alone keeps what holds of it.                               *)
LEMMA CacheKept ==
    ASSUME Cached, RowsStay, UNCHANGED cache PROVE Cached' /\ Spares
<1>1. \A f \in Range(cache) : f \in Files
    BY LenProperties, ElementOfSeq DEF Cached, Range
<1> QED BY <1>1 DEF Cached, RowsStay, Spares

(* So does one from which blobs were taken.                                *)
LEMMA CacheDrawn ==
    ASSUME Cached, UNCHANGED entry, cache' \in Seq(Files), Once(cache'),
           Range(cache') \subseteq Range(cache)
    PROVE  Cached'
BY DEF Cached

(* The queue's own steps leave the cache alone and no row is taken away.   *)
LEMMA RowSteps ==
    ASSUME UploadsTyped, NEW f \in Files, BackoffEnds(f) \/ Dismiss(f) \/ Promote(f)
    PROVE  RowsStay /\ UNCHANGED cache
<1>1. entry \in [Files -> Entries]
    BY DEF UploadsTyped
<1>2. UNCHANGED cache
    BY DEF BackoffEnds, Dismiss, Promote
<1>3. CASE BackoffEnds(f)
    BY <1>1, <1>3 DEF BackoffEnds, RowsStay, Entries
<1>4. CASE Dismiss(f)
    BY <1>1, <1>4 DEF Dismiss, RowsStay, Entries
<1>5. CASE Promote(f)
    BY <1>1, <1>5 DEF Promote, RowsStay, Entries
<1> QED BY <1>2, <1>3, <1>4, <1>5

(* A row marked as under way stays a row.                                  *)
LEMMA MarkedRow ==
    ASSUME UploadsInv, NEW r \in Runs, MarkUploading(r) PROVE RowsStay /\ UNCHANGED cache
<1>1. entry \in [Files -> Entries] /\ run[r].file \in Files /\ entry[run[r].file] \in Entries
    BY DEF UploadsInv, UploadsTyped, Placed, Active, MarkUploading
<1>2. \/ entry' = entry
      \/ entry' = [entry EXCEPT ![run[r].file] =
                     [entry[run[r].file] EXCEPT !.status = "uploading"]]
    BY DEF MarkUploading, Updated
<1> QED BY <1>1, <1>2 DEF MarkUploading, RowsStay, Entries

(* A settled row stays a row.                                              *)
LEMMA SettledStays ==
    ASSUME UploadsInv, NEW r \in Runs, SettleUpload(r) PROVE RowsStay /\ UNCHANGED cache
<1>1. /\ \A g \in Files \ {run[r].file} : entry'[g] = entry[g]
      /\ entry'[run[r].file].status \in {"uploaded", "rejected", "pending", "removed"}
    BY SettledRow
<1> QED BY <1>1 DEF RowsStay, SettleUpload

(* queueFilesOffline puts a blob that was not there and evicts others.     *)
LEMMA CaptureStep ==
    ASSUME UploadsTyped, Cached, NEW f \in Files, CaptureFile(f) PROVE Cached' /\ Spares
<1>1. entry \in [Files -> Entries] /\ entry[f].status = "none"
    BY DEF UploadsTyped, CaptureFile, NoEntry
<1>2. f \notin Range(cache)
    BY <1>1 DEF Cached
<1>3. PICK blobs : blobs = Append(cache, f)
    OBVIOUS
<1>4. blobs \in Seq(Files) /\ Once(blobs) /\ Range(blobs) = Range(cache) \cup {f}
    BY <1>2, <1>3, AppendOnce DEF Cached
<1>5. /\ Fitted(blobs) \in Seq(Files) /\ Once(Fitted(blobs))
      /\ Range(Fitted(blobs)) \subseteq Range(blobs)
      /\ \A g \in Files : Waiting(g) /\ g \in Range(blobs) => g \in Range(Fitted(blobs))
    BY <1>4, FittedFacts
<1>6. cache' = Fitted(blobs)
    BY <1>3 DEF CaptureFile
<1>7. /\ entry'[f].status = "pending"
      /\ \A g \in Files : g # f => entry'[g] = entry[g]
    BY <1>1 DEF CaptureFile, Entries
<1>8. cache' \in Seq(Files) /\ Once(cache') /\ Range(cache') \subseteq Range(cache) \cup {f}
    BY <1>4, <1>5, <1>6
<1>9. \A g \in Range(cache) : g \in Files
    BY LenProperties, ElementOfSeq DEF Cached, Range
<1>10. Cached'
  <2>1. \A g \in Range(cache') : entry'[g].status # "none"
      BY <1>7, <1>8, <1>9 DEF Cached
  <2> QED BY <1>8, <2>1 DEF Cached
<1>11. Spares
    BY <1>4, <1>5, <1>6 DEF Spares
<1> QED BY <1>10, <1>11

(* getReceiptBlob.                                                         *)
LEMMA TouchStep ==
    ASSUME Cached, NEW f \in Range(cache), cache' = Touched(f), UNCHANGED entry
    PROVE  Cached' /\ Spares
<1>1. cache' \in Seq(Files) /\ Once(cache') /\ Range(cache') = Range(cache)
    BY TouchedFacts DEF Cached
<1> QED BY <1>1, CacheDrawn DEF Spares

(* deleteReceiptBlob.                                                      *)
LEMMA DropStep ==
    ASSUME Cached, NEW f \in Files, DropBlob(f) PROVE Cached' /\ Spares
<1>1. PICK W : W = Without(cache, {f})
    OBVIOUS
<1>2. W \in Seq(Files) /\ Once(W) /\ Range(W) = Range(cache) \ {f}
    BY <1>1, WithoutFacts DEF Cached
<1>3. cache' = W /\ f \in dropping /\ UNCHANGED entry
    BY <1>1 DEF DropBlob
<1>4. Cached'
    BY <1>2, <1>3, CacheDrawn
<1> QED BY <1>2, <1>3, <1>4 DEF Spares

(* No step of any kind takes a waiting blob that was not dismissed.         *)
LEMMA CacheStep ==
    ASSUME UploadsInv, Cached, [UploadsNext]_uploadVars PROVE Cached' /\ Spares
<1>1. UploadsTyped
    BY DEF UploadsInv
<1>2. UNCHANGED entry => RowsStay
    BY DEF RowsStay
<1>3. ASSUME NEW f \in Files, CaptureFile(f) PROVE Cached' /\ Spares
    BY <1>1, <1>3, CaptureStep
<1>4. ASSUME NEW f \in Files, Preview(f) PROVE Cached' /\ Spares
    BY <1>4, TouchStep DEF Preview
<1>5. ASSUME NEW f \in Files, DropBlob(f) PROVE Cached' /\ Spares
    BY <1>5, DropStep
<1>6. ASSUME NEW f \in Files, BackoffEnds(f) \/ Dismiss(f) \/ Promote(f)
      PROVE  Cached' /\ Spares
    BY <1>1, <1>6, RowSteps, CacheKept
<1>7. ASSUME NEW r \in Runs, ReadBlob(r) PROVE Cached' /\ Spares
  <2>1. UNCHANGED entry
      BY <1>7 DEF ReadBlob
  <2>2. CASE run[r].file \in Range(cache)
      BY <1>7, <2>1, <2>2, TouchStep DEF ReadBlob
  <2>3. CASE run[r].file \notin Range(cache)
      BY <1>2, <1>7, <2>1, <2>3, CacheKept DEF ReadBlob
  <2> QED BY <2>2, <2>3
<1>8. ASSUME NEW r \in Runs, MarkUploading(r) \/ SettleUpload(r) PROVE Cached' /\ Spares
    BY <1>8, MarkedRow, SettledStays, CacheKept
<1>9. ASSUME NEW r \in Runs, Post(r) \/ Attach(r) \/ Save(r) \/ Flush(r) \/ Kill(r)
      PROVE  UNCHANGED <<entry, cache>>
    BY <1>9 DEF Post, Attach, Save, Flush, Kill, client
<1>10. ASSUME (\E s \in strays : SavesLate(s)) \/ PushTransaction \/ Detach \/ Delete
       PROVE  UNCHANGED <<entry, cache>>
    BY <1>10 DEF SavesLate, PushTransaction, Detach, Delete, client
<1>11. ASSUME NEW id \in Known, Detaches(id) \/ PullReceipt(id)
       PROVE  UNCHANGED <<entry, cache>>
    BY <1>11 DEF Detaches, PullReceipt, client
<1>12. ASSUME UNCHANGED uploadVars PROVE UNCHANGED <<entry, cache>>
    BY <1>12 DEF uploadVars, client
<1>13. UNCHANGED <<entry, cache>> => Cached' /\ Spares
    BY <1>2, CacheKept
<1> QED BY <1>3, <1>4, <1>5, <1>6, <1>7, <1>8, <1>9, <1>10, <1>11, <1>12, <1>13
        DEF UploadsNext, Works
-----------------------------------------------------------------------------
(* A run that goes on, to a file it has in hand or has listed, may post no *)
(* other file than before.                                                 *)
LEMMA NoMoreToPost ==
    ASSUME UploadsTyped, NEW r \in Runs, NEW s, run' = [run EXCEPT ![r] = s],
           s.ready \subseteq run[r].ready,
           s.at \in Posting =>
              \/ s.file = run[r].file /\ run[r].at \in Posting
              \/ \E item \in run[r].ready : s.file = item.file
    PROVE  \A f \in Files : ToPost(f)' \subseteq ToPost(f)
<1>1. run'[r] = s /\ \A q \in Runs \ {r} : run'[q] = run[q]
    BY DEF UploadsTyped
<1>2. SUFFICES ASSUME NEW f \in Files, NEW q \in Runs,
                      Lists(q, f)' \/ (Hands(q, f)' /\ run'[q].at \in Posting)
               PROVE  Lists(q, f) \/ (Hands(q, f) /\ run[q].at \in Posting)
    BY DEF ToPost
<1>3. CASE q # r
    BY <1>1, <1>2, <1>3 DEF Lists, Hands, Active
<1>4. CASE q = r
    BY <1>1, <1>2, <1>4 DEF Lists, Hands, Active, Posting
<1> QED BY <1>3, <1>4

(* Fewer runs that may post a file: the count holds all the more.           *)
LEMMA CountKept ==
    ASSUME UploadsTyped, Counted, UNCHANGED <<posted, flushes>>,
           \A f \in Files : ToPost(f)' \subseteq ToPost(f)
    PROVE  Counted'
<1>1. ASSUME NEW f \in Files
      PROVE  IsFiniteSet(ToPost(f)') /\ posted[f] + Cardinality(ToPost(f)') <= flushes
  <2>1. PICK A, B : A = ToPost(f) /\ B = ToPost(f)'
      OBVIOUS
  <2>2. IsFiniteSet(A) /\ B \subseteq A /\ posted[f] + Cardinality(A) <= flushes
      BY <2>1 DEF Counted
  <2>3. IsFiniteSet(B) /\ Cardinality(B) <= Cardinality(A)
      BY <2>2, FS_Subset
  <2>4. Cardinality(A) \in Nat /\ Cardinality(B) \in Nat /\ posted[f] \in Nat /\ flushes \in Nat
      BY <2>2, <2>3, FS_CardinalityType DEF UploadsTyped, Counted
  <2>5. posted[f] + Cardinality(B) <= flushes
      BY <2>2, <2>3, <2>4
  <2> QED BY <2>1, <2>3, <2>5
<1> QED BY <1>1 DEF Counted

(* A flush lists a file once, whether it was to be posted before or not.   *)
LEMMA FlushCounts ==
    ASSUME UploadsTyped, Counted, NEW r \in Runs, Flush(r) PROVE Counted'
<1>1. /\ UNCHANGED posted /\ flushes' = flushes + 1 /\ flushes < MaxFlushes
      /\ flushes \in Nat /\ MaxFlushes \in Nat /\ posted \in [Files -> Nat]
    BY BoundsAssumption DEF Flush, server, UploadsTyped, Counted
<1>2. \A q \in Runs \ {r} : run'[q] = run[q]
    BY DEF Flush, UploadsTyped
<1>3. ASSUME NEW f \in Files
      PROVE  IsFiniteSet(ToPost(f)') /\ posted[f] + Cardinality(ToPost(f)') <= flushes + 1
  <2>1. PICK A, B : A = ToPost(f) /\ B = ToPost(f)'
      OBVIOUS
  <2>2. B \subseteq A \cup {r}
    <3>1. \A q \in Runs \ {r} : q \in B => q \in A
        BY <1>2, <2>1 DEF ToPost, Lists, Hands, Active
    <3> QED BY <2>1, <3>1 DEF ToPost
  <2>3. IsFiniteSet(A) /\ posted[f] + Cardinality(A) <= flushes
      BY <2>1 DEF Counted
  <2>4. /\ IsFiniteSet(A \cup {r})
        /\ Cardinality(A \cup {r}) = Cardinality(A) \/ Cardinality(A \cup {r}) = Cardinality(A) + 1
      BY <2>3, FS_AddElement
  <2>5. IsFiniteSet(B) /\ Cardinality(B) <= Cardinality(A \cup {r})
      BY <2>2, <2>4, FS_Subset
  <2>6. /\ Cardinality(A) \in Nat /\ Cardinality(B) \in Nat /\ Cardinality(A \cup {r}) \in Nat
        /\ posted[f] \in Nat
      BY <1>1, <2>3, <2>4, <2>5, FS_CardinalityType
  <2>7. posted[f] + Cardinality(B) <= flushes + 1
      BY <1>1, <2>3, <2>4, <2>5, <2>6
  <2> QED BY <2>1, <2>5, <2>7
<1> QED BY <1>1, <1>3 DEF Counted

(* Whoever has posted a file does not do so again in that run.             *)
LEMMA PostCounts ==
    ASSUME UploadsInv, Counted, NEW r \in Runs, NEW s, run[r].at = "post",
           run' = [run EXCEPT ![r] = s], s.ready = run[r].ready, s.file = run[r].file,
           s.at \in {"attach", "settle"},
           posted' = [posted EXCEPT ![run[r].file] = @ + 1], UNCHANGED flushes
    PROVE  Counted'
<1>1. PICK f : f = run[r].file
    OBVIOUS
<1>2. UploadsTyped /\ f \in Files /\ Hands(r, f)
    BY <1>1 DEF UploadsInv, Placed, Active, Hands
<1>3. run'[r] = s /\ \A q \in Runs \ {r} : run'[q] = run[q]
    BY <1>2 DEF UploadsTyped
<1>4. \A g \in Files : ToPost(g)' \subseteq ToPost(g)
    BY <1>2, NoMoreToPost DEF Posting
<1>5. r \in ToPost(f)
    BY <1>2 DEF ToPost, Posting
<1>6. r \notin ToPost(f)'
  <2>1. ~Lists(r, f)
      BY <1>2 DEF UploadsInv, Alone, Lists
  <2>2. ~Lists(r, f)'
      BY <1>3, <2>1 DEF Lists
  <2> QED BY <1>3, <2>2 DEF ToPost, Posting
<1>7. /\ posted \in [Files -> Nat] /\ flushes \in Nat /\ posted'[f] = posted[f] + 1
      /\ \A g \in Files \ {f} : posted'[g] = posted[g]
    BY <1>1, <1>2 DEF UploadsTyped, Counted
<1>8. ASSUME NEW g \in Files
      PROVE  IsFiniteSet(ToPost(g)') /\ posted'[g] + Cardinality(ToPost(g)') <= flushes
  <2>1. PICK A, B : A = ToPost(g) /\ B = ToPost(g)'
      OBVIOUS
  <2>2. IsFiniteSet(A) /\ posted[g] + Cardinality(A) <= flushes /\ B \subseteq A
      BY <1>4, <2>1 DEF Counted
  <2>3. IsFiniteSet(B) /\ Cardinality(B) <= Cardinality(A)
      BY <2>2, FS_Subset
  <2>4. g = f => Cardinality(B) # Cardinality(A)
      BY <1>5, <1>6, <2>1, <2>2, FS_Subset
  <2>5. Cardinality(A) \in Nat /\ Cardinality(B) \in Nat /\ posted[g] \in Nat
      BY <1>7, <2>2, <2>3, FS_CardinalityType
  <2>6. posted'[g] + Cardinality(B) <= flushes
    <3>1. CASE g = f
        BY <1>7, <2>2, <2>3, <2>4, <2>5, <3>1
    <3>2. CASE g # f
        BY <1>7, <2>2, <2>3, <2>5, <3>2
    <3> QED BY <3>1, <3>2
  <2> QED BY <2>1, <2>3, <2>6
<1> QED BY <1>7, <1>8 DEF Counted

(* Every step keeps the count of posts within that of the flushes.          *)
LEMMA CountStep ==
    ASSUME UploadsInv, Counted, [UploadsNext]_uploadVars PROVE Counted'
<1>1. UploadsTyped
    BY DEF UploadsInv
<1>2. UNCHANGED run => \A f \in Files : ToPost(f)' \subseteq ToPost(f)
    BY DEF ToPost, Lists, Hands, Active
<1>3. UNCHANGED <<run, posted, flushes>> => Counted'
    BY <1>1, <1>2, CountKept
<1>4. ASSUME NEW r \in Runs, NEW s, run' = [run EXCEPT ![r] = s],
             s.file = run[r].file, s.ready = run[r].ready,
             s.at \in Posting => run[r].at \in Posting, UNCHANGED <<posted, flushes>>
      PROVE  Counted'
    BY <1>1, <1>4, NoMoreToPost, CountKept
<1>5. \A r \in Runs : run[r] \in RunStates
    BY <1>1 DEF UploadsTyped
<1>6. /\ \A stage : \A r \in Runs : [run EXCEPT ![r].at = stage] =
            [run EXCEPT ![r] = [run[r] EXCEPT !.at = stage]]
      /\ \A outcome : \A r \in Runs : Ends(r, outcome) =
            [run EXCEPT ![r] = [run[r] EXCEPT !.at = "settle", !.outcome = outcome]]
      /\ \A r \in Runs : [run EXCEPT ![r].at = "save", ![r].seen = version, ![r].ids = attached] =
            [run EXCEPT ![r] = [run[r] EXCEPT !.at = "save", !.seen = version, !.ids = attached]]
  <2>1. \A stage : \A r \in Runs : [run EXCEPT ![r].at = stage] =
            [run EXCEPT ![r] = [run[r] EXCEPT !.at = stage]]
      BY <1>1 DEF UploadsTyped
  <2>2. \A outcome : \A r \in Runs : Ends(r, outcome) =
            [run EXCEPT ![r] = [run[r] EXCEPT !.at = "settle", !.outcome = outcome]]
      BY <1>1 DEF UploadsTyped, Ends
  <2>3. \A r \in Runs : [run EXCEPT ![r].at = "save", ![r].seen = version, ![r].ids = attached] =
            [run EXCEPT ![r] = [run[r] EXCEPT !.at = "save", !.seen = version, !.ids = attached]]
      BY <1>1 DEF UploadsTyped
  <2> QED BY <2>1, <2>2, <2>3
<1>7. ASSUME NEW r \in Runs, NEW stage, run' = [run EXCEPT ![r].at = stage],
             stage \in Posting => run[r].at \in Posting, UNCHANGED <<posted, flushes>>
      PROVE  Counted'
  <2>1. PICK s : s = [run[r] EXCEPT !.at = stage]
      OBVIOUS
  <2>2. s.at = stage /\ s.file = run[r].file /\ s.ready = run[r].ready
      BY <1>5, <2>1 DEF RunStates
  <2> QED BY <1>4, <1>6, <1>7, <2>1, <2>2, ZenonT(40)
<1>8. ASSUME NEW r \in Runs, NEW outcome, run' = Ends(r, outcome), UNCHANGED <<posted, flushes>>
      PROVE  Counted'
  <2>1. PICK s : s = [run[r] EXCEPT !.at = "settle", !.outcome = outcome]
      OBVIOUS
  <2>2. s.at = "settle" /\ s.file = run[r].file /\ s.ready = run[r].ready
      BY <1>5, <2>1 DEF RunStates
  <2>3. run' = [run EXCEPT ![r] = s]
      BY <1>6, <1>8, <2>1
  <2> QED BY <1>4, <1>8, <2>2, <2>3 DEF Posting
<1>9. ASSUME NEW r \in Runs, MarkUploading(r) PROVE Counted'
    BY <1>7, <1>9 DEF MarkUploading, server, history, Posting
<1>10. ASSUME NEW r \in Runs, ReadBlob(r) PROVE Counted'
  <2>1. UNCHANGED <<posted, flushes>> /\ run[r].at = "read"
      BY <1>10 DEF ReadBlob, server, history
  <2>2. \/ \E stage : run' = [run EXCEPT ![r].at = stage]
        \/ run' = Ends(r, "rejected")
      BY <1>10 DEF ReadBlob
  <2> QED BY <1>7, <1>8, <2>1, <2>2 DEF Posting
<1>11. ASSUME NEW r \in Runs, Attach(r) PROVE Counted'
  <2>1. UNCHANGED <<posted, flushes>>
      BY <1>11 DEF Attach, server
  <2>2. CASE \E outcome : run' = Ends(r, outcome)
      BY <1>8, <2>1, <2>2
  <2>3. CASE run' = [run EXCEPT ![r].at = "save", ![r].seen = version, ![r].ids = attached]
    <3>1. PICK s : s = [run[r] EXCEPT !.at = "save", !.seen = version, !.ids = attached]
        OBVIOUS
    <3>2. s.at = "save" /\ s.file = run[r].file /\ s.ready = run[r].ready
        BY <1>5, <3>1 DEF RunStates
    <3>3. run' = [run EXCEPT ![r] = s]
        BY <1>6, <2>3, <3>1
    <3> QED BY <1>4, <2>1, <3>2, <3>3 DEF Posting
  <2> QED BY <1>11, <2>2, <2>3 DEF Attach
<1>12. ASSUME NEW r \in Runs, Save(r) PROVE Counted'
  <2>1. UNCHANGED <<posted, flushes>> /\ \E outcome : run' = Ends(r, outcome)
      BY <1>12 DEF Save
  <2> QED BY <1>8, <2>1
<1>13. ASSUME NEW r \in Runs, Post(r) PROVE Counted'
  <2>1. run[r].at = "post" /\ UNCHANGED flushes
      BY <1>13 DEF Post
  <2>2. CASE UNCHANGED posted
    <3>1. \E outcome : run' = Ends(r, outcome)
      <4>1. run[r].file \in Files /\ posted[run[r].file] \in Nat
          BY <2>1 DEF UploadsInv, Placed, Active, UploadsTyped
      <4>2. posted' # [posted EXCEPT ![run[r].file] = @ + 1]
          BY <1>1, <2>2, <4>1 DEF UploadsTyped
      <4> QED BY <1>13, <4>2 DEF Post
    <3> QED BY <1>8, <2>1, <2>2, <3>1
  <2>3. CASE posted' = [posted EXCEPT ![run[r].file] = @ + 1]
    <3>1. \E s : /\ run' = [run EXCEPT ![r] = s] /\ s.ready = run[r].ready
                 /\ s.file = run[r].file /\ s.at \in {"attach", "settle"}
      <4>1. CASE \E outcome : run' = Ends(r, outcome)
        <5>1. PICK outcome : run' = Ends(r, outcome)
            BY <4>1
        <5>2. PICK s : s = [run[r] EXCEPT !.at = "settle", !.outcome = outcome]
            OBVIOUS
        <5>3. s.at = "settle" /\ s.file = run[r].file /\ s.ready = run[r].ready
            BY <1>5, <5>2 DEF RunStates
        <5>4. run' = [run EXCEPT ![r] = s]
            BY <1>6, <5>1, <5>2
        <5> QED BY <5>3, <5>4
      <4>2. CASE run' = [run EXCEPT ![r].at = "attach",
                            ![r].receipt = <<run[r].file, posted[run[r].file] + 1>>]
        <5>1. PICK id : id = <<run[r].file, posted[run[r].file] + 1>>
            OBVIOUS
        <5>2. PICK s : s = [run[r] EXCEPT !.at = "attach", !.receipt = id]
            OBVIOUS
        <5>3. s.at = "attach" /\ s.file = run[r].file /\ s.ready = run[r].ready
            BY <1>5, <5>2 DEF RunStates
        <5>4. run' = [run EXCEPT ![r] = s]
            BY <1>1, <4>2, <5>1, <5>2 DEF UploadsTyped
        <5> QED BY <5>3, <5>4
      <4> QED BY <1>13, <4>1, <4>2 DEF Post
    <3>2. PICK s : /\ run' = [run EXCEPT ![r] = s] /\ s.ready = run[r].ready
                   /\ s.file = run[r].file /\ s.at \in {"attach", "settle"}
        BY <3>1
    <3> QED BY <2>1, <2>3, <3>2, PostCounts
  <2>4. UNCHANGED posted \/ posted' = [posted EXCEPT ![run[r].file] = @ + 1]
      BY <1>13 DEF Post
  <2> QED BY <2>2, <2>3, <2>4
<1>14. ASSUME NEW r \in Runs, SettleUpload(r) PROVE Counted'
  <2>1. UNCHANGED <<posted, flushes>>
      BY <1>14 DEF SettleUpload, server, history
  <2>2. PICK s \in RunStates :
           /\ run' = [run EXCEPT ![r] = s]
           /\ \/ s.at = "idle" /\ s.ready = {}
              \/ \E item \in run[r].ready :
                    s.file = item.file /\ s.ready = run[r].ready \ {item}
      BY <1>14, MovesOn
  <2>3. /\ s.ready \subseteq run[r].ready
        /\ s.at \in Posting => \E item \in run[r].ready : s.file = item.file
      BY <2>2 DEF Posting
  <2> QED BY <1>1, <2>1, <2>2, <2>3, NoMoreToPost, CountKept
<1>15. ASSUME NEW r \in Runs, Kill(r) PROVE Counted'
  <2>1. /\ UNCHANGED <<posted, flushes>> /\ run' = [run EXCEPT ![r] = Idle]
        /\ Idle.at = "idle" /\ Idle.ready = {}
      BY <1>15 DEF Kill, Idle
  <2>2. Idle.ready \subseteq run[r].ready /\ Idle.at \notin Posting
      BY <2>1 DEF Posting
  <2> QED BY <1>1, <2>1, <2>2, NoMoreToPost, CountKept
<1>16. ASSUME NEW r \in Runs, Flush(r) PROVE Counted'
    BY <1>1, <1>16, FlushCounts
<1>17. ASSUME NEW f \in Files, \/ CaptureFile(f) \/ Preview(f) \/ BackoffEnds(f)
                               \/ Dismiss(f) \/ DropBlob(f) \/ Promote(f)
       PROVE  UNCHANGED <<run, posted, flushes>>
    BY <1>17 DEF CaptureFile, Preview, BackoffEnds, Dismiss, DropBlob, Promote, server, history
<1>18. ASSUME (\E s \in strays : SavesLate(s)) \/ PushTransaction \/ Detach \/ Delete
       PROVE  UNCHANGED <<run, posted, flushes>>
    BY <1>18 DEF SavesLate, PushTransaction, Detach, Delete, history
<1>19. ASSUME NEW id \in Known, Detaches(id) \/ PullReceipt(id)
       PROVE  UNCHANGED <<run, posted, flushes>>
    BY <1>19 DEF Detaches, PullReceipt, history
<1>20. ASSUME UNCHANGED uploadVars PROVE UNCHANGED <<run, posted, flushes>>
    BY <1>20 DEF uploadVars, server, history
<1> QED BY <1>3, <1>9, <1>10, <1>11, <1>12, <1>13, <1>14, <1>15, <1>16, <1>17, <1>18,
           <1>19, <1>20 DEF UploadsNext, Works
-----------------------------------------------------------------------------
(* A receipt is buried only after its id was taken off the transaction.    *)
LEMMA DeleteStep ==
    ASSUME Deleting, UploadsNext \/ UNCHANGED uploadVars PROVE Deleting'
<1>1. UNCHANGED <<synced, deleted, removed, other>> => Deleting'
    BY DEF Deleting
<1>2. ASSUME NEW f \in Files, \/ CaptureFile(f) \/ Preview(f) \/ BackoffEnds(f)
                              \/ Dismiss(f) \/ DropBlob(f) \/ Promote(f)
      PROVE  Deleting'
    BY <1>1, <1>2, SMTT(30)
    DEF CaptureFile, Preview, BackoffEnds, Dismiss, DropBlob, Promote, server
<1>3. ASSUME NEW r \in Runs, Works(r) \/ Flush(r) \/ Kill(r) PROVE Deleting'
    BY <1>1, <1>3 DEF Works, MarkUploading, ReadBlob, Post, Attach, Save, SettleUpload, Flush,
       Kill, server
<1>4. ASSUME NEW s \in strays, SavesLate(s) PROVE Deleting'
    BY <1>1, <1>4 DEF SavesLate
<1>5. CASE PushTransaction
    BY <1>5 DEF PushTransaction, Deleting
<1>6. CASE Detach
    BY <1>6 DEF Detach, Deleting, NoOther
<1>7. CASE Delete
    BY <1>7 DEF Delete, Deleting, NoOther
<1>8. ASSUME NEW id \in Known, Detaches(id) PROVE Deleting'
    BY <1>8 DEF Detaches, Deleting
<1>9. ASSUME NEW id \in Known, PullReceipt(id) PROVE Deleting'
    BY <1>9 DEF PullReceipt, Deleting, NoOther
<1>10. CASE UNCHANGED uploadVars
    BY <1>1, <1>10 DEF uploadVars, server
<1> QED BY <1>2, <1>3, <1>4, <1>5, <1>6, <1>7, <1>8, <1>9, <1>10 DEF UploadsNext

(* Before the first capture nothing is cached, posted or deleted.          *)
LEMMA StockStarts == UploadsInit => StockInv
<1> SUFFICES ASSUME UploadsInit PROVE StockInv
    OBVIOUS
<1>1. UploadsInv
    BY InitInv
<1>2. Cached
  <2>1. cache = <<>> /\ <<>> \in Seq(Files) /\ DOMAIN <<>> = {}
      BY DEF UploadsInit
  <2> QED BY <2>1 DEF Cached, Once, Range
<1>3. Counted
  <2>1. \A f \in Files : ToPost(f) = {}
      BY DEF UploadsInit, ToPost, Lists, Hands, Active, Idle
  <2>2. flushes = 0 /\ \A f \in Files : posted[f] = 0
      BY DEF UploadsInit
  <2> QED BY <2>1, <2>2, FS_EmptySet, BoundsAssumption DEF Counted
<1>4. Deleting
    BY DEF UploadsInit, Deleting, NoOther
<1> QED BY <1>1, <1>2, <1>3, <1>4 DEF StockInv

(* What the cache holds has a row, and no file is posted more often than   *)
(* it was flushed: the invariant behind the types.                         *)
THEOREM StockInvHolds == UploadsSpec => []StockInv
<1>1. StockInv /\ [UploadsNext]_uploadVars => StockInv'
  <2> SUFFICES ASSUME StockInv, [UploadsNext]_uploadVars PROVE StockInv'
      OBVIOUS
  <2> USE DEF StockInv
  <2>1. UploadsInv' /\ Cached'
      BY NextInv, CacheStep
  <2>2. Counted' /\ Deleting'
      BY CountStep, DeleteStep
  <2> QED BY <2>1, <2>2
<1> QED BY <1>1, StockStarts, PTL DEF UploadsSpec

(* An id somebody knows of is one the server has given out.                *)
LEMMA SeenIsKnown ==
    ASSUME StockInv, NEW id \in Ids, InSight(id)
    PROVE  id \in Receipts /\ id \in Known
<1>1. PICK f \in Files, i \in Nat : id = <<f, i>>
    BY DEF Ids
<1>2. i \in 1..posted[f]
    BY <1>1 DEF StockInv, UploadsInv, Answered
<1>3. posted[f] <= MaxFlushes + MaxMishaps
  <2>1. /\ posted[f] \in Nat /\ Cardinality(ToPost(f)) \in Nat
        /\ posted[f] + Cardinality(ToPost(f)) <= flushes
        /\ flushes \in Nat /\ flushes <= MaxFlushes
      BY FS_CardinalityType DEF StockInv, Counted, UploadsInv, UploadsTyped
  <2> QED BY <2>1, BoundsAssumption
<1>4. posted[f] \in Nat
    BY DEF StockInv, UploadsInv, UploadsTyped
<1>5. i \in 1..(MaxFlushes + MaxMishaps)
    BY <1>2, <1>3, <1>4, BoundsAssumption
<1>6. id \in Receipts
    BY <1>1, <1>5 DEF Receipts
<1>7. id[2] <= posted[id[1]]
    BY <1>1, <1>2, <1>4
<1> QED BY <1>6, <1>7 DEF Known

(* The types of the model follow.                                          *)
LEMMA StockTypes == StockInv => UploadsTypeOK
<1> SUFFICES ASSUME StockInv PROVE UploadsTypeOK
    OBVIOUS
<1> USE DEF StockInv
<1>1. UploadsTyped /\ Placed
    BY DEF UploadsInv
<1>2. entry \in [Files -> [status : Unresolved \cup {"none", "uploaded", "rejected", "removed"},
                           receipt : Receipts \cup {NoReceipt}, waits : BOOLEAN]]
  <2>1. \A f \in Files : entry[f] \in Entries /\ entry[f].receipt \in Ids \cup {NoReceipt}
      BY <1>1 DEF UploadsTyped, Entries, MaybeIds
  <2>2. \A f \in Files : entry[f].receipt \in Receipts \cup {NoReceipt}
      BY <2>1, SeenIsKnown DEF InSight
  <2>3. \A f \in Files : entry[f] \in [status : Unresolved \cup {"none", "uploaded", "rejected",
                                         "removed"},
                               receipt : Receipts \cup {NoReceipt}, waits : BOOLEAN]
      BY <2>1, <2>2 DEF Entries
  <2> QED BY <1>1, <2>3 DEF UploadsTyped
<1>3. IsInjective(cache) /\ Range(cache) \subseteq Files
    BY LenProperties, ElementOfSeq DEF Cached, Once, IsInjective, Range
<1>4. \A r \in Runs :
         run[r].at \in {"idle", "mark", "read", "post", "attach", "save", "settle"}
    BY <1>1 DEF UploadsTyped, RunStates
<1>5. attached \subseteq Known
  <2>1. \A id \in attached : id \in Ids /\ InSight(id)
      BY <1>1 DEF UploadsTyped, InSight
  <2> QED BY <2>1, SeenIsKnown
<1>6. deleted \subseteq removed /\ version \in Nat /\ synced \in BOOLEAN
    BY <1>1 DEF Deleting, UploadsTyped
<1> QED BY <1>2, <1>3, <1>4, <1>5, <1>6 DEF UploadsTypeOK

(* The cache never gives up a blob whose entry is still to be sent, be it  *)
(* to a capture that evicts or to another reading, unless the user has     *)
(* dismissed it; and it holds no file twice.                               *)
THEOREM BlobsAreSpared == UploadsSpec => QueuedBlobIsSpared
<1>1. StockInv /\ [UploadsNext]_uploadVars =>
         [\A f \in Files :
             Waiting(f) /\ f \in Range(cache) /\ f \notin Range(cache')
             => entry'[f].status \in {"rejected", "removed"} \/ f \in dropping]_uploadVars
  <2> SUFFICES ASSUME StockInv, [UploadsNext]_uploadVars PROVE Spares
      BY DEF Spares
  <2> QED BY CacheStep DEF StockInv
<1> QED BY <1>1, StockTypes, StockInvHolds, PTL DEF UploadsSpec, QueuedBlobIsSpared

-----------------------------------------------------------------------------
(* The pull. *)
USE CursorAssumption DEF Entities

(* Before is a strict order; two documents are never at one position.      *)
LEMMA BeforeOrders ==
    ASSUME NEW p \in Nat \X Nat, NEW q \in Nat \X Nat, NEW r \in Nat \X Nat
    PROVE  /\ ~Before(p, p)
           /\ Before(p, q) /\ Before(q, r) => Before(p, r)
           /\ ~Before(q, p) /\ Before(q, r) => Before(p, r)
           /\ ~Before(q, p) => p = q \/ Before(p, q)
PROOF
  BY DEF Before

(* Every position follows Start, and no two documents share one.           *)
LEMMA Positions ==
    ASSUME TypeOK, NEW d \in Docs, NEW x \in Docs
    PROVE  /\ Pos(d) \in Nat \X Nat
           /\ Before(Start, Pos(d))
           /\ x # d => Before(Pos(x), Pos(d)) \/ Before(Pos(d), Pos(x))
PROOF
<1>1. db[d].at \in Nat /\ db[x].at \in Nat /\ d \in Nat /\ x \in Nat /\ d > 0
  <2>1. db[d] \in Writes \cup {Absent} /\ db[x] \in Writes \cup {Absent}
    BY DEF TypeOK
  <2>2. \A w \in Writes \cup {Absent} : w.at \in Nat
    BY DEF Writes, Absent
  <2>3. db[d].at \in Nat /\ db[x].at \in Nat
    BY <2>1, <2>2, Zenon
  <2>4. d \in Nat /\ x \in Nat /\ d > 0
    OBVIOUS
  <2> QED
    BY <2>3, <2>4
<1>2. Pos(d) \in Nat \X Nat /\ Before(Start, Pos(d))
  BY <1>1 DEF Pos, Before, Start
<1>3. x # d => Before(Pos(x), Pos(d)) \/ Before(Pos(d), Pos(x))
  BY <1>1 DEF Pos, Before
<1> QED
  BY <1>2, <1>3

(* Earlier documents are finitely many, and fewer the earlier one looks.   *)
LEMMA EarlierGrows ==
    ASSUME TypeOK, NEW docs \in SUBSET Docs, NEW d \in docs, NEW x \in docs,
           Before(Pos(d), Pos(x))
    PROVE  /\ Cardinality(Earlier(docs, d)) \in Nat
           /\ Cardinality(Earlier(docs, x)) \in Nat
           /\ Cardinality(Earlier(docs, d)) < Cardinality(Earlier(docs, x))
PROOF
<1>1. Earlier(docs, d) \subseteq Earlier(docs, x)
  <2>1. \A y \in docs : Before(Pos(y), Pos(d)) => Before(Pos(y), Pos(x))
    BY Positions, BeforeOrders
  <2> QED
    BY <2>1 DEF Earlier
<1>2. d \in Earlier(docs, x) /\ d \notin Earlier(docs, d)
  BY Positions, BeforeOrders DEF Earlier
<1>3. IsFiniteSet(Earlier(docs, x)) /\ IsFiniteSet(Earlier(docs, d))
  BY FS_Subset DEF Earlier
<1> QED
  BY <1>1, <1>2, <1>3, FS_Subset, FS_CardinalityType

(* What precedes a document among some documents can be counted.           *)
LEMMA EarlierFinite ==
    ASSUME TypeOK, NEW docs \in SUBSET Docs, NEW d \in docs
    PROVE  Cardinality(Earlier(docs, d)) \in Nat
PROOF
<1>1. IsFiniteSet(Earlier(docs, d))
  BY FS_Subset DEF Earlier
<1> QED
  BY <1>1, FS_CardinalityType

(* A set of documents that is not empty has a last one.  What follows a    *)
(* document is counted, and the count has a least value.                   *)
LEMMA LastExists ==
    ASSUME TypeOK, NEW docs \in SUBSET Docs, docs # {}
    PROVE  \E d \in docs : \A x \in docs : x = d \/ Before(Pos(x), Pos(d))
PROOF
<1> DEFINE Later(d) == {x \in docs : Before(Pos(d), Pos(x))}
           Counts == {Cardinality(Later(d)) : d \in docs}
<1>1. \A d \in docs : IsFiniteSet(Later(d)) /\ Cardinality(Later(d)) \in Nat
  BY FS_Subset, FS_CardinalityType
<1> HIDE DEF Later
<1>2. Counts \subseteq Nat /\ Counts # {}
  BY <1>1
<1>3. PICK n \in Counts : \A k \in Counts : ~(<<k, n>> \in OpToRel(<, Nat))
  BY <1>2, NatLessThanWellFounded, WFMin
<1>4. \A k \in Counts : ~(k < n)
  BY <1>2, <1>3 DEF OpToRel
<1>5. PICK d \in docs : n = Cardinality(Later(d))
  OBVIOUS
<1>6. ASSUME NEW x \in docs, Before(Pos(d), Pos(x))
      PROVE  FALSE
  <2>1. Later(x) \subseteq Later(d)
    BY <1>6, Positions, BeforeOrders DEF Later
  <2>2. x \in Later(d) /\ x \notin Later(x)
    BY <1>6, Positions, BeforeOrders DEF Later
  <2>3. Cardinality(Later(x)) < Cardinality(Later(d))
    BY <1>1, <2>1, <2>2, FS_Subset
  <2> QED
    BY <1>4, <1>5, <2>3
<1> QED
  BY <1>6, Positions

(* LastOf gives the position of one of them, which none follows.           *)
LEMMA LastOfIsLast ==
    ASSUME TypeOK, NEW docs \in SUBSET Docs, NEW c
    PROVE  /\ docs = {} => LastOf(docs, c) = c
           /\ docs # {} => \E d \in docs : LastOf(docs, c) = Pos(d)
           /\ \A x \in docs : ~Before(LastOf(docs, c), Pos(x))
PROOF
<1>1. CASE docs = {}
  BY <1>1 DEF LastOf
<1>2. CASE docs # {}
  <2> DEFINE IsLast(d) == \A x \in docs : x = d \/ Before(Pos(x), Pos(d))
             l == CHOOSE d \in docs : IsLast(d)
  <2>1. \E d \in docs : IsLast(d)
    BY <1>2, LastExists
  <2>2. l \in docs /\ IsLast(l)
    BY <2>1
  <2>3. LastOf(docs, c) = Pos(l)
    BY <1>2 DEF LastOf
  <2> HIDE DEF l
  <2>4. \A x \in docs : ~Before(Pos(l), Pos(x))
    BY <2>2, Positions, BeforeOrders
  <2> QED
    BY <1>2, <2>2, <2>3, <2>4
<1> QED
  BY <1>1, <1>2

(* The first n documents are at most n, and precede all the others.        *)
LEMMA FirstIsFirst ==
    ASSUME TypeOK, NEW docs \in SUBSET Docs, NEW n \in Nat
    PROVE  /\ First(n, docs) \subseteq docs
           /\ Cardinality(First(n, docs)) \in 0..n
           /\ \A x \in First(n, docs), d \in docs \ First(n, docs) :
                 Before(Pos(x), Pos(d))
PROOF
<1>1. First(n, docs) \subseteq docs
  BY DEF First
<1>2. ASSUME NEW x \in First(n, docs), NEW d \in docs \ First(n, docs),
             ~Before(Pos(x), Pos(d))
      PROVE  FALSE
  <2>1. Before(Pos(d), Pos(x))
    BY <1>1, <1>2, Positions
  <2>2. Cardinality(Earlier(docs, d)) < Cardinality(Earlier(docs, x))
    BY <1>1, <2>1, EarlierGrows
  <2>3. Cardinality(Earlier(docs, d)) < n
    BY <1>1, <2>2, EarlierFinite DEF First
  <2> QED
    BY <2>3 DEF First
<1>3. Cardinality(First(n, docs)) \in 0..n
  <2> DEFINE ranks == IF n = 0 THEN {} ELSE 0..(n - 1)
             rank == [d \in First(n, docs) |-> Cardinality(Earlier(docs, d))]
  <2>1. IsFiniteSet(ranks) /\ Cardinality(ranks) = n
    BY FS_EmptySet, FS_Interval
  <2>2. \A d \in First(n, docs) : rank[d] \in ranks
    BY EarlierFinite DEF First
  <2>3. \A d, x \in First(n, docs) : rank[d] = rank[x] => d = x
    <3> SUFFICES ASSUME NEW d \in First(n, docs), NEW x \in First(n, docs), d # x
                 PROVE  rank[d] # rank[x]
      OBVIOUS
    <3>1. Before(Pos(d), Pos(x)) \/ Before(Pos(x), Pos(d))
      BY <1>1, Positions
    <3>2. \/ Cardinality(Earlier(docs, d)) < Cardinality(Earlier(docs, x))
          \/ Cardinality(Earlier(docs, x)) < Cardinality(Earlier(docs, d))
      BY <1>1, <3>1, EarlierGrows
    <3>3. /\ Cardinality(Earlier(docs, d)) \in Nat
          /\ Cardinality(Earlier(docs, x)) \in Nat
      BY <1>1, EarlierFinite
    <3> QED
      BY <3>2, <3>3
  <2>4. rank \in Injection(First(n, docs), ranks)
    BY <2>2, <2>3 DEF Injection, IsInjective
  <2> QED
    BY <2>1, <2>4, FS_Injection, FS_CardinalityType
<1> QED
  BY <1>1, <1>2, <1>3

-----------------------------------------------------------------------------
(* The invariant, one lemma for each kind of step.                         *)

(* What TypeOK says of the parts.                                          *)
LEMMA Typed ==
    ASSUME TypeOK
    PROVE  /\ \A d \in Docs : /\ db[d].at \in Nat
                              /\ EntityOf[d] \in Entities /\ d \in Nat /\ d > 0
           /\ \A e \in Entities : /\ cursor[e] \in Nat \X Nat /\ next[e] \in Nat \X Nat
                                  /\ seen[e] \in Nat \X Nat
           /\ \A d \in DOMAIN page : d \in Docs /\ page[d].at \in Nat
PROOF
<1>1. \A w \in Writes \cup {Absent} : w.at \in Nat
  BY DEF Writes, Absent
<1>2. /\ \A d \in Docs : db[d] \in Writes \cup {Absent}
      /\ \A d \in DOMAIN page : d \in Docs /\ page[d] \in Writes
      /\ \A e \in Entities : /\ cursor[e] \in Nat \X Nat /\ next[e] \in Nat \X Nat
                             /\ seen[e] \in Nat \X Nat
  BY DEF TypeOK
<1> QED
  BY <1>1, <1>2

(* The collections before the device signs in.                             *)
LEMMA InitOK == Init => Inv
PROOF
<1> SUFFICES ASSUME Init PROVE Inv
  OBVIOUS
<1>1. \A d \in Docs : db[d] = Absent \/ db[d] = [is |-> "live", at |-> 0, no |-> 0]
  BY DEF Init
<1>2. TypeOK
  <2>1. \A d \in Docs : db[d] \in Writes \cup {Absent}
    BY <1>1 DEF Writes
  <2>2. db \in [Docs -> Writes \cup {Absent}] /\ row \in [Docs -> Writes \cup {Absent}]
    BY <2>1 DEF Init
  <2>3. /\ cursor \in [Entities -> Nat \X Nat] /\ next \in [Entities -> Nat \X Nat]
        /\ seen \in [Entities -> Nat \X Nat]
        /\ late = {} /\ erased = {} /\ since = {} /\ writes \in Nat /\ faults \in Nat
        /\ pc = "idle" /\ at = 1 /\ remaining = Limit /\ hasMore = FALSE
    BY DEF Init, Start
  <2>4. DOMAIN page = {}
    BY DEF Init, NoPage
  <2>5. 1 \in 1..(NumEntities + 1) /\ Limit \in 0..Limit
    OBVIOUS
  <2> QED
    BY <2>2, <2>3, <2>4, <2>5 DEF TypeOK
<1>3. \A d \in Docs : /\ EntityOf[d] \in Entities /\ Merge(d) = Absent /\ row[d] = Absent
                      /\ cursor[EntityOf[d]] = Start /\ next[EntityOf[d]] = Start
  BY DEF Init, Merge, NoPage
<1>4. \A d \in Docs : Before(Start, Pos(d))
  BY <1>2, Positions
<1>5. NothingBehind /\ PageFollows
  BY <1>3, <1>4 DEF NothingBehind, PageFollows
<1>6. Unread /\ AbsentUnseen
  BY <1>3 DEF Unread, AbsentUnseen, View, Absent
<1>7. WithinSeen /\ PageHolds /\ CursorsMove
  BY DEF Init, WithinSeen, PageHolds, CursorsMove, Start, NoPage, Before
<1> QED
  BY <1>2, <1>5, <1>6, <1>7 DEF Inv

(* A write that arrives after all that was read lies ahead of the cursor   *)
(* and of the page; any other one is out of reach.                         *)
LEMMA WriteKeeps ==
    ASSUME Inv, NEW d \in Docs, NEW is \in {"live", "gone"}, NEW t \in Stamps,
           Write(d, is, t)
    PROVE  Inv'
PROOF
<1> DEFINE w == [is |-> is, at |-> t, no |-> writes + 1]
           e == EntityOf[d]
           OnTime == Before(seen[e], <<t, d>>)
<1>1. /\ db' = [db EXCEPT ![d] = w] /\ writes' = writes + 1 /\ since' = since \cup {d}
      /\ late' = IF OnTime THEN late \ {d} ELSE late \cup {d}
      /\ erased' = IF OnTime THEN erased \ {d} ELSE erased
      /\ UNCHANGED <<row, cursor, pc, pageVars, faults, seen>>
  BY DEF Write
<1>2. /\ TypeOK /\ WithinSeen /\ NothingBehind /\ PageFollows /\ PageHolds
      /\ CursorsMove /\ Unread /\ AbsentUnseen
  BY DEF Inv
<1>3. w \in Writes /\ t \in Nat
  BY <1>2 DEF Writes, Stamps, TypeOK
<1>4. TypeOK'
  <2>1. db' \in [Docs -> Writes \cup {Absent}] /\ writes' \in Nat
    BY <1>1, <1>2, <1>3 DEF TypeOK
  <2>2. late' \subseteq Docs /\ erased' \subseteq Docs /\ since' \subseteq Docs
    BY <1>1, <1>2 DEF TypeOK
  <2> QED
    BY <1>1, <1>2, <2>1, <2>2 DEF TypeOK, pageVars
<1>5. /\ db'[d] = w /\ Pos(d)' = <<t, d>>
      /\ \A x \in Docs : x # d => db'[x] = db[x] /\ Pos(x)' = Pos(x)
      /\ \A x \in Docs : Merge(x)' = Merge(x)
  BY <1>1, <1>2 DEF TypeOK, Pos, Merge, pageVars
<1>6. /\ \A x \in Docs \ OutOfReach' : x # d => x \notin OutOfReach
      /\ d \notin OutOfReach' => OnTime
  BY <1>1 DEF OutOfReach
<1>7. OnTime => Before(cursor[e], Pos(d)') /\ Before(next[e], Pos(d)')
  <2>1. /\ cursor[e] \in Nat \X Nat /\ next[e] \in Nat \X Nat /\ seen[e] \in Nat \X Nat
        /\ <<t, d>> \in Nat \X Nat
    BY <1>2, <1>3, Typed
  <2>2. ~Before(seen[e], cursor[e]) /\ ~Before(seen[e], next[e])
    BY <1>2, Typed DEF WithinSeen
  <2> HIDE DEF e
  <2> QED
    BY <1>5, <2>1, <2>2, BeforeOrders
<1>8. NothingBehind' /\ PageFollows'
  BY <1>1, <1>2, <1>5, <1>6, <1>7 DEF NothingBehind, PageFollows, View, pageVars
<1>9. AbsentUnseen'
  <2>1. db'[d].is # "none"
    BY <1>5
  <2> HIDE DEF w
  <2> QED
    BY <1>1, <1>2, <1>5, <1>6, <2>1 DEF AbsentUnseen, View
<1>10. WithinSeen' /\ PageHolds' /\ CursorsMove' /\ Unread'
  BY <1>1, <1>2 DEF WithinSeen, PageHolds, CursorsMove, Unread, pageVars
<1> QED
  BY <1>4, <1>8, <1>9, <1>10 DEF Inv

(* What is taken away the device does not show, or it is out of reach.     *)
LEMMA VanishKeeps ==
    ASSUME Inv, NEW d \in Docs, Vanish(d)
    PROVE  Inv'
PROOF
<1>1. /\ db' = [db EXCEPT ![d] = Absent]
      /\ erased' = IF View(row[d]) = <<>> /\ View(Merge(d)) = <<>>
                  THEN erased ELSE erased \cup {d}
      /\ UNCHANGED <<writes, row, cursor, pc, pageVars, faults, seen, late, since>>
  BY DEF Vanish
<1>2. /\ TypeOK /\ WithinSeen /\ NothingBehind /\ PageFollows /\ PageHolds
      /\ CursorsMove /\ Unread /\ AbsentUnseen
  BY DEF Inv
<1>3. TypeOK'
  BY <1>1, <1>2 DEF TypeOK, pageVars
<1>4. /\ db'[d] = Absent /\ View(db'[d]) = <<>>
      /\ \A x \in Docs : x # d => db'[x] = db[x] /\ Pos(x)' = Pos(x)
      /\ \A x \in Docs : Merge(x)' = Merge(x)
  BY <1>1, <1>2 DEF TypeOK, Pos, Merge, View, Absent, pageVars
<1>5. /\ \A x \in Docs \ OutOfReach' : x \notin OutOfReach
      /\ d \notin OutOfReach' => View(row[d]) = <<>> /\ View(Merge(d)) = <<>>
  BY <1>1 DEF OutOfReach
<1>6. \A x \in Docs : View(db[x])' = View(db'[x]) /\ View(row[x])' = View(row[x])
                      /\ View(Merge(x))' = View(Merge(x))
  BY <1>1, <1>4 DEF View
<1>7. NothingBehind' /\ PageFollows'
  BY <1>1, <1>2, <1>4, <1>5, <1>6 DEF NothingBehind, PageFollows, pageVars
<1>8. AbsentUnseen'
  BY <1>1, <1>2, <1>4, <1>5, <1>6 DEF AbsentUnseen
<1>9. WithinSeen' /\ PageHolds' /\ CursorsMove' /\ Unread'
  BY <1>1, <1>2 DEF WithinSeen, PageHolds, CursorsMove, Unread, pageVars
<1> QED
  BY <1>3, <1>7, <1>8, <1>9 DEF Inv

(* A request that starts over, and what the device holds before it.        *)
LEMMA Rewound ==
    ASSUME page' = NoPage, next' = cursor', NothingBehind'
    PROVE  PageFollows' /\ PageHolds' /\ \A d \in Docs : Merge(d)' = row'[d]
PROOF
<1>1. \A d \in Docs : Merge(d)' = row'[d]
  BY DEF Merge, NoPage
<1>2. PageHolds'
  BY DEF PageHolds, NoPage
<1>3. PageFollows'
  BY <1>1 DEF PageFollows, NothingBehind, View
<1> QED
  BY <1>1, <1>2, <1>3

(* Provisioning, a new pull, and a page lost on its way.                   *)
LEMMA RequestKeeps ==
    ASSUME Inv, Provision \/ Pull \/ Lose
    PROVE  Inv'
PROOF
<1>1. /\ at' = 1 /\ page' = NoPage /\ next' = cursor /\ remaining' = Limit
      /\ hasMore' = FALSE /\ UNCHANGED <<db, writes, row, cursor, seen, late, erased>>
      /\ pc' \in {"idle", "bootstrap", "pull"}
      /\ pc' = "bootstrap" => \A e \in Entities : cursor[e] = Start
      /\ since' \in {since, {}} /\ faults' \in {faults, faults + 1}
  BY DEF Provision, Pull, Lose, Request, pullHistory
<1>2. /\ TypeOK /\ WithinSeen /\ NothingBehind /\ CursorsMove /\ Unread /\ AbsentUnseen
  BY DEF Inv
<1>3. TypeOK'
  <2>1. DOMAIN NoPage = {} /\ 1 \in 1..(NumEntities + 1) /\ Limit \in 0..Limit
    BY DEF NoPage
  <2>2. since' \subseteq Docs /\ faults' \in Nat
    BY <1>1, <1>2 DEF TypeOK
  <2> QED
    BY <1>1, <1>2, <2>1, <2>2 DEF TypeOK
<1>4. NothingBehind'
  BY <1>1, <1>2 DEF NothingBehind, OutOfReach, View, Pos
<1>5. WithinSeen' /\ CursorsMove' /\ Unread'
  BY <1>1, <1>2 DEF WithinSeen, CursorsMove, Unread
<1>6. PageFollows' /\ PageHolds' /\ \A d \in Docs : Merge(d)' = row'[d]
  BY <1>1, <1>4, Rewound
<1>7. AbsentUnseen'
  BY <1>1, <1>2, <1>6 DEF AbsentUnseen, OutOfReach, View
<1> QED
  BY <1>3, <1>4, <1>5, <1>6, <1>7 DEF Inv

(* What a read of a snapshot and of a page selects: what is read lies      *)
(* ahead of the cursor, what is not is current on the device or comes      *)
(* later, or is out of reach.                                              *)
Selects(docs) ==
    /\ docs \subseteq Present /\ \A d \in docs : Before(next[at], Pos(d))
    /\ \A d \in Docs \ (docs \cup OutOfReach) :
          EntityOf[d] = at => \/ View(row[d]) = View(db[d])
                              \/ /\ Before(next[at], Pos(d))
                                 /\ \A x \in docs : Before(Pos(x), Pos(d))

Reads(docs) ==
    /\ at \in Entities /\ pc \in {"bootstrap", "pull"}
    /\ Collect(docs, LastOf(docs, next[at]))
    /\ remaining' \in 0..Limit /\ hasMore' \in BOOLEAN

(* After a read, what was there is seen, and what was seen before.         *)
LEMMA SeenGrows ==
    ASSUME Inv, at \in Entities
    PROVE  LET s == LastOf(After(seen[at]), seen[at]) IN
           /\ s \in Nat \X Nat
           /\ ~Before(s, seen[at])
           /\ \A d \in Present : ~Before(s, Pos(d))
PROOF
<1> DEFINE s == LastOf(After(seen[at]), seen[at])
<1>1. TypeOK /\ seen[at] \in Nat \X Nat
  BY Typed DEF Inv
<1>2. Present \subseteq Docs /\ After(seen[at]) \subseteq Docs
  BY DEF Present, After
<1>3. /\ s = seen[at] \/ \E d \in After(seen[at]) : s = Pos(d)
      /\ \A d \in After(seen[at]) : ~Before(s, Pos(d))
  BY <1>1, <1>2, LastOfIsLast
<1> HIDE DEF s
<1>4. s \in Nat \X Nat /\ (s = seen[at] \/ Before(seen[at], s))
  <2>1. \A d \in After(seen[at]) : Pos(d) \in Nat \X Nat /\ Before(seen[at], Pos(d))
    BY <1>1, <1>2, Positions DEF After
  <2> QED
    BY <1>1, <1>3, <2>1
<1>5. ~Before(s, seen[at])
  BY <1>1, <1>4, BeforeOrders
<1>6. ASSUME NEW d \in Present PROVE ~Before(s, Pos(d))
  <2>1. Pos(d) \in Nat \X Nat
    BY <1>1, <1>2, Positions
  <2>2. CASE d \in After(seen[at])
    BY <1>3, <2>2
  <2>3. CASE d \notin After(seen[at])
    <3>1. ~Before(seen[at], Pos(d))
      BY <2>3 DEF After
    <3> QED
      BY <1>1, <1>4, <2>1, <3>1, BeforeOrders
  <2> QED
    BY <2>2, <2>3
<1> QED
  BY <1>4, <1>5, <1>6 DEF s

(* A read of one collection, whatever selects its documents.               *)
LEMMA CollectKeeps ==
    ASSUME Inv, NEW docs \in SUBSET Docs, Reads(docs), Selects(docs)
    PROVE  Inv'
PROOF
<1> DEFINE c == LastOf(docs, next[at])
           s == LastOf(After(seen[at]), seen[at])
<1>1. /\ TypeOK /\ WithinSeen /\ NothingBehind /\ PageFollows /\ PageHolds
      /\ CursorsMove /\ Unread /\ AbsentUnseen
  BY DEF Inv
<1>2. /\ page' = [d \in DOMAIN page \cup docs |-> IF d \in docs THEN db[d] ELSE page[d]]
      /\ next' = [next EXCEPT ![at] = c] /\ at' = at + 1
      /\ seen' = [seen EXCEPT ![at] = s]
      /\ at \in Entities /\ pc \in {"bootstrap", "pull"}
  BY DEF Reads, Collect
<1>3. UNCHANGED <<db, writes, row, cursor, pc, faults, late, erased, since>>
  BY DEF Reads, Collect
<1>4. /\ \A e \in Entities : next'[e] = IF e = at THEN c ELSE next[e]
      /\ \A e \in Entities : seen'[e] = IF e = at THEN s ELSE seen[e]
      /\ next[at] = cursor[at]
  BY <1>1, <1>2, Typed DEF CursorsMove, TypeOK
<1>5. /\ c = next[at] \/ \E d \in docs : c = Pos(d)
      /\ \A d \in docs : ~Before(c, Pos(d))
      /\ docs = {} => c = next[at]
  BY <1>1, LastOfIsLast
<1>6. /\ s \in Nat \X Nat /\ ~Before(s, seen[at])
      /\ \A d \in Present : ~Before(s, Pos(d))
  BY <1>2, SeenGrows
<1> HIDE DEF c, s
<1>7. \A d \in docs : /\ EntityOf[d] = at /\ db[d].is # "none" /\ Before(next[at], Pos(d))
                      /\ ~Before(s, Pos(d))
  BY <1>6 DEF Selects, Present
<1>8. c \in Nat \X Nat /\ (c = next[at] \/ Before(next[at], c))
  <2>1. next[at] \in Nat \X Nat
    BY <1>1, <1>2, Typed
  <2>2. \A d \in docs : Pos(d) \in Nat \X Nat
    BY <1>1, Positions
  <2> QED
    BY <1>5, <1>7, <2>1, <2>2
<1>9. \A d \in DOMAIN page : d \in Docs /\ EntityOf[d] # at /\ EntityOf[d] < at
  <2>1. \A d \in DOMAIN page : d \in Docs /\ EntityOf[d] \in Entities
    BY <1>1, Typed
  <2>2. \A d \in DOMAIN page : EntityOf[d] < at
    BY <1>1 DEF PageHolds
  <2> QED
    BY <1>2, <2>1, <2>2
<1>10. /\ DOMAIN page' = DOMAIN page \cup docs
       /\ \A d \in docs : page'[d] = db[d] /\ db[d] \in Writes
       /\ \A d \in DOMAIN page : page'[d] = page[d] /\ d \notin docs
  <2>1. \A d \in docs : db[d] \in Writes
    BY <1>1, <1>7 DEF TypeOK, Absent
  <2> QED
    BY <1>2, <1>9, <1>7, <2>1
<1>11. TypeOK'
  <2>1. next' \in [Entities -> Nat \X Nat] /\ seen' \in [Entities -> Nat \X Nat]
    BY <1>1, <1>2, <1>6, <1>8 DEF TypeOK
  <2>2. DOMAIN page' \subseteq Docs /\ \A d \in DOMAIN page' : page'[d] \in Writes
    BY <1>1, <1>10 DEF TypeOK
  <2>3. at' \in 1..(NumEntities + 1)
    BY <1>2
  <2> QED
    BY <1>1, <1>3, <2>1, <2>2, <2>3 DEF Reads, TypeOK
<1>12. /\ OutOfReach' = OutOfReach
       /\ \A d \in Docs : /\ d \in docs => View(Merge(d)') = View(db[d])
                          /\ d \notin docs => Merge(d)' = Merge(d)
                          /\ d \notin docs /\ EntityOf[d] = at => Merge(d)' = row[d]
                          /\ Pos(d)' = Pos(d)
  BY <1>9, <1>10, <1>7, <1>3 DEF Merge, View, Pos, OutOfReach
<1>13. NothingBehind' /\ Unread'
  BY <1>1, <1>12, <1>3 DEF NothingBehind, Unread, View
<1>14. PageFollows'
  <2> SUFFICES ASSUME NEW d \in Docs \ OutOfReach
               PROVE  \/ View(Merge(d)') = View(db[d])
                      \/ Before(next'[EntityOf[d]], Pos(d))
    BY <1>12, <1>3 DEF PageFollows, View
  <2>1. CASE d \in docs
    BY <1>12, <2>1
  <2>2. CASE d \notin docs /\ EntityOf[d] = at
    BY <1>2, <1>4, <1>5, <1>12, <2>2 DEF Selects
  <2>3. CASE d \notin docs /\ EntityOf[d] # at
    BY <1>1, <1>4, <1>12, <2>3, Typed DEF PageFollows
  <2> QED
    BY <2>1, <2>2, <2>3
<1>15. PageHolds'
  <2>1. ASSUME NEW d \in docs
        PROVE  /\ EntityOf[d] < at' /\ page'[d].at = db[d].at
               /\ Before(cursor[EntityOf[d]], <<page'[d].at, d>>)
               /\ ~Before(next'[EntityOf[d]], <<page'[d].at, d>>)
    BY <1>2, <1>4, <1>5, <1>10, <1>7 DEF Pos
  <2>2. ASSUME NEW d \in DOMAIN page
        PROVE  /\ EntityOf[d] < at' /\ page'[d] = page[d]
               /\ next'[EntityOf[d]] = next[EntityOf[d]]
    <3>1. /\ EntityOf[d] \in Entities /\ EntityOf[d] # at /\ EntityOf[d] < at
          /\ page'[d] = page[d]
      BY <1>1, <1>9, <1>10, <2>2, Typed
    <3>2. EntityOf[d] < at'
      BY <1>2, <3>1
    <3>3. next'[EntityOf[d]] = next[EntityOf[d]]
      BY <1>4, <3>1
    <3> QED
      BY <3>1, <3>2, <3>3
  <2> QED
    BY <1>1, <1>10, <1>3, <2>1, <2>2 DEF PageHolds
<1>16. CursorsMove'
  BY <1>1, <1>2, <1>4, <1>8, <1>3 DEF CursorsMove
<1>17. WithinSeen'
  <2>1. next[at] \in Nat \X Nat /\ seen[at] \in Nat \X Nat /\ ~Before(seen[at], next[at])
    BY <1>1, <1>2, Typed DEF WithinSeen
  <2>2. ~Before(s, next[at])
    BY <1>6, <2>1, BeforeOrders
  <2>3. ~Before(s, c)
    BY <1>5, <1>7, <2>2
  <2> QED
    BY <1>1, <1>3, <1>4, <2>2, <2>3 DEF WithinSeen
<1>18. AbsentUnseen'
  BY <1>1, <1>7, <1>12, <1>3 DEF AbsentUnseen, View
<1> QED
  BY <1>11, <1>13, <1>14, <1>15, <1>16, <1>17, <1>18 DEF Inv

(* The bootstrap selects what is visible; the device has nothing yet.      *)
LEMMA SnapshotKeeps ==
    ASSUME Inv, Snapshot
    PROVE  Inv'
PROOF
<1>1. TypeOK /\ NothingBehind /\ CursorsMove /\ Unread
  BY DEF Inv
<1>2. /\ pc = "bootstrap" /\ at \in Entities
      /\ next[at] = Start /\ Collect(Visible, LastOf(Visible, Start))
      /\ UNCHANGED <<remaining, hasMore>>
  BY <1>1 DEF Snapshot, Reading, TypeOK, CursorsMove
<1>3. /\ Visible \in SUBSET Docs /\ Visible \subseteq Present
      /\ \A d \in Visible : Before(next[at], Pos(d))
  BY <1>1, <1>2, Positions DEF Visible, Present
<1>4. ASSUME NEW d \in Docs \ Visible, EntityOf[d] = at
      PROVE  View(row[d]) = View(db[d])
  <2>1. row[d] = Absent /\ db[d].is # "live"
    BY <1>1, <1>2, <1>4 DEF CursorsMove, Unread, Visible, Present
  <2> QED
    BY <2>1 DEF View, Absent
<1>5. remaining' \in 0..Limit /\ hasMore' \in BOOLEAN
  BY <1>1, <1>2 DEF TypeOK
<1> QED
  BY <1>2, <1>3, <1>4, <1>5, CollectKeeps DEF Reads, Selects

(* The page selects the first of what follows the cursor.                  *)
LEMMA ReadKeeps ==
    ASSUME Inv, Read
    PROVE  Inv'
PROOF
<1>1. TypeOK /\ NothingBehind /\ CursorsMove /\ AbsentUnseen
  BY DEF Inv
<1>2. /\ pc = "pull" /\ at \in Entities /\ next[at] = cursor[at]
      /\ Collect(Fits, LastOf(Fits, next[at]))
      /\ remaining' = remaining - Cardinality(Fits) /\ remaining \in 0..Limit
      /\ hasMore' = (hasMore \/ remaining = 0 \/ Fits # Rest)
  BY <1>1 DEF Read, ReadAs, Reading, TypeOK, CursorsMove
<1>3. /\ Rest \in SUBSET Docs /\ Fits \subseteq Rest /\ Cardinality(Fits) \in 0..remaining
      /\ \A x \in Fits, d \in Rest \ Fits : Before(Pos(x), Pos(d))
  <2>1. Rest \in SUBSET Docs /\ remaining \in Nat
    BY <1>2 DEF Rest, After, Present
  <2> QED
    BY <1>1, <2>1, FirstIsFirst DEF Fits
<1>4. Fits \subseteq Present /\ \A d \in Fits : Before(next[at], Pos(d))
  BY <1>3 DEF Rest, After
<1>5. ASSUME NEW d \in Docs \ (Fits \cup OutOfReach), EntityOf[d] = at
      PROVE  \/ View(row[d]) = View(db[d])
             \/ Before(next[at], Pos(d)) /\ \A x \in Fits : Before(Pos(x), Pos(d))
  <2>1. CASE d \in Rest
    BY <1>3, <1>5, <2>1 DEF Rest, After
  <2>2. CASE db[d].is = "none"
    BY <1>1, <2>2 DEF AbsentUnseen, View
  <2>3. CASE ~Before(next[at], Pos(d))
    BY <1>1, <1>2, <1>5, <2>3 DEF NothingBehind
  <2> QED
    BY <1>5, <2>1, <2>2, <2>3 DEF Rest, After, Present
<1>6. remaining' \in 0..Limit
  <2>1. remaining \in Nat /\ remaining <= Limit
    BY <1>2
  <2>2. Cardinality(Fits) \in Nat /\ Cardinality(Fits) <= remaining
    BY <1>3, <2>1
  <2> QED
    BY <1>2, <2>1, <2>2
<1>7. hasMore' \in BOOLEAN
  BY <1>1, <1>2, Zenon DEF TypeOK
<1> QED
  BY <1>2, <1>3, <1>4, <1>5, <1>6, <1>7, CollectKeeps DEF Reads, Selects

(* The answer arrives, or nothing happens.                                 *)
LEMMA RespondKeeps ==
    ASSUME Inv, Respond \/ UNCHANGED vars
    PROVE  Inv'
PROOF
<1>1. /\ pc' = pc \/ pc' \in {"apply", "seed"}
      /\ pc' = "seed" => pc \in {"bootstrap", "seed"}
      /\ UNCHANGED <<db, writes, row, cursor, pageVars, faults, pullHistory>>
  BY DEF Respond, vars
<1>2. TypeOK'
  BY <1>1 DEF Inv, TypeOK, pageVars, pullHistory
<1>3. WithinSeen' /\ PageHolds' /\ CursorsMove' /\ Unread'
  BY <1>1 DEF Inv, WithinSeen, PageHolds, CursorsMove, Unread, pageVars, pullHistory
<1>4. OutOfReach' = OutOfReach /\ \A d \in Docs : Merge(d)' = Merge(d) /\ Pos(d)' = Pos(d)
  BY <1>1 DEF Merge, Pos, OutOfReach, pageVars, pullHistory
<1>5. NothingBehind' /\ PageFollows' /\ AbsentUnseen'
  BY <1>1, <1>4 DEF Inv, NothingBehind, PageFollows, AbsentUnseen, View, pageVars
<1> QED
  BY <1>2, <1>3, <1>5 DEF Inv

(* A page is applied: the device takes over what held of the page.         *)
LEMMA ApplyKeeps ==
    ASSUME Inv, Seed \/ Apply
    PROVE  Inv'
PROOF
<1>1. /\ at' = 1 /\ page' = NoPage /\ next' = next /\ cursor' = next
      /\ remaining' = Limit /\ hasMore' = FALSE /\ pc' \in {"idle", "pull"}
      /\ row' = [d \in Docs |-> Merge(d)]
      /\ UNCHANGED <<db, writes, faults, seen, late, erased, since>>
  BY DEF Seed, Apply, Request
<1>2. /\ TypeOK /\ WithinSeen /\ PageFollows /\ PageHolds /\ CursorsMove
      /\ Unread /\ AbsentUnseen
  BY DEF Inv
<1>3. TypeOK'
  <2>1. \A d \in Docs : Merge(d) \in Writes \cup {Absent}
    BY <1>2 DEF TypeOK, Merge
  <2>2. DOMAIN NoPage = {} /\ 1 \in 1..(NumEntities + 1) /\ Limit \in 0..Limit
    BY DEF NoPage
  <2> QED
    BY <1>1, <1>2, <2>1, <2>2 DEF TypeOK
<1>4. NothingBehind'
  BY <1>1, <1>2 DEF NothingBehind, PageFollows, OutOfReach, View, Pos
<1>5. PageFollows' /\ PageHolds' /\ \A d \in Docs : Merge(d)' = row'[d]
  BY <1>1, <1>4, Rewound
<1>6. WithinSeen' /\ CursorsMove'
  BY <1>1, <1>2 DEF WithinSeen, CursorsMove
<1>7. AbsentUnseen'
  BY <1>1, <1>2, <1>5 DEF AbsentUnseen, OutOfReach, View
<1>8. Unread'
  <2> SUFFICES ASSUME NEW d \in Docs, next[EntityOf[d]] = Start
               PROVE  Merge(d) = Absent
    BY <1>1 DEF Unread
  <2>1. EntityOf[d] \in Entities /\ cursor[EntityOf[d]] \in Nat \X Nat
    BY <1>2, Typed
  <2>2. cursor[EntityOf[d]] = Start
    <3>1. ~Before(cursor[EntityOf[d]], Start)
      BY <2>1 DEF Before, Start
    <3> QED
      BY <1>2, <2>1, <3>1 DEF CursorsMove
  <2>3. d \notin DOMAIN page
    <3>1. ASSUME d \in DOMAIN page
          PROVE  Before(Start, <<page[d].at, d>>)
      <4>1. page[d].at \in Nat /\ d \in Nat /\ d > 0
        BY <1>2, <3>1, Typed
      <4> QED
        BY <4>1 DEF Before, Start
    <3> QED
      BY <1>2, <3>1 DEF PageHolds
  <2> QED
    BY <1>2, <2>2, <2>3 DEF Merge, Unread
<1> QED
  BY <1>3, <1>4, <1>5, <1>6, <1>7, <1>8 DEF Inv

(* Every step keeps the invariant.                                         *)
LEMMA NextKeeps ==
    ASSUME Inv, [Next]_vars
    PROVE  Inv'
PROOF
<1>1. CASE \E d \in Docs, is \in {"live", "gone"}, t \in Stamps : Write(d, is, t)
  BY <1>1, WriteKeeps
<1>2. CASE \E d \in Docs : Reap(d) \/ Undo(d)
  BY <1>2, VanishKeeps DEF Reap, Undo
<1>3. CASE Provision \/ Pull \/ Lose
  BY <1>3, RequestKeeps
<1>4. CASE Snapshot
  BY <1>4, SnapshotKeeps
<1>5. CASE Read
  BY <1>5, ReadKeeps
<1>6. CASE Respond \/ UNCHANGED vars
  BY <1>6, RespondKeeps
<1>7. CASE Seed \/ Apply
  BY <1>7, ApplyKeeps
<1> QED
  BY <1>1, <1>2, <1>3, <1>4, <1>5, <1>6, <1>7 DEF Next, Sync

(* The parts of the invariant hold together in every reachable state,      *)
(* whatever the clocks show and however late a write arrives.              *)
THEOREM InvHolds == Spec => []Inv
PROOF
<1>1. Inv /\ [Next]_vars => Inv'
  BY NextKeeps
<1> QED
  BY <1>1, InitOK, PTL DEF Spec

(* The page never outgrows its limit, and every variable keeps its type.   *)
THEOREM TypeCorrect == Spec => []TypeOK
PROOF
<1>1. Inv => TypeOK
  BY DEF Inv
<1> QED
  BY <1>1, InvHolds, PTL

(* The cursor of a collection passes a document that the device does not   *)
(* have as the database has it only when its write arrived at a position   *)
(* read past before, or when it was taken away without a tombstone: for    *)
(* pages of any size, any number of documents of one millisecond, clocks   *)
(* that differ or go back, writes between the reads of a page and lost     *)
(* pages.                                                                  *)
THEOREM NeverBehind == Spec => []NothingBehind
PROOF
<1>1. Inv => NothingBehind
  BY DEF Inv
<1> QED
  BY <1>1, InvHolds, PTL
-----------------------------------------------------------------------------
(* What a pull has brought so far: of the collections it has read to their *)
(* end, every document as it was when the pull began, or a later write.    *)
Pulling == pc \in {"pull", "apply"}

Brought ==
    Pulling /\ ~hasMore =>
        \A d \in Docs \ (OutOfReach \cup since) :
            EntityOf[d] < at => View(Merge(d)) = View(db[d])

AllRead == pc = "apply" => at > NumEntities

PullInv == Inv /\ Brought /\ AllRead

(* The device before its first pull.                                       *)
LEMMA PullInit == Init => Brought /\ AllRead
PROOF
  BY DEF Init, Brought, AllRead, Pulling

(* What is written while a pull is under way is since; what is taken away  *)
(* the device does not show, or it is out of reach.                        *)
LEMMA PullWrites ==
    ASSUME PullInv,
           \/ \E d \in Docs, is \in {"live", "gone"}, t \in Stamps : Write(d, is, t)
           \/ \E d \in Docs : Vanish(d)
    PROVE  Brought' /\ AllRead'
PROOF
<1>1. UNCHANGED <<row, cursor, pc, pageVars, faults>>
  BY DEF Write, Vanish
<1>2. /\ \A d \in Docs : Merge(d)' = Merge(d)
      /\ Pulling' = Pulling /\ at' = at /\ hasMore' = hasMore
  BY <1>1 DEF Merge, Pulling, pageVars
<1>3. TypeOK /\ Brought /\ AllRead
  BY DEF PullInv, Inv
<1>4. AllRead'
  BY <1>1, <1>3 DEF AllRead, pageVars
<1>5. ASSUME NEW d \in Docs, NEW is \in {"live", "gone"}, NEW t \in Stamps, Write(d, is, t)
      PROVE  Brought'
  <2>1. /\ since' = since \cup {d}
        /\ \A x \in Docs : x # d => db'[x] = db[x]
        /\ \A x \in Docs \ OutOfReach' : x # d => x \notin OutOfReach
    BY <1>3, <1>5 DEF Write, TypeOK, OutOfReach
  <2> QED
    BY <1>2, <1>3, <2>1 DEF Brought, View
<1>6. ASSUME NEW d \in Docs, Vanish(d)
      PROVE  Brought'
  <2>1. /\ since' = since /\ View(db'[d]) = <<>>
        /\ \A x \in Docs : x # d => db'[x] = db[x]
        /\ \A x \in Docs \ OutOfReach' : x \notin OutOfReach
        /\ d \notin OutOfReach' => View(Merge(d)) = <<>>
    BY <1>3, <1>6 DEF Vanish, TypeOK, OutOfReach, View, Absent
  <2>2. \A x \in Docs : View(Merge(x))' = View(Merge(x)) /\ View(db[x])' = View(db'[x])
    BY <1>2 DEF View
  <2>3. \A x \in Docs : x # d => View(db'[x]) = View(db[x])
    BY <2>1 DEF View
  <2> QED
    BY <1>2, <1>3, <2>1, <2>2, <2>3 DEF Brought
<1> QED
  BY <1>4, <1>5, <1>6

(* A read that leaves nothing for another page has the collection whole.   *)
LEMMA PullReads ==
    ASSUME PullInv, Read
    PROVE  Brought' /\ AllRead'
PROOF
<1>1. /\ TypeOK /\ NothingBehind /\ PageHolds /\ CursorsMove /\ AbsentUnseen
      /\ Brought /\ AllRead
  BY DEF PullInv, Inv
<1>2. /\ pc = "pull" /\ at \in Entities /\ next[at] = cursor[at]
      /\ page' = [d \in DOMAIN page \cup Fits |-> IF d \in Fits THEN db[d] ELSE page[d]]
      /\ at' = at + 1 /\ hasMore' = (hasMore \/ remaining = 0 \/ Fits # Rest)
      /\ UNCHANGED <<db, writes, row, cursor, pc, faults, late, erased, since>>
  BY <1>1 DEF Read, ReadAs, Reading, Collect, TypeOK, CursorsMove
<1>3. OutOfReach' = OutOfReach /\ \A d \in Docs : EntityOf[d] \in Nat
  BY <1>1, <1>2, Typed DEF OutOfReach
<1>4. AllRead'
  BY <1>1, <1>2 DEF AllRead
<1>5. ASSUME ~hasMore', NEW d \in Docs \ (OutOfReach \cup since), EntityOf[d] < at'
      PROVE  View(Merge(d)') = View(db[d])
  <2>1. ~hasMore /\ Fits = Rest
    BY <1>2, <1>5
  <2>2. CASE d \in Rest
    <3>1. page'[d] = db[d] /\ d \in DOMAIN page'
      BY <1>2, <2>1, <2>2
    <3> QED
      BY <1>2, <3>1 DEF Merge, View
  <2>3. CASE d \notin Rest /\ EntityOf[d] = at
    <3>1. d \notin DOMAIN page
      BY <1>1, <1>2, <2>3 DEF PageHolds
    <3>2. Merge(d)' = row[d]
      BY <1>2, <2>1, <2>3, <3>1 DEF Merge
    <3>3. CASE db[d].is = "none"
      BY <1>1, <1>5, <3>2, <3>3 DEF AbsentUnseen, View
    <3>4. CASE ~Before(next[at], Pos(d))
      BY <1>1, <1>2, <1>5, <2>3, <3>2, <3>4 DEF NothingBehind
    <3> QED
      BY <2>3, <3>3, <3>4 DEF Rest, After, Present
  <2>4. CASE d \notin Rest /\ EntityOf[d] # at
    <3>1. EntityOf[d] < at
      BY <1>2, <1>3, <1>5, <2>4
    <3>2. Merge(d)' = Merge(d)
      BY <1>2, <2>1, <2>4 DEF Merge
    <3> QED
      BY <1>1, <1>2, <1>5, <2>1, <3>1, <3>2 DEF Brought, Pulling
  <2> QED
    BY <2>2, <2>3, <2>4
<1>6. Brought'
  BY <1>2, <1>3, <1>5 DEF Brought, View
<1> QED
  BY <1>4, <1>6

(* A request starts over with nothing read; other steps are no pull's.     *)
LEMMA PullMoves ==
    ASSUME PullInv, Provision \/ Pull \/ Snapshot \/ Respond \/ Seed \/ Apply \/ Lose
                    \/ UNCHANGED vars
    PROVE  Brought' /\ AllRead'
PROOF
<1>1. /\ at \in Nat /\ Brought /\ AllRead
      /\ \A d \in Docs : EntityOf[d] \in Nat /\ EntityOf[d] >= 1
  BY Typed DEF PullInv, Inv, TypeOK
<1>2. CASE Provision \/ Pull \/ Seed \/ Apply \/ Lose
  <2>1. at' = 1 /\ pc' # "apply"
    BY <1>2 DEF Provision, Pull, Seed, Apply, Lose, Request
  <2>2. AllRead'
    BY <2>1 DEF AllRead
  <2>3. \A d \in Docs : ~(EntityOf[d] < at')
    BY <1>1, <2>1
  <2>4. Brought'
    BY <2>3, Zenon DEF Brought
  <2> QED
    BY <2>2, <2>4
<1>3. CASE Snapshot
  <2>1. pc' = "bootstrap"
    BY <1>3 DEF Snapshot, Reading, Collect
  <2> QED
    BY <2>1 DEF Brought, AllRead, Pulling
<1>4. CASE Respond \/ UNCHANGED vars
  <2>1. /\ pc' = pc \/ (at > NumEntities /\ pc' \in {"apply", "seed"})
        /\ pc' = "apply" => pc \in {"pull", "apply"}
        /\ pc' = "pull" => pc = "pull"
        /\ UNCHANGED <<db, writes, row, cursor, pageVars, faults, pullHistory>>
    BY <1>4 DEF Respond, vars
  <2>2. OutOfReach' = OutOfReach /\ \A d \in Docs : Merge(d)' = Merge(d)
    BY <2>1 DEF Merge, OutOfReach, pageVars, pullHistory
  <2>3. Pulling' => Pulling
    BY <2>1 DEF Pulling
  <2> QED
    BY <1>1, <2>1, <2>2, <2>3 DEF Brought, AllRead, View, pageVars, pullHistory
<1> QED
  BY <1>2, <1>3, <1>4

(* Every step keeps what holds of a pull.                                  *)
LEMMA PullKeeps ==
    ASSUME PullInv, [Next]_vars
    PROVE  PullInv'
PROOF
<1>1. Inv'
  BY NextKeeps DEF PullInv
<1>2. Brought' /\ AllRead'
  BY PullWrites, PullReads, PullMoves DEF Next, Sync, Reap, Undo
<1> QED
  BY <1>1, <1>2 DEF PullInv

(* A pull that ends without a fault has brought every document as it was   *)
(* when the pull began, or as it was written since, out of reach ones      *)
(* apart: over pages, and with writers at work between the reads of one.   *)
THEOREM CatchesUp == Spec => PullCatchesUp
PROOF
<1> DEFINE Caught == (pc = "apply" /\ pc' = "idle" /\ faults' = faults) =>
                        \A d \in Docs \ (OutOfReach \cup since) : View(row'[d]) = View(db[d])
<1>1. Init => PullInv
  BY InitOK, PullInit DEF PullInv
<1>2. PullInv /\ [Next]_vars => PullInv'
  BY PullKeeps
<1>3. ASSUME PullInv, [Next]_vars
      PROVE  [Caught]_vars
  <2> SUFFICES ASSUME pc = "apply", pc' = "idle", faults' = faults,
                      NEW d \in Docs \ (OutOfReach \cup since)
               PROVE  View(row'[d]) = View(db[d])
    OBVIOUS
  <2>1. faults \in Nat /\ at > NumEntities /\ EntityOf[d] \in Entities /\ at \in Nat
    BY <1>3 DEF PullInv, AllRead, Inv, TypeOK
  <2>2. Apply
    BY <1>3, <2>1 DEF Next, Sync, Write, Reap, Undo, Vanish, Provision, Pull, Snapshot,
                      Reading, Read, ReadAs, Collect, Respond, Seed, Lose, Request, vars
  <2>3. ~hasMore /\ row'[d] = Merge(d)
    BY <2>2 DEF Apply, Request
  <2>4. EntityOf[d] < at
    BY <2>1
  <2> QED
    BY <1>3, <2>3, <2>4 DEF PullInv, Brought, Pulling
<1> QED
  BY <1>1, <1>2, <1>3, PTL DEF Spec, PullCatchesUp

-----------------------------------------------------------------------------
(* The database on the device. *)
USE PagesAssumption, RoundsAssumption, ChangesAssumption

(* A fresh database, no task under way. *)
LEMMA StoreInitOK == StoreInit => StoreInv
<1> SUFFICES ASSUME StoreInit PROVE StoreInv
    OBVIOUS
<1>1. StoreTypeOK
  <2>1. work \in Contents
      BY DEF StoreInit, Contents
  <2>2. label \in [Tasks -> Labels]
      BY DEF StoreInit, Labels
  <2>3. /\ op \in [Tasks -> Ops \cup {NoOp}]
        /\ batch \in [Tasks -> 0..NumPages]
        /\ left \in [Tasks -> SUBSET Rows]
      BY DEF StoreInit
  <2> QED BY <2>1, <2>2, <2>3 DEF StoreInit, StoreTypeOK
<1>2. Exclusive /\ Fitting
    BY DEF StoreInit, Exclusive, Fitting, InTransaction, AboutChange, Autocommitted
<1>3. Paired
    BY DEF StoreInit, Paired, CaptureIsAtomic, Matched
<1> QED BY <1>1, <1>2, <1>3 DEF StoreInv

(* A statement keeps the database well-formed if its content is. *)
LEMMA ExecTyped ==
    ASSUME StoreTypeOK, NEW content \in Contents, Exec(content)
    PROVE  /\ disk' \in Contents /\ work' \in Contents
           /\ open' \in BOOLEAN /\ undone' \in BOOLEAN
BY DEF StoreTypeOK, Exec

(* What each statement writes is content of the database again. *)
LEMMA Written ==
    ASSUME StoreTypeOK
    PROVE  /\ \A c \in Changes, v \in {"mine", "server"} :
              [work EXCEPT !.row[c] = v] \in Contents
           /\ \A o \in Ops : [work EXCEPT !.queue = @ \cup {o},
                                 !.taken = @ \cup {o[1]}] \in Contents
           /\ \A p \in Pages, r \in Rows :
              [work EXCEPT !.landed = @ \cup {<<p, r>>}] \in Contents
           /\ \A p \in 0..NumPages : [work EXCEPT !.checkpoint = p] \in Contents
           /\ \A o \in Ops : /\ [work EXCEPT !.inbox = @ \cup {o}] \in Contents
                         /\ [work EXCEPT !.inbox = @ \ {o}] \in Contents
           /\ \A o \in Ops : /\ [work EXCEPT !.queue = @ \cup {o}] \in Contents
                         /\ [work EXCEPT !.queue = @ \ {o}] \in Contents
           /\ \A o \in Ops : [work EXCEPT !.queue = @ \ {o},
                                 !.done = @ \cup {o[1]}] \in Contents
           /\ \A c \in Changes : [work EXCEPT !.row[c] = "server",
                                     !.done = @ \cup {c}] \in Contents
<1>1. work \in Contents
    BY DEF StoreTypeOK
<1>2. \A o \in Ops : o[1] \in Changes
    BY DEF Ops
<1>3. \A c \in Changes, v \in {"mine", "server"} :
              [work EXCEPT !.row[c] = v] \in Contents
    BY <1>1, <1>2 DEF Contents
<1>4. \A o \in Ops : [work EXCEPT !.queue = @ \cup {o},
                                 !.taken = @ \cup {o[1]}] \in Contents
    BY <1>1, <1>2 DEF Contents
<1>5. \A p \in Pages, r \in Rows :
              [work EXCEPT !.landed = @ \cup {<<p, r>>}] \in Contents
    BY <1>1, <1>2 DEF Contents
<1>6. \A p \in 0..NumPages : [work EXCEPT !.checkpoint = p] \in Contents
    BY <1>1, <1>2 DEF Contents
<1>7. \A o \in Ops : /\ [work EXCEPT !.inbox = @ \cup {o}] \in Contents
                         /\ [work EXCEPT !.inbox = @ \ {o}] \in Contents
    BY <1>1, <1>2 DEF Contents
<1>8. \A o \in Ops : /\ [work EXCEPT !.queue = @ \cup {o}] \in Contents
                         /\ [work EXCEPT !.queue = @ \ {o}] \in Contents
    BY <1>1, <1>2 DEF Contents
<1>9. \A o \in Ops : [work EXCEPT !.queue = @ \ {o},
                                 !.done = @ \cup {o[1]}] \in Contents
    BY <1>1, <1>2 DEF Contents
<1>10. \A c \in Changes : [work EXCEPT !.row[c] = "server",
                                     !.done = @ \cup {c}] \in Contents
    BY <1>1, <1>2 DEF Contents
<1> QED BY <1>3, <1>4, <1>5, <1>6, <1>7, <1>8, <1>9, <1>10

(* A task that ends, or moves on to another statement, keeps its locals    *)
(* well-formed.                                                            *)
LEMMA Locals ==
    ASSUME StoreTypeOK, NEW t \in Tasks
    PROVE  /\ End(t) => /\ label' \in [Tasks -> Labels]
                        /\ op' \in [Tasks -> Ops \cup {NoOp}]
                        /\ batch' \in [Tasks -> 0..NumPages]
                        /\ left' \in [Tasks -> SUBSET Rows]
           /\ \A l \in Labels : Goto(t, l) => label' \in [Tasks -> Labels]
BY DEF StoreTypeOK, End, Goto, Labels

(* The types survive every step. *)
LEMMA StoreTyped == StoreInv /\ [StoreNext]_storeVars => StoreTypeOK'
<1> SUFFICES ASSUME StoreInv, [StoreNext]_storeVars PROVE StoreTypeOK'
    OBVIOUS
<1>1. StoreTypeOK /\ Fitting
    BY DEF StoreInv
<1>2. CASE UNCHANGED storeVars
    BY <1>1, <1>2 DEF storeVars, taskVars, StoreTypeOK
<1>3. CASE Reload
  <2>1. label' \in [Tasks -> Labels]
      BY <1>3 DEF Reload, Labels
  <2>2. /\ op' \in [Tasks -> Ops \cup {NoOp}]
        /\ batch' \in [Tasks -> 0..NumPages]
        /\ left' \in [Tasks -> SUBSET Rows]
      BY <1>3 DEF Reload
  <2> QED BY <1>1, <1>3, <2>1, <2>2 DEF Reload, StoreTypeOK
<1>4. ASSUME NEW t \in Tasks, NEW l \in Labels, NEW o \in Ops \cup {NoOp},
             NEW p \in 0..NumPages, StartTask(t, l, o, p)
      PROVE  StoreTypeOK'
  <2>1. label' \in [Tasks -> Labels]
      BY <1>1, <1>4, Locals DEF StartTask
  <2>2. left' \in [Tasks -> SUBSET Rows]
      BY <1>1, <1>4 DEF StartTask, StoreTypeOK
  <2>3. /\ op' \in [Tasks -> Ops \cup {NoOp}]
        /\ batch' \in [Tasks -> 0..NumPages]
      BY <1>1, <1>4 DEF StartTask, StoreTypeOK
  <2> QED BY <1>1, <1>4, <2>1, <2>2, <2>3 DEF StartTask, StoreTypeOK
<1>5. ASSUME NEW t \in Tasks, Starts(t)
      PROVE  StoreTypeOK'
  <2>1. \A c \in Changes : <<c, 0>> \in Ops
      BY DEF Ops
  <2>2. ASSUME NEW c \in Changes, Capture(t, c)
        PROVE  StoreTypeOK'
      BY <1>4, <2>1, <2>2 DEF Capture, Labels
  <2>3. CASE PullPage(t)
    <3>1. work.checkpoint + 1 \in 0..NumPages
        BY <1>1, <2>3 DEF PullPage, StoreTypeOK, Contents
    <3> QED BY <1>4, <2>3, <3>1 DEF PullPage, Labels
  <2>4. ASSUME NEW o \in Ops,
               Accepted(t, o) \/ Conflicted(t, o) \/ KeepMine(t, o) \/ KeepServer(t, o)
        PROVE  StoreTypeOK'
      BY <1>4, <2>4 DEF Accepted, Conflicted, KeepMine, KeepServer, Labels, Autocommitted
  <2> QED BY <1>5, <2>2, <2>3, <2>4 DEF Starts
<1>6. ASSUME NEW t \in Tasks, Step(t)
      PROVE  StoreTypeOK'
  <2>1. CASE Begin(t)
      BY <1>1, <2>1, Locals DEF Begin, StoreTypeOK, Labels, InTransaction, taskVars
  <2>2. CASE Refuse(t) \/ Rollback(t)
      BY <1>1, <2>2, Locals DEF Refuse, Rollback, StoreTypeOK
  <2>3. CASE Throw(t)
      BY <1>1, <2>3, Locals DEF Throw, StoreTypeOK, Labels, InTransaction, taskVars
  <2>4. CASE WriteRow(t)
    <3>1. op[t][1] \in Changes
        BY <1>1, <2>4 DEF WriteRow, Fitting, AboutChange, Ops
    <3>2. [work EXCEPT !.row[op[t][1]] = "mine"] \in Contents
        BY <1>1, <3>1, Written
    <3> QED BY <1>1, <2>4, <3>2, ExecTyped, Locals DEF WriteRow, StoreTypeOK, Labels,
               InTransaction, taskVars
  <2>5. CASE Enqueue(t)
    <3>1. op[t] \in Ops
        BY <1>1, <2>5 DEF Enqueue, Fitting, AboutChange
    <3>2. [work EXCEPT !.queue = @ \cup {op[t]},
                       !.taken = @ \cup {op[t][1]}] \in Contents
        BY <1>1, <3>1, Written
    <3> QED BY <1>1, <2>5, <3>2, ExecTyped, Locals DEF Enqueue, StoreTypeOK, Labels,
               InTransaction, taskVars
  <2>6. CASE Follow(t)
      BY <1>1, <2>6, Locals DEF Follow, StoreTypeOK, Labels, InTransaction, taskVars
  <2>7. CASE WritePage(t)
    <3>1. PICK r \in left[t] :
             /\ Exec([work EXCEPT !.landed = @ \cup {<<batch[t], r>>}])
             /\ left' = [left EXCEPT ![t] = @ \ {r}]
        BY <2>7 DEF WritePage
    <3>2. batch[t] \in Pages /\ r \in Rows
        BY <1>1, <2>7 DEF WritePage, Fitting, Pages, StoreTypeOK
    <3>3. [work EXCEPT !.landed = @ \cup {<<batch[t], r>>}] \in Contents
        BY <1>1, <3>2, Written
    <3>4. left' \in [Tasks -> SUBSET Rows]
        BY <1>1, <3>1 DEF StoreTypeOK
    <3> QED BY <1>1, <2>7, <3>1, <3>3, <3>4, ExecTyped DEF WritePage, StoreTypeOK
  <2>8. CASE SetCheckpoint(t)
    <3>1. [work EXCEPT !.checkpoint = batch[t]] \in Contents
        BY <1>1, Written DEF StoreTypeOK
    <3> QED BY <1>1, <2>8, <3>1, ExecTyped, Locals DEF SetCheckpoint, StoreTypeOK, Labels,
               InTransaction, taskVars
  <2>9. CASE Record(t) \/ Remove(t) \/ Settle(t) \/ Mark(t)
    <3>1. op[t] \in Ops
        BY <1>1, <2>9 DEF Record, Remove, Settle, Mark, Fitting, AboutChange, Autocommitted
    <3>2. \E content \in Contents : Exec(content)
        BY <1>1, <2>9, <3>1, Written DEF Record, Remove, Settle, Mark
    <3>3. End(t) \/ (Goto(t, "remove") /\ UNCHANGED taskVars)
        BY <2>9 DEF Record, Remove, Settle, Mark
    <3> QED BY <1>1, <3>2, <3>3, ExecTyped, Locals DEF StoreTypeOK, Labels, Autocommitted,
               taskVars
  <2>10. CASE QueueAgain(t) \/ Rewrite(t)
    <3>1. op[t] \in Ops
        BY <1>1, <2>10 DEF QueueAgain, Rewrite, Fitting, AboutChange, Autocommitted
    <3>2. label[t] = "again" => <<op[t][1], op[t][2] + 1>> \in Ops
        BY <1>1, <3>1 DEF Fitting, Ops
    <3>3. op[t][1] \in Changes
        BY <3>1 DEF Ops
    <3>4. \E content \in Contents : Exec(content)
        BY <1>1, <2>10, <3>2, <3>3, Written DEF QueueAgain, Rewrite
    <3>5. Goto(t, "mark") /\ UNCHANGED taskVars
        BY <2>10 DEF QueueAgain, Rewrite
    <3> QED BY <1>1, <3>4, <3>5, ExecTyped, Locals DEF StoreTypeOK, Labels, Autocommitted,
               taskVars
  <2>11. CASE CommitTransaction(t)
    <3>1. CASE batch[t] \in 1..(NumPages - 1)
      <4>1. batch[t] + 1 \in 0..NumPages
          BY <3>1
      <4>2. label' \in [Tasks -> Labels]
          BY <1>1, <2>11, <3>1, Locals DEF CommitTransaction, Proceed, Labels
      <4>3. batch' \in [Tasks -> 0..NumPages] /\ left' \in [Tasks -> SUBSET Rows]
          BY <1>1, <2>11, <3>1, <4>1 DEF CommitTransaction, Proceed, StoreTypeOK
      <4>4. op' \in [Tasks -> Ops \cup {NoOp}]
          BY <1>1, <2>11, <3>1 DEF CommitTransaction, Proceed, StoreTypeOK
      <4> QED BY <1>1, <2>11, <4>2, <4>3, <4>4 DEF CommitTransaction, StoreTypeOK
    <3>2. CASE batch[t] \notin 1..(NumPages - 1)
        BY <1>1, <2>11, <3>2, Locals DEF CommitTransaction, Proceed, StoreTypeOK
    <3> QED BY <3>1, <3>2
  <2> QED BY <1>6, <2>1, <2>2, <2>3, <2>4, <2>5, <2>6, <2>7, <2>8, <2>9, <2>10,
             <2>11 DEF Step
<1> QED BY <1>2, <1>3, <1>5, <1>6 DEF StoreNext

-----------------------------------------------------------------------------
(* A step that neither opens nor closes the transaction and moves one task *)
(* neither in nor out keeps the transaction exclusive.                     *)
LEMMA Moves ==
    ASSUME StoreTypeOK, Exclusive, NEW t \in Tasks, NEW l \in Labels,
           Goto(t, l), open' = open, ~open => work' = disk',
           l \in InTransaction <=> label[t] \in InTransaction
    PROVE  Exclusive'
<1>1. \A u \in Tasks : label'[u] \in InTransaction <=> label[u] \in InTransaction
    BY DEF StoreTypeOK, Goto
<1> QED BY <1>1 DEF Exclusive

(* One task at most has the transaction, after every step too. *)
LEMMA ExclusiveNext == StoreInv /\ [StoreNext]_storeVars => Exclusive'
<1> SUFFICES ASSUME StoreInv, [StoreNext]_storeVars PROVE Exclusive'
    OBVIOUS
<1>1. StoreTypeOK /\ Exclusive /\ Fitting
    BY DEF StoreInv
<1> DEFINE Same == open' = open /\ (~open => work' = disk')
<1>2. CASE UNCHANGED storeVars
    BY <1>1, <1>2 DEF storeVars, Exclusive
<1>3. CASE Reload
    BY <1>3 DEF Reload, Exclusive, InTransaction
<1>4. UNCHANGED <<disk, work, open>> => Same
    BY <1>1 DEF Exclusive
<1>5. ASSUME NEW content, Exec(content) PROVE Same
    BY <1>5 DEF Exec
<1>6. ASSUME NEW t \in Tasks, Starts(t) PROVE Exclusive'
  <2>1. PICK l \in {"begin", "settle", "record", "again", "rewrite"} :
           Goto(t, l) /\ UNCHANGED <<disk, work, open>>
      BY <1>6 DEF Starts, Capture, PullPage, Accepted, Conflicted, KeepMine,
                  KeepServer, StartTask
  <2>2. l \in Labels /\ l \notin InTransaction
      BY DEF Labels, Autocommitted, InTransaction
  <2>3. label[t] \notin InTransaction
      BY <1>6 DEF Starts, Capture, PullPage, Accepted, Conflicted, KeepMine,
                  KeepServer, StartTask, InTransaction
  <2> QED BY <1>1, <1>4, <2>1, <2>2, <2>3, Moves
<1>7. ASSUME NEW t \in Tasks, Step(t) PROVE Exclusive'
  <2>1. CASE Begin(t)
    <3>1. \A u \in Tasks : label[u] \notin InTransaction
        BY <1>1, <2>1 DEF Begin, Exclusive
    <3>2. \A u \in Tasks \ {t} : label'[u] = label[u]
        BY <1>1, <2>1 DEF Begin, Goto, StoreTypeOK
    <3>3. open' /\ label'[t] \in InTransaction
        BY <1>1, <2>1 DEF Begin, Goto, StoreTypeOK, InTransaction
    <3> QED BY <3>1, <3>2, <3>3 DEF Exclusive
  <2>2. CASE CommitTransaction(t) \/ Rollback(t)
    <3>1. label[t] \in InTransaction
        BY <2>2 DEF CommitTransaction, Rollback, InTransaction
    <3>2. \A u \in Tasks : label'[u] \notin InTransaction
        BY <1>1, <2>2, <3>1
        DEF CommitTransaction, Proceed, Rollback, End, Goto, StoreTypeOK, Exclusive,
        InTransaction
    <3>3. work' = disk'
        BY <2>2 DEF CommitTransaction, Rollback
    <3>4. ~open'
        BY <2>2 DEF CommitTransaction, Rollback
    <3> QED BY <3>2, <3>3, <3>4 DEF Exclusive
  <2>3. CASE Throw(t)
    <3>1. CASE label[t] \in InTransaction
        BY <1>1, <1>4, <2>3, <3>1, Moves DEF Throw, Labels, InTransaction
    <3>2. CASE label[t] \notin InTransaction
        BY <1>1, <1>4, <2>3, <3>2, Moves DEF Throw, End, Labels, InTransaction
    <3> QED BY <3>1, <3>2
  <2>4. CASE Refuse(t) \/ Record(t) \/ Remove(t) \/ Settle(t)
             \/ QueueAgain(t) \/ Rewrite(t) \/ Mark(t)
    <3>1. Same
        BY <1>4, <1>5, <2>4
        DEF Refuse, Record, Remove, Settle, QueueAgain, Rewrite, Mark
    <3>2. PICK l \in {"idle", "remove", "mark"} : Goto(t, l)
        BY <2>4 DEF Refuse, Record, Remove, Settle, QueueAgain, Rewrite, Mark, End
    <3>3. label[t] \notin InTransaction
        BY <2>4 DEF Refuse, Record, Remove, Settle, QueueAgain, Rewrite, Mark,
                    InTransaction
    <3> QED BY <1>1, <3>1, <3>2, <3>3, Moves
            DEF Labels, Autocommitted, InTransaction
  <2>5. CASE WriteRow(t) \/ Enqueue(t) \/ Follow(t) \/ SetCheckpoint(t)
    <3>1. Same
        BY <1>4, <1>5, <2>5 DEF WriteRow, Enqueue, Follow, SetCheckpoint
    <3>2. PICK l \in {"enqueue", "follow", "commit"} : Goto(t, l)
        BY <2>5 DEF WriteRow, Enqueue, Follow, SetCheckpoint
    <3>3. label[t] \in InTransaction
        BY <2>5 DEF WriteRow, Enqueue, Follow, SetCheckpoint, InTransaction
    <3> QED BY <1>1, <3>1, <3>2, <3>3, Moves DEF Labels, InTransaction
  <2>6. CASE WritePage(t)
    <3>1. Same
        BY <1>5, <2>6 DEF WritePage
    <3> QED BY <1>1, <2>6, <3>1 DEF WritePage, Exclusive
  <2> QED BY <1>7, <2>1, <2>2, <2>3, <2>4, <2>5, <2>6 DEF Step
<1> QED BY <1>2, <1>3, <1>6, <1>7 DEF StoreNext

(* Locals fit a task that does not move, and one that starts, ends or is   *)
(* at a label that needs none.                                             *)
LEMMA FittingNext == StoreInv /\ [StoreNext]_storeVars => Fitting'
<1> SUFFICES ASSUME StoreInv, [StoreNext]_storeVars PROVE Fitting'
    OBVIOUS
<1>1. StoreTypeOK /\ Fitting
    BY DEF StoreInv
<1> DEFINE Suits(u) ==
      /\ label[u] \in AboutChange => op[u] \in Ops
      /\ label[u] = "begin" /\ batch[u] = 0 => op[u] \in Ops
      /\ label[u] = "page" => batch[u] > 0
      /\ label[u] \in {"row", "enqueue", "follow"} => batch[u] = 0
      /\ label[u] = "again" => op[u][2] < MaxRounds
<1>2. (\A u \in Tasks : Suits(u)') => Fitting'
    BY DEF Fitting
<1>3. \A u \in Tasks : Suits(u)
    BY <1>1 DEF Fitting
<1>4. CASE UNCHANGED storeVars
    BY <1>1, <1>4 DEF storeVars, taskVars, Fitting
<1>5. CASE Reload
    BY <1>5 DEF Reload, Fitting, AboutChange, Autocommitted
<1>6. ASSUME NEW t \in Tasks, Starts(t) PROVE Fitting'
  <2>1. \A u \in Tasks \ {t} : label'[u] = label[u] /\ op'[u] = op[u] /\ batch'[u] = batch[u]
      BY <1>1, <1>6 DEF Starts, Capture, PullPage, Accepted, Conflicted, KeepMine,
                        KeepServer, StartTask, Goto, StoreTypeOK
  <2>2. ASSUME NEW c \in Changes, Capture(t, c) PROVE Suits(t)'
    <3>1. <<c, 0>> \in Ops
        BY DEF Ops
    <3>2. label'[t] = "begin" /\ op'[t] = <<c, 0>>
        BY <1>1, <2>2 DEF Capture, StartTask, Goto, StoreTypeOK
    <3> QED BY <3>1, <3>2 DEF AboutChange, Autocommitted
  <2>3. ASSUME PullPage(t) PROVE Suits(t)'
    <3>1. label'[t] = "begin" /\ batch'[t] = work.checkpoint + 1
        BY <1>1, <2>3 DEF PullPage, StartTask, Goto, StoreTypeOK
    <3>2. batch'[t] # 0
        BY <1>1, <3>1 DEF StoreTypeOK, Contents
    <3> QED BY <3>1, <3>2 DEF AboutChange, Autocommitted
  <2>4. ASSUME NEW o \in Ops,
               Accepted(t, o) \/ Conflicted(t, o) \/ KeepMine(t, o) \/ KeepServer(t, o)
        PROVE  Suits(t)'
    <3>1. op'[t] = o /\ label'[t] \in {"settle", "record", "again", "rewrite"}
        BY <1>1, <2>4 DEF Accepted, Conflicted, KeepMine, KeepServer, StartTask, Goto,
           StoreTypeOK
    <3>2. label'[t] = "again" => o[2] < MaxRounds
        BY <1>1, <2>4 DEF Accepted, Conflicted, KeepMine, KeepServer, StartTask, Goto,
           StoreTypeOK
    <3> QED BY <3>1, <3>2
  <2>5. Suits(t)'
      BY <1>6, <2>2, <2>3, <2>4 DEF Starts
  <2> QED BY <1>2, <1>3, <2>1, <2>5
<1>7. ASSUME NEW t \in Tasks, Step(t) PROVE Fitting'
  <2>1. \A u \in Tasks \ {t} : label'[u] = label[u] /\ op'[u] = op[u] /\ batch'[u] = batch[u]
      BY <1>1, <1>7 DEF Step, Begin, Refuse, CommitTransaction, Proceed, Rollback, Throw,
         WriteRow,
           Enqueue, Follow, WritePage, SetCheckpoint, Record, Remove, Settle,
           QueueAgain, Rewrite, Mark, End, Goto, StoreTypeOK, taskVars
  <2>2. CASE Begin(t)
    <3>1. label[t] = "begin" /\ op'[t] = op[t] /\ batch'[t] = batch[t]
        BY <2>2 DEF Begin, taskVars
    <3>2. label'[t] = IF batch[t] = 0 THEN "row" ELSE "page"
        BY <1>1, <2>2 DEF Begin, Goto, StoreTypeOK
    <3>3. batch[t] = 0 \/ batch[t] > 0
        BY <1>1 DEF StoreTypeOK
    <3>4. Suits(t)
        BY <1>3
    <3>5. batch[t] = 0 => Suits(t)'
        BY <3>1, <3>2, <3>4 DEF AboutChange
    <3>6. batch[t] > 0 => Suits(t)'
        BY <3>1, <3>2 DEF AboutChange, Autocommitted
    <3> QED BY <1>2, <1>3, <2>1, <3>3, <3>5, <3>6
  <2>3. CASE label'[t] \in {"idle", "rollback", "commit"}
    <3>1. Suits(t)'
        BY <2>3 DEF AboutChange, Autocommitted
    <3> QED BY <1>2, <1>3, <2>1, <3>1
  <2>4. CASE WriteRow(t) \/ Record(t) \/ QueueAgain(t) \/ Rewrite(t)
    <3>1. /\ op'[t] = op[t] /\ batch'[t] = batch[t]
          /\ label'[t] \in {"enqueue", "remove", "mark"}
          /\ label'[t] = "enqueue" => label[t] = "row"
        BY <1>1, <2>4 DEF WriteRow, Record, QueueAgain, Rewrite, Goto, StoreTypeOK, taskVars
    <3>2. label[t] \in AboutChange
        BY <2>4 DEF WriteRow, Record, QueueAgain, Rewrite, AboutChange, Autocommitted
    <3>3. Suits(t)'
        BY <1>3, <3>1, <3>2
    <3> QED BY <1>2, <1>3, <2>1, <3>3
  <2>5. CASE WritePage(t)
      BY <1>1, <2>5 DEF WritePage, Fitting
  <2>6. CASE Refuse(t) \/ Rollback(t) \/ Remove(t) \/ Settle(t) \/ Mark(t)
    <3>1. label'[t] = "idle"
        BY <1>1, <2>6 DEF Refuse, Rollback, Remove, Settle, Mark, End, Goto, StoreTypeOK
    <3> QED BY <2>3, <3>1
  <2>7. CASE Throw(t)
    <3>1. label'[t] \in {"idle", "rollback"}
        BY <1>1, <2>7 DEF Throw, End, Goto, StoreTypeOK
    <3> QED BY <2>3, <3>1
  <2>8. CASE Follow(t) \/ SetCheckpoint(t)
    <3>1. label'[t] = "commit"
        BY <1>1, <2>8 DEF Follow, SetCheckpoint, Goto, StoreTypeOK
    <3> QED BY <2>3, <3>1
  <2>9. CASE CommitTransaction(t)
    <3>1. CASE batch[t] \in 1..(NumPages - 1)
      <4>1. label'[t] = "begin" /\ batch'[t] # 0
          BY <1>1, <2>9, <3>1 DEF CommitTransaction, Proceed, Goto, StoreTypeOK
      <4>2. Suits(t)'
          BY <4>1 DEF AboutChange, Autocommitted
      <4> QED BY <1>2, <1>3, <2>1, <4>2
    <3>2. CASE batch[t] \notin 1..(NumPages - 1)
      <4>1. label'[t] = "idle"
          BY <1>1, <2>9, <3>2 DEF CommitTransaction, Proceed, End, Goto, StoreTypeOK
      <4> QED BY <2>3, <4>1
    <3> QED BY <3>1, <3>2
  <2>10. CASE Enqueue(t)
    <3>1. label[t] = "enqueue" /\ label'[t] = "follow" /\ batch'[t] = batch[t]
        BY <1>1, <2>10 DEF Enqueue, Goto, StoreTypeOK, taskVars
    <3>2. Suits(t)'
        BY <1>3, <3>1 DEF AboutChange, Autocommitted
    <3> QED BY <1>2, <1>3, <2>1, <3>2
  <2> QED BY <1>7, <2>2, <2>4, <2>5, <2>6, <2>7, <2>8, <2>9, <2>10 DEF Step
<1> QED BY <1>4, <1>5, <1>6, <1>7 DEF StoreNext

-----------------------------------------------------------------------------
(* What a statement that leaves rows and taken alone, or rewrites a row to *)
(* the server's version, does to the pairing: nothing.                     *)
LEMMA PairedKept ==
    ASSUME StoreInv, NEW t \in Tasks, Step(t),
           label[t] \notin {"row", "enqueue", "commit", "rollback"},
           NEW content \in Contents, Exec(content),
           \A c \in Changes : Matched(work, c) => Matched(content, c),
           \A c \in Changes : work.row[c] # "old" => content.row[c] # "old"
    PROVE  Paired'
<1>1. StoreTypeOK /\ Exclusive /\ Paired
    BY DEF StoreInv
<1>2. \A u \in Tasks \ {t} : label'[u] = label[u] /\ op'[u] = op[u]
    BY <1>1 DEF Step, Begin, Refuse, CommitTransaction, Rollback, Throw, WriteRow,
         Enqueue, Follow, WritePage, SetCheckpoint, Record, Remove, Settle,
         QueueAgain, Rewrite, Mark, End, Goto, StoreTypeOK, taskVars
<1>3. label[t] # "enqueue" /\ label[t] # "rollback"
    OBVIOUS
<1>4. label'[t] # "enqueue"
    BY <1>1 DEF Step, Begin, Refuse, CommitTransaction, Rollback, Throw, WriteRow,
         Enqueue, Follow, WritePage, SetCheckpoint, Record, Remove, Settle,
         QueueAgain, Rewrite, Mark, End, Goto, StoreTypeOK
<1>5. work' = content /\ disk' = IF open THEN disk ELSE content
    BY DEF Exec
<1>6. ~open => \A c \in Changes : Matched(work, c)
    BY <1>1 DEF Exclusive, Paired, CaptureIsAtomic
<1>7. CaptureIsAtomic'
    BY <1>1, <1>5, <1>6 DEF CaptureIsAtomic, Paired, Matched
<1>8. ASSUME NEW c \in Changes
      PROVE  \/ Matched(work', c)
             \/ \E u \in Tasks : label'[u] \in {"enqueue", "rollback"} /\ op'[u][1] = c
  <2>1. CASE Matched(work, c)
      BY <1>5, <2>1
  <2>2. CASE ~Matched(work, c)
    <3>1. PICK u \in Tasks : label[u] \in {"enqueue", "rollback"} /\ op[u][1] = c
        BY <1>1, <2>2 DEF Paired
    <3>2. u # t
        BY <1>3, <3>1
    <3> QED BY <1>2, <3>1, <3>2
  <2> QED BY <2>1, <2>2
<1>9. \A u \in Tasks : label'[u] = "enqueue" => work'.row[op'[u][1]] # "old"
  <2> SUFFICES ASSUME NEW u \in Tasks, label'[u] = "enqueue"
               PROVE  work'.row[op'[u][1]] # "old"
      OBVIOUS
  <2>1. u # t /\ label[u] = "enqueue" /\ op'[u] = op[u]
      BY <1>2, <1>4
  <2>2. op[u][1] \in Changes
      BY <2>1 DEF StoreInv, Fitting, AboutChange, Ops
  <2> QED BY <1>1, <1>5, <2>1, <2>2 DEF Paired
<1> QED BY <1>7, <1>8, <1>9 DEF Paired, Matched

(* The same of a step that executes no statement and ends at a label which *)
(* is not about the pairing, unless it is the rollback of the capture.     *)
LEMMA PairedIdle ==
    ASSUME StoreInv, NEW t \in Tasks,
           UNCHANGED <<disk, work>>,
           \A u \in Tasks \ {t} : label'[u] = label[u] /\ op'[u] = op[u],
           label'[t] # "enqueue",
           \/ label[t] \notin {"enqueue", "rollback"}
           \/ label'[t] = "rollback" /\ op'[t] = op[t]
    PROVE  Paired'
<1>1. Paired
    BY DEF StoreInv
<1>2. ASSUME NEW c \in Changes
      PROVE  \/ Matched(work', c)
             \/ \E u \in Tasks : label'[u] \in {"enqueue", "rollback"} /\ op'[u][1] = c
  <2>1. CASE Matched(work, c)
      BY <2>1
  <2>2. CASE ~Matched(work, c)
    <3>1. PICK u \in Tasks : label[u] \in {"enqueue", "rollback"} /\ op[u][1] = c
        BY <1>1, <2>2 DEF Paired
    <3>2. label'[u] \in {"enqueue", "rollback"} /\ op'[u] = op[u]
        BY <3>1
    <3> QED BY <3>1, <3>2
  <2> QED BY <2>1, <2>2
<1>3. \A u \in Tasks : label'[u] = "enqueue" => work'.row[op'[u][1]] # "old"
    BY <1>1 DEF Paired
<1> QED BY <1>1, <1>2, <1>3 DEF Paired, CaptureIsAtomic, Matched

(* No step shows a change without its op, or queues one without its row,   *)
(* in what is committed.                                                   *)
LEMMA PairedNext == StoreInv /\ [StoreNext]_storeVars => Paired'
<1> SUFFICES ASSUME StoreInv, [StoreNext]_storeVars PROVE Paired'
    OBVIOUS
<1>1. StoreTypeOK /\ Exclusive /\ Fitting /\ Paired
    BY DEF StoreInv
<1>2. CASE UNCHANGED storeVars
    BY <1>1, <1>2 DEF storeVars, taskVars, Paired, CaptureIsAtomic, Matched
<1>3. CASE Reload
    BY <1>1, <1>3 DEF Reload, Paired, CaptureIsAtomic, Matched
<1>4. ASSUME NEW t \in Tasks, Starts(t) PROVE Paired'
  <2>1. PICK l \in {"begin", "settle", "record", "again", "rewrite"} :
           /\ label[t] = "idle" /\ Goto(t, l)
           /\ \A u \in Tasks \ {t} : op'[u] = op[u]
           /\ UNCHANGED <<disk, work>>
      BY <1>1, <1>4 DEF Starts, Capture, PullPage, Accepted, Conflicted, KeepMine,
                        KeepServer, StartTask, StoreTypeOK
  <2>2. label'[t] = l /\ \A u \in Tasks \ {t} : label'[u] = label[u]
      BY <1>1, <2>1 DEF Goto, StoreTypeOK
  <2> QED BY <2>1, <2>2, PairedIdle
<1>5. ASSUME NEW t \in Tasks, Step(t) PROVE Paired'
  <2>1. \A u \in Tasks \ {t} : label'[u] = label[u] /\ op'[u] = op[u]
      BY <1>1, <1>5 DEF Step, Begin, Refuse, CommitTransaction, Proceed, Rollback, Throw,
         WriteRow,
           Enqueue, Follow, WritePage, SetCheckpoint, Record, Remove, Settle,
           QueueAgain, Rewrite, Mark, End, Goto, StoreTypeOK, taskVars
  <2>2. CASE Begin(t) \/ Refuse(t) \/ Follow(t)
    <3>1. /\ label[t] \notin {"enqueue", "rollback"} /\ label'[t] # "enqueue"
          /\ UNCHANGED <<disk, work>>
        BY <1>1, <2>2 DEF Begin, Refuse, Follow, End, Goto, StoreTypeOK
    <3> QED BY <2>1, <3>1, PairedIdle
  <2>3. CASE Throw(t)
    <3>1. /\ UNCHANGED <<disk, work>> /\ label'[t] # "enqueue"
          /\ label[t] # "rollback"
        BY <1>1, <2>3 DEF Throw, End, Goto, StoreTypeOK
    <3>2. label[t] = "enqueue" => label'[t] = "rollback" /\ op'[t] = op[t]
        BY <1>1, <2>3 DEF Throw, Goto, StoreTypeOK, InTransaction, taskVars
    <3> QED BY <2>1, <3>1, <3>2, PairedIdle
  <2>4. CASE CommitTransaction(t)
    <3>1. \A c \in Changes : Matched(work, c)
        BY <1>1, <2>4 DEF CommitTransaction, Exclusive, Paired, InTransaction
    <3>2. \A u \in Tasks : label'[u] # "enqueue"
        BY <1>1, <2>4 DEF CommitTransaction, Proceed, End, Goto, StoreTypeOK, Exclusive,
           InTransaction
    <3> QED BY <2>4, <3>1, <3>2 DEF CommitTransaction, Paired, CaptureIsAtomic, Matched
  <2>5. CASE Rollback(t)
    <3>1. \A u \in Tasks : label'[u] # "enqueue"
        BY <1>1, <2>5 DEF Rollback, End, Goto, StoreTypeOK, Exclusive, InTransaction
    <3> QED BY <1>1, <2>5, <3>1 DEF Rollback, Paired, CaptureIsAtomic, Matched
  <2>6. CASE WriteRow(t)
    <3> DEFINE d == op[t][1]
    <3>1. open /\ d \in Changes
        BY <1>1, <2>6 DEF WriteRow, Exclusive, InTransaction, Fitting, AboutChange, Ops
    <3>2. \A c \in Changes : Matched(work, c)
        BY <1>1, <2>6 DEF WriteRow, Exclusive, Paired, InTransaction
    <3>3. /\ disk' = disk /\ work'.taken = work.taken
          /\ work'.row = [work.row EXCEPT ![d] = "mine"]
        BY <1>1, <2>6, <3>1 DEF WriteRow, Exec, StoreTypeOK, Contents
    <3>4. \A c \in Changes \ {d} : Matched(work', c)
        BY <1>1, <3>1, <3>2, <3>3 DEF Matched, StoreTypeOK, Contents
    <3>5. label'[t] = "enqueue" /\ op'[t] = op[t]
        BY <1>1, <2>6 DEF WriteRow, Goto, StoreTypeOK, taskVars
    <3>6. \A u \in Tasks : label'[u] = "enqueue" => u = t
        BY <1>1, <2>1, <2>6 DEF WriteRow, Exclusive, InTransaction
    <3>7. work'.row[d] = "mine"
        BY <1>1, <3>1, <3>3 DEF StoreTypeOK, Contents
    <3>8. CaptureIsAtomic'
        BY <1>1, <3>3 DEF Paired, CaptureIsAtomic, Matched
    <3>9. \A c \in Changes :
             \/ Matched(work', c)
             \/ \E u \in Tasks : label'[u] \in {"enqueue", "rollback"} /\ op'[u][1] = c
        BY <3>4, <3>5
    <3>10. \A u \in Tasks : label'[u] = "enqueue" => work'.row[op'[u][1]] # "old"
        BY <3>5, <3>6, <3>7
    <3> QED BY <3>8, <3>9, <3>10 DEF Paired, Matched
  <2>7. CASE Enqueue(t)
    <3> DEFINE d == op[t][1]
    <3>1. open /\ d \in Changes /\ work.row[d] # "old"
        BY <1>1, <2>7 DEF Enqueue, Exclusive, InTransaction, Fitting, AboutChange, Ops, Paired
    <3>2. \A c \in Changes \ {d} : Matched(work, c)
        BY <1>1, <2>7 DEF Enqueue, Exclusive, Paired, InTransaction
    <3>3. /\ disk' = disk /\ work'.taken = work.taken \cup {d}
          /\ work'.row = work.row
        BY <1>1, <2>7, <3>1 DEF Enqueue, Exec, StoreTypeOK, Contents
    <3>4. \A c \in Changes : Matched(work', c)
        BY <3>1, <3>2, <3>3 DEF Matched
    <3>5. \A u \in Tasks : label'[u] # "enqueue"
        BY <1>1, <2>7 DEF Enqueue, Goto, StoreTypeOK, Exclusive, InTransaction
    <3>6. CaptureIsAtomic'
        BY <1>1, <3>3 DEF Paired, CaptureIsAtomic, Matched
    <3> QED BY <3>4, <3>5, <3>6 DEF Paired, Matched
  <2>8. ASSUME NEW content \in Contents, Exec(content),
               content.row = work.row, content.taken = work.taken,
               label[t] \notin {"row", "enqueue", "commit", "rollback"}
        PROVE  Paired'
      BY <1>5, <2>8, PairedKept DEF Matched
  <2>9. CASE WritePage(t)
    <3>1. PICK r \in left[t] :
             /\ Exec([work EXCEPT !.landed = @ \cup {<<batch[t], r>>}])
             /\ left' = [left EXCEPT ![t] = @ \ {r}]
        BY <2>9 DEF WritePage
    <3>2. batch[t] \in Pages /\ r \in Rows
        BY <1>1, <2>9 DEF WritePage, Fitting, Pages, StoreTypeOK
    <3> DEFINE content == [work EXCEPT !.landed = @ \cup {<<batch[t], r>>}]
    <3>3. content \in Contents
        BY <1>1, <3>2, Written
    <3>4. content.row = work.row /\ content.taken = work.taken
        BY <1>1 DEF StoreTypeOK, Contents
    <3>5. Exec(content) /\ label[t] = "page"
        BY <2>9, <3>1 DEF WritePage
    <3> HIDE DEF content
    <3> QED BY <2>8, <3>3, <3>4, <3>5
  <2>10. CASE SetCheckpoint(t)
    <3> DEFINE content == [work EXCEPT !.checkpoint = batch[t]]
    <3>1. content \in Contents /\ content.row = work.row /\ content.taken = work.taken
        BY <1>1, Written, ZenonT(60) DEF StoreTypeOK, Contents
    <3>2. Exec(content) /\ label[t] = "page"
        BY <2>10 DEF SetCheckpoint
    <3> HIDE DEF content
    <3> QED BY <2>8, <3>1, <3>2
  <2>11. CASE Record(t)
    <3> DEFINE content == [work EXCEPT !.inbox = @ \cup {op[t]}]
    <3>1. op[t] \in Ops
        BY <1>1, <2>11 DEF Record, Fitting, AboutChange, Autocommitted
    <3>2. content \in Contents
        BY <1>1, <3>1, Written
    <3>3. content.row = work.row /\ content.taken = work.taken
        BY <1>1 DEF StoreTypeOK, Contents
    <3>4. Exec(content) /\ label[t] = "record"
        BY <2>11 DEF Record
    <3> HIDE DEF content
    <3> QED BY <2>8, <3>2, <3>3, <3>4
  <2>12. CASE Remove(t)
    <3> DEFINE content == [work EXCEPT !.queue = @ \ {op[t]}]
    <3>1. op[t] \in Ops
        BY <1>1, <2>12 DEF Remove, Fitting, AboutChange, Autocommitted
    <3>2. content \in Contents
        BY <1>1, <3>1, Written
    <3>3. content.row = work.row /\ content.taken = work.taken
        BY <1>1 DEF StoreTypeOK, Contents
    <3>4. Exec(content) /\ label[t] = "remove"
        BY <2>12 DEF Remove
    <3> HIDE DEF content
    <3> QED BY <2>8, <3>2, <3>3, <3>4
  <2>13. CASE Settle(t)
    <3> DEFINE content == [work EXCEPT !.queue = @ \ {op[t]},
                                       !.done = @ \cup {op[t][1]}]
    <3>1. op[t] \in Ops
        BY <1>1, <2>13 DEF Settle, Fitting, AboutChange, Autocommitted
    <3>2. content \in Contents
        BY <1>1, <3>1, Written
    <3>3. content.row = work.row /\ content.taken = work.taken
        BY <1>1 DEF StoreTypeOK, Contents
    <3>4. Exec(content) /\ label[t] = "settle"
        BY <2>13 DEF Settle
    <3> HIDE DEF content
    <3> QED BY <2>8, <3>2, <3>3, <3>4
  <2>14. CASE Mark(t)
    <3> DEFINE content == [work EXCEPT !.inbox = @ \ {op[t]}]
    <3>1. op[t] \in Ops
        BY <1>1, <2>14 DEF Mark, Fitting, AboutChange, Autocommitted
    <3>2. content \in Contents
        BY <1>1, <3>1, Written
    <3>3. content.row = work.row /\ content.taken = work.taken
        BY <1>1 DEF StoreTypeOK, Contents
    <3>4. Exec(content) /\ label[t] = "mark"
        BY <2>14 DEF Mark
    <3> HIDE DEF content
    <3> QED BY <2>8, <3>2, <3>3, <3>4
  <2>15. CASE QueueAgain(t)
    <3> DEFINE content == [work EXCEPT !.queue = @ \cup {<<op[t][1], op[t][2] + 1>>}]
    <3>1. op[t] \in Ops /\ <<op[t][1], op[t][2] + 1>> \in Ops
        BY <1>1, <2>15 DEF QueueAgain, Fitting, AboutChange, Autocommitted, Ops
    <3>2. content \in Contents
        BY <1>1, <3>1, Written
    <3>3. content.row = work.row /\ content.taken = work.taken
        BY <1>1 DEF StoreTypeOK, Contents
    <3>4. Exec(content) /\ label[t] = "again"
        BY <2>15 DEF QueueAgain
    <3> HIDE DEF content
    <3> QED BY <2>8, <3>2, <3>3, <3>4
  <2>16. CASE Rewrite(t)
    <3> DEFINE d == op[t][1]
               content == [work EXCEPT !.row[d] = "server", !.done = @ \cup {d}]
    <3>1. d \in Changes
        BY <1>1, <2>16 DEF Rewrite, Fitting, AboutChange, Autocommitted, Ops
    <3>2. /\ content \in Contents /\ content.taken = work.taken
          /\ content.row = [work.row EXCEPT ![d] = "server"]
        BY <1>1, <3>1, Written, ZenonT(60) DEF StoreTypeOK, Contents
    <3>3. Exec(content) /\ label[t] = "rewrite"
        BY <2>16 DEF Rewrite
    <3> HIDE DEF content
    <3>4. work.row \in [Changes -> {"old", "mine", "server"}]
        BY <1>1 DEF StoreTypeOK, Contents
    <3>5. \A c \in Changes : Matched(work, c) => Matched(content, c)
        BY <3>1, <3>2, <3>4 DEF Matched
    <3>6. \A c \in Changes : work.row[c] # "old" => content.row[c] # "old"
        BY <3>1, <3>2, <3>4
    <3> QED BY <1>5, <3>2, <3>3, <3>5, <3>6, PairedKept
  <2> QED BY <1>5, <2>2, <2>3, <2>4, <2>5, <2>6, <2>7, <2>9, <2>10, <2>11, <2>12,
          <2>13, <2>14, <2>15, <2>16
          DEF Step
<1> QED BY <1>2, <1>3, <1>4, <1>5 DEF StoreNext

(* The inductive invariant holds in every state. *)
THEOREM StoreInvHolds == StoreSpec => []StoreInv
<1>1. StoreInit => StoreInv
    BY StoreInitOK
<1>2. StoreInv /\ [StoreNext]_storeVars => StoreInv'
    BY StoreTyped, ExclusiveNext, FittingNext, PairedNext DEF StoreInv
<1> QED BY <1>1, <1>2, PTL DEF StoreSpec

(* The state always has its type. *)
THEOREM StoreTypeCorrect == StoreSpec => []StoreTypeOK
<1>1. StoreInv => StoreTypeOK
    BY DEF StoreInv
<1> QED BY <1>1, StoreInvHolds, PTL

(* What is committed shows a change exactly if its op was queued, however  *)
(* many tasks run statements inside each other's transactions, throw, roll *)
(* back or are cut off by a reload.                                        *)
THEOREM CaptureAtomic == StoreSpec => []CaptureIsAtomic
<1>1. StoreInv => CaptureIsAtomic
    BY DEF StoreInv, Paired
<1> QED BY <1>1, StoreInvHolds, PTL
-----------------------------------------------------------------------------
(* The ops that keep a change on the device. *)
Held(content) == content.queue \cup content.inbox

(* A change was answered for good, or a later op of it is held. *)
Past(content, o) ==
    \/ o[1] \in content.done
    \/ \E q \in Held(content) : q[1] = o[1] /\ q[2] > o[2]

(* Unless something was rolled back: a task at "remove" has its row in the *)
(* inbox, or that conflict was resolved since; one at "mark" has queued a  *)
(* later op or given the change up.                                        *)
Recorded ==
    /\ \A c \in disk.taken : Kept(disk, c)
    /\ \A c \in work.taken : Kept(work, c)
    /\ \A t \in Tasks :
          /\ label[t] = "remove" => op[t] \in work.inbox \/ Past(work, op[t])
          /\ label[t] = "mark" => Past(work, op[t])
KeptInv == undone \/ Recorded

(* If a content loses at most one op, and that one is superseded or its    *)
(* change is settled, then nothing else is lost.                           *)
LEMMA Superseded ==
    ASSUME NEW W \in Contents, NEW V \in Contents,
           W.done \subseteq V.done,
           \A p, q \in Held(W) \ Held(V) : p = q,
           \A q \in Held(W) \ Held(V) : Past(W, q) \/ q[1] \in V.done
    PROVE  /\ \A o \in Ops : Past(W, o) => Past(V, o)
           /\ \A c \in Changes : Kept(W, c) => Kept(V, c)
<1>1. Held(W) \subseteq Ops /\ Held(V) \subseteq Ops
    BY DEF Held, Contents
<1>2. \A o \in Ops : o[2] \in Nat
    BY DEF Ops
<1>3. ASSUME NEW q \in Held(W)
      PROVE  \/ q[1] \in V.done
             \/ \E p \in Held(V) : p[1] = q[1] /\ p[2] >= q[2]
  <2>1. CASE q \in Held(V)
      BY <1>1, <1>2, <2>1
  <2>2. CASE q \notin Held(V) /\ q[1] \notin V.done
    <3>1. PICK p \in Held(W) : p[1] = q[1] /\ p[2] > q[2]
        BY <2>2 DEF Past
    <3>2. p # q
        BY <1>1, <1>2, <3>1
    <3>3. p \in Held(V)
        BY <2>2, <3>2
    <3> QED BY <1>1, <1>2, <3>1, <3>3
  <2> QED BY <2>1, <2>2
<1>4. ASSUME NEW o \in Ops, Past(W, o)
      PROVE  Past(V, o)
  <2>1. CASE o[1] \in W.done
      BY <2>1 DEF Past
  <2>2. CASE \E q \in Held(W) : q[1] = o[1] /\ q[2] > o[2]
    <3>1. PICK q \in Held(W) : q[1] = o[1] /\ q[2] > o[2]
        BY <2>2
    <3>2. CASE q[1] \in V.done
        BY <3>1, <3>2 DEF Past
    <3>3. CASE \E p \in Held(V) : p[1] = q[1] /\ p[2] >= q[2]
      <4>1. PICK p \in Held(V) : p[1] = q[1] /\ p[2] >= q[2]
          BY <3>3
      <4>2. p[2] > o[2]
          BY <1>1, <1>2, <3>1, <4>1
      <4> QED BY <3>1, <4>1, <4>2 DEF Past
    <3> QED BY <1>3, <3>2, <3>3
  <2> QED BY <1>4, <2>1, <2>2 DEF Past
<1>5. ASSUME NEW c \in Changes, Kept(W, c)
      PROVE  Kept(V, c)
    BY <1>3, <1>5 DEF Kept, Held
<1> QED BY <1>4, <1>5

(* A statement of task t that respects the above keeps what is recorded,   *)
(* provided t itself is recorded where it goes on.                         *)
LEMMA RecordedKept ==
    ASSUME StoreInv, Recorded, NEW t \in Tasks, NEW V \in Contents, Exec(V),
           \A u \in Tasks \ {t} : label'[u] = label[u] /\ op'[u] = op[u],
           work.done \subseteq V.done,
           \A p, q \in Held(work) \ Held(V) : p = q,
           \A q \in Held(work) \ Held(V) : Past(work, q) \/ q[1] \in V.done,
           \A q \in work.inbox \ V.inbox : Past(work, q),
           \A c \in V.taken \ work.taken : Kept(V, c),
           label'[t] = "remove" => op'[t] \in V.inbox,
           label'[t] = "mark" => Past(V, op'[t])
    PROVE  Recorded'
<1>1. StoreTypeOK /\ Exclusive /\ Fitting
    BY DEF StoreInv
<1>2. work \in Contents
    BY <1>1 DEF StoreTypeOK
<1>3. /\ \A o \in Ops : Past(work, o) => Past(V, o)
      /\ \A c \in Changes : Kept(work, c) => Kept(V, c)
    BY <1>2, Superseded
<1>4. work' = V /\ disk' = IF open THEN disk ELSE V
    BY DEF Exec
<1>5. V.taken \subseteq Changes
    BY DEF Contents
<1>6. \A c \in V.taken : Kept(V, c)
    BY <1>3, <1>5 DEF Recorded
<1>7. (\A c \in disk.taken : Kept(disk, c))' /\ (\A c \in work.taken : Kept(work, c))'
    BY <1>4, <1>6 DEF Recorded, Kept
<1>8. ASSUME NEW u \in Tasks
      PROVE  /\ label'[u] = "remove" => op'[u] \in V.inbox \/ Past(V, op'[u])
             /\ label'[u] = "mark" => Past(V, op'[u])
  <2>1. CASE u = t
      BY <2>1
  <2>2. CASE u # t
    <3>1. label[u] \in {"remove", "mark"} => op[u] \in Ops
        BY <1>1 DEF Fitting, AboutChange, Autocommitted
    <3>2. label'[u] = label[u] /\ op'[u] = op[u]
        BY <2>2
    <3>3. /\ label[u] = "remove" => op[u] \in work.inbox \/ Past(work, op[u])
          /\ label[u] = "mark" => Past(work, op[u])
        BY DEF Recorded
    <3> QED BY <1>3, <3>1, <3>2, <3>3
  <2> QED BY <2>1, <2>2
<1> QED BY <1>4, <1>7, <1>8 DEF Recorded, Past, Held

(* No step but a ROLLBACK loses a change. *)
LEMMA KeptNext == StoreInv /\ KeptInv /\ [StoreNext]_storeVars => KeptInv'
<1> SUFFICES ASSUME StoreInv, Recorded, [StoreNext]_storeVars, ~undone, ~undone' PROVE Recorded'
  <2>1. StoreInv /\ [StoreNext]_storeVars /\ undone => undone'
      BY ZenonT(40) DEF StoreNext, Starts, Step, Reload, Capture, PullPage, Accepted, Conflicted,
             KeepMine, KeepServer, StartTask, Begin, Refuse, CommitTransaction, Rollback, Throw,
             WriteRow, Enqueue, Follow, WritePage, SetCheckpoint, Record, Remove,
             Settle, QueueAgain, Rewrite, Mark, Exec, storeVars
  <2>2. StoreInv => undone \in BOOLEAN
      BY DEF StoreInv, StoreTypeOK
  <2> QED BY <2>1, <2>2 DEF KeptInv
<1>1. StoreTypeOK /\ Exclusive /\ Fitting
    BY DEF StoreInv
<1>2. CASE UNCHANGED storeVars
    BY <1>2 DEF storeVars, Recorded, Kept, Past, Held
<1>3. CASE Reload
    BY <1>3 DEF Reload, Recorded, Kept
<1>4. ASSUME UNCHANGED <<disk, work>>, NEW t \in Tasks,
             \A u \in Tasks \ {t} : label'[u] = label[u] /\ op'[u] = op[u],
             label'[t] \notin {"remove", "mark"}
      PROVE  Recorded'
    BY <1>4 DEF Recorded, Kept, Past, Held
<1>5. ASSUME NEW t \in Tasks, Starts(t) PROVE Recorded'
  <2>1. PICK l \in {"begin", "settle", "record", "again", "rewrite"} :
           /\ Goto(t, l)
           /\ \A u \in Tasks \ {t} : op'[u] = op[u]
           /\ UNCHANGED <<disk, work>>
      BY <1>1, <1>5 DEF Starts, Capture, PullPage, Accepted, Conflicted, KeepMine,
                        KeepServer, StartTask, StoreTypeOK
  <2>2. label'[t] = l /\ \A u \in Tasks \ {t} : label'[u] = label[u]
      BY <1>1, <2>1 DEF Goto, StoreTypeOK
  <2> QED BY <1>4, <2>1, <2>2
<1>6. ASSUME NEW t \in Tasks, Step(t) PROVE Recorded'
  <2>1. \A u \in Tasks \ {t} : label'[u] = label[u] /\ op'[u] = op[u]
      BY <1>1, <1>6 DEF Step, Begin, Refuse, CommitTransaction, Proceed, Rollback, Throw,
         WriteRow,
           Enqueue, Follow, WritePage, SetCheckpoint, Record, Remove, Settle,
           QueueAgain, Rewrite, Mark, End, Goto, StoreTypeOK, taskVars
  <2>2. CASE Begin(t) \/ Refuse(t) \/ Follow(t) \/ Throw(t)
    <3>1. UNCHANGED <<disk, work>> /\ label'[t] \notin {"remove", "mark"}
        BY <1>1, <2>2 DEF Begin, Refuse, Follow, Throw, End, Goto, StoreTypeOK
    <3> QED BY <1>4, <2>1, <3>1
  <2>3. CASE CommitTransaction(t)
    <3>1. disk' = work /\ work' = work /\ label'[t] \in {"begin", "idle"}
        BY <1>1, <2>3 DEF CommitTransaction, Proceed, End, Goto, StoreTypeOK
    <3> QED BY <2>1, <3>1 DEF Recorded, Kept, Past, Held
  <2>4. CASE Rollback(t)
      BY <2>4 DEF Rollback
  <2>5. ASSUME NEW V \in Contents, Exec(V), label'[t] \notin {"remove", "mark"},
               V.done = work.done, V.queue = work.queue, V.inbox = work.inbox,
               V.taken = work.taken
        PROVE  Recorded'
      BY <2>1, <2>5, RecordedKept DEF Held
  <2>6. CASE WriteRow(t)
    <3> DEFINE V == [work EXCEPT !.row[op[t][1]] = "mine"]
    <3>1. op[t][1] \in Changes
        BY <1>1, <2>6 DEF WriteRow, Fitting, AboutChange, Ops
    <3>2. V \in Contents
        BY <1>1, <3>1, Written
    <3>3. /\ V.done = work.done /\ V.queue = work.queue
          /\ V.inbox = work.inbox /\ V.taken = work.taken
        BY <1>1 DEF StoreTypeOK, Contents
    <3>4. Exec(V) /\ label'[t] = "enqueue"
        BY <1>1, <2>6 DEF WriteRow, Goto, StoreTypeOK
    <3> HIDE DEF V
    <3> QED BY <2>5, <3>2, <3>3, <3>4
  <2>7. CASE WritePage(t)
    <3>1. PICK r \in left[t] :
             /\ Exec([work EXCEPT !.landed = @ \cup {<<batch[t], r>>}])
             /\ left' = [left EXCEPT ![t] = @ \ {r}]
        BY <2>7 DEF WritePage
    <3> DEFINE V == [work EXCEPT !.landed = @ \cup {<<batch[t], r>>}]
    <3>2. batch[t] \in Pages /\ r \in Rows
        BY <1>1, <2>7 DEF WritePage, Fitting, Pages, StoreTypeOK
    <3>3. V \in Contents
        BY <1>1, <3>2, Written
    <3>4. /\ V.done = work.done /\ V.queue = work.queue
          /\ V.inbox = work.inbox /\ V.taken = work.taken
        BY <1>1 DEF StoreTypeOK, Contents
    <3>5. Exec(V) /\ label'[t] = "page"
        BY <2>7, <3>1 DEF WritePage
    <3> HIDE DEF V
    <3> QED BY <2>5, <3>3, <3>4, <3>5
  <2>8. CASE SetCheckpoint(t)
    <3> DEFINE V == [work EXCEPT !.checkpoint = batch[t]]
    <3>1. V \in Contents
        BY <1>1, Written DEF StoreTypeOK
    <3>2. /\ V.done = work.done /\ V.queue = work.queue
          /\ V.inbox = work.inbox /\ V.taken = work.taken
        BY <1>1 DEF StoreTypeOK, Contents
    <3>3. Exec(V) /\ label'[t] = "commit"
        BY <1>1, <2>8 DEF SetCheckpoint, Goto, StoreTypeOK
    <3> HIDE DEF V
    <3> QED BY <2>5, <3>1, <3>2, <3>3
  <2>9. CASE Enqueue(t)
    <3> DEFINE V == [work EXCEPT !.queue = @ \cup {op[t]},
                                 !.taken = @ \cup {op[t][1]}]
    <3>1. op[t] \in Ops
        BY <1>1, <2>9 DEF Enqueue, Fitting, AboutChange
    <3>2. V \in Contents
        BY <1>1, <3>1, Written
    <3>3. /\ V.done = work.done /\ V.queue = work.queue \cup {op[t]}
          /\ V.inbox = work.inbox /\ V.taken = work.taken \cup {op[t][1]}
        BY <1>1 DEF StoreTypeOK, Contents
    <3>4. Exec(V) /\ label'[t] = "follow"
        BY <1>1, <2>9 DEF Enqueue, Goto, StoreTypeOK
    <3> HIDE DEF V
    <3>5. Kept(V, op[t][1])
        BY <3>3 DEF Kept
    <3> QED BY <2>1, <3>2, <3>3, <3>4, <3>5, RecordedKept DEF Held
  <2>10. CASE Record(t)
    <3> DEFINE V == [work EXCEPT !.inbox = @ \cup {op[t]}]
    <3>1. op[t] \in Ops
        BY <1>1, <2>10 DEF Record, Fitting, AboutChange, Autocommitted
    <3>2. V \in Contents
        BY <1>1, <3>1, Written
    <3>3. /\ V.done = work.done /\ V.queue = work.queue
          /\ V.inbox = work.inbox \cup {op[t]} /\ V.taken = work.taken
        BY <1>1 DEF StoreTypeOK, Contents
    <3>4. Exec(V) /\ label'[t] = "remove" /\ op'[t] = op[t]
        BY <1>1, <2>10 DEF Record, Goto, StoreTypeOK, taskVars
    <3> HIDE DEF V
    <3> QED BY <2>1, <3>2, <3>3, <3>4, RecordedKept DEF Held
  <2>11. CASE Remove(t)
    <3> DEFINE V == [work EXCEPT !.queue = @ \ {op[t]}]
    <3>1. op[t] \in Ops
        BY <1>1, <2>11 DEF Remove, Fitting, AboutChange, Autocommitted
    <3>2. V \in Contents
        BY <1>1, <3>1, Written
    <3>3. /\ V.done = work.done /\ V.queue = work.queue \ {op[t]}
          /\ V.inbox = work.inbox /\ V.taken = work.taken
        BY <1>1 DEF StoreTypeOK, Contents
    <3>4. Exec(V) /\ label'[t] = "idle"
        BY <1>1, <2>11 DEF Remove, End, Goto, StoreTypeOK
    <3> HIDE DEF V
    <3>5. \A q \in Held(work) \ Held(V) : q = op[t] /\ op[t] \notin work.inbox
        BY <3>3 DEF Held
    <3>6. op[t] \in work.inbox \/ Past(work, op[t])
        BY <2>11 DEF Remove, Recorded
    <3> QED BY <2>1, <3>2, <3>3, <3>4, <3>5, <3>6, RecordedKept
  <2>12. CASE Settle(t)
    <3> DEFINE V == [work EXCEPT !.queue = @ \ {op[t]},
                                 !.done = @ \cup {op[t][1]}]
    <3>1. op[t] \in Ops
        BY <1>1, <2>12 DEF Settle, Fitting, AboutChange, Autocommitted
    <3>2. V \in Contents
        BY <1>1, <3>1, Written
    <3>3. /\ V.done = work.done \cup {op[t][1]}
          /\ V.queue = work.queue \ {op[t]}
          /\ V.inbox = work.inbox /\ V.taken = work.taken
        BY <1>1 DEF StoreTypeOK, Contents
    <3>4. Exec(V) /\ label'[t] = "idle"
        BY <1>1, <2>12 DEF Settle, End, Goto, StoreTypeOK
    <3> HIDE DEF V
    <3>5. \A q \in Held(work) \ Held(V) : q = op[t]
        BY <3>3 DEF Held
    <3> QED BY <2>1, <3>2, <3>3, <3>4, <3>5, RecordedKept
  <2>13. CASE QueueAgain(t)
    <3> DEFINE again == <<op[t][1], op[t][2] + 1>>
               V == [work EXCEPT !.queue = @ \cup {again}]
    <3>1. op[t] \in Ops /\ again \in Ops
        BY <1>1, <2>13 DEF QueueAgain, Fitting, AboutChange, Autocommitted, Ops
    <3>2. V \in Contents
        BY <1>1, <3>1, Written
    <3>3. /\ V.done = work.done /\ V.queue = work.queue \cup {again}
          /\ V.inbox = work.inbox /\ V.taken = work.taken
        BY <1>1 DEF StoreTypeOK, Contents
    <3>4. Exec(V) /\ label'[t] = "mark" /\ op'[t] = op[t]
        BY <1>1, <2>13 DEF QueueAgain, Goto, StoreTypeOK, taskVars
    <3>5. again[1] = op[t][1] /\ again[2] > op[t][2]
        BY <3>1 DEF Ops
    <3> HIDE DEF V, again
    <3>6. Past(V, op[t])
        BY <3>3, <3>5 DEF Past, Held
    <3> QED BY <2>1, <3>2, <3>3, <3>4, <3>6, RecordedKept DEF Held
  <2>14. CASE Rewrite(t)
    <3> DEFINE V == [work EXCEPT !.row[op[t][1]] = "server",
                                 !.done = @ \cup {op[t][1]}]
    <3>1. op[t][1] \in Changes
        BY <1>1, <2>14 DEF Rewrite, Fitting, AboutChange, Autocommitted, Ops
    <3>2. V \in Contents
        BY <1>1, <3>1, Written
    <3>3. /\ V.done = work.done \cup {op[t][1]} /\ V.queue = work.queue
          /\ V.inbox = work.inbox /\ V.taken = work.taken
        BY <1>1 DEF StoreTypeOK, Contents
    <3>4. Exec(V) /\ label'[t] = "mark" /\ op'[t] = op[t]
        BY <1>1, <2>14 DEF Rewrite, Goto, StoreTypeOK, taskVars
    <3> HIDE DEF V
    <3>5. Past(V, op[t])
        BY <3>3 DEF Past
    <3> QED BY <2>1, <3>2, <3>3, <3>4, <3>5, RecordedKept DEF Held
  <2>15. CASE Mark(t)
    <3> DEFINE V == [work EXCEPT !.inbox = @ \ {op[t]}]
    <3>1. op[t] \in Ops /\ Past(work, op[t])
        BY <1>1, <2>15 DEF Mark, Fitting, AboutChange, Autocommitted, Recorded
    <3>2. V \in Contents
        BY <1>1, <3>1, Written
    <3>3. /\ V.done = work.done /\ V.queue = work.queue
          /\ V.inbox = work.inbox \ {op[t]} /\ V.taken = work.taken
        BY <1>1 DEF StoreTypeOK, Contents
    <3>4. Exec(V) /\ label'[t] = "idle"
        BY <1>1, <2>15 DEF Mark, End, Goto, StoreTypeOK
    <3> HIDE DEF V
    <3>5. /\ \A q \in Held(work) \ Held(V) : q = op[t]
          /\ \A q \in work.inbox \ V.inbox : q = op[t]
        BY <3>3 DEF Held
    <3> QED BY <2>1, <3>1, <3>2, <3>3, <3>4, <3>5, RecordedKept
  <2> QED BY <1>6, <2>2, <2>3, <2>4, <2>6, <2>7, <2>8, <2>9, <2>10, <2>11, <2>12,
          <2>13, <2>14, <2>15 DEF Step
<1> QED BY <1>2, <1>3, <1>5, <1>6 DEF StoreNext

(* A change leaves the device unanswered only through a ROLLBACK that took *)
(* another task's statements with it.                                      *)
THEOREM OnlyRollbackLoses == StoreSpec => []LostOnlyByRollback
<1>1. StoreInit => KeptInv
    BY DEF StoreInit, KeptInv, Recorded
<1>2. StoreInv /\ KeptInv /\ [StoreNext]_storeVars => KeptInv'
    BY KeptNext
<1>3. KeptInv => LostOnlyByRollback
    BY DEF KeptInv, Recorded, LostOnlyByRollback, NoChangeIsLost
<1> QED BY <1>1, <1>2, <1>3, StoreInvHolds, PTL DEF StoreSpec
-----------------------------------------------------------------------------
(* Page p is complete in a content. *)
Landed(content, p) == \A r \in Rows : <<p, r>> \in content.landed
Committing == \E t \in Tasks : label[t] = "commit"

(* What a pull knows of the pages before its own and of the rows it wrote, *)
(* whatever was committed or rolled back since it read the checkpoint.     *)
StorePullInv ==
    /\ disk.landed \subseteq work.landed
    /\ \A p \in 1..disk.checkpoint : Landed(disk, p)
    /\ \A p \in 1..work.checkpoint : Landed(work, p)
    /\ work.checkpoint = disk.checkpoint \/ Committing
    /\ \A t \in Tasks :
          /\ \A p \in 1..(batch[t] - 1) :
                Landed(work, p) /\ (Landed(disk, p) \/ Committing)
          /\ label[t] = "begin" /\ batch[t] > 0 => left[t] = Rows
          /\ label[t] = "commit" /\ batch[t] > 0 => Landed(work, batch[t])
          /\ label[t] = "page" =>
                \A r \in Rows \ left[t] : <<batch[t], r>> \in work.landed

(* A statement of a task that writes nothing of the pull keeps all of it,  *)
(* as long as the task is not the one that commits.                        *)
LEMMA PullKept ==
    ASSUME StoreInv, StorePullInv, NEW t \in Tasks, NEW V \in Contents,
           V.landed = work.landed, V.checkpoint = work.checkpoint,
           \/ UNCHANGED <<disk, work>> /\ V = work
           \/ Exec(V),
           \A u \in Tasks \ {t} :
              label'[u] = label[u] /\ batch'[u] = batch[u] /\ left'[u] = left[u],
           label[t] # "commit",
           batch'[t] \in {0, batch[t]},
           label'[t] = "begin" /\ batch'[t] > 0 => left'[t] = Rows,
           label'[t] = "page" => left'[t] = Rows,
           label'[t] = "commit" => batch'[t] = 0
    PROVE  StorePullInv'
<1>1. StoreTypeOK /\ Exclusive
    BY DEF StoreInv
<1>2. work'.landed = work.landed /\ work'.checkpoint = work.checkpoint
    BY DEF Exec
<1>3. \/ disk'.landed = disk.landed /\ disk'.checkpoint = disk.checkpoint
      \/ /\ disk'.landed = work.landed /\ disk'.checkpoint = work.checkpoint
         /\ work = disk
    BY <1>1 DEF Exec, Exclusive
<1>4. disk'.landed = disk.landed /\ disk'.checkpoint = disk.checkpoint
    BY <1>3
<1>5. Committing => Committing'
    BY DEF Committing
<1>6. \A p : Landed(disk', p) = Landed(disk, p) /\ Landed(work', p) = Landed(work, p)
    BY <1>2, <1>4 DEF Landed
<1>7. ASSUME NEW u \in Tasks
      PROVE  /\ \A p \in 1..(batch'[u] - 1) :
                  Landed(work', p) /\ (Landed(disk', p) \/ Committing')
             /\ label'[u] = "begin" /\ batch'[u] > 0 => left'[u] = Rows
             /\ label'[u] = "commit" /\ batch'[u] > 0 => Landed(work', batch'[u])
             /\ label'[u] = "page" =>
                  \A r \in Rows \ left'[u] : <<batch'[u], r>> \in work'.landed
  <2>1. batch[u] \in Nat
      BY <1>1 DEF StoreTypeOK
  <2>2. batch'[u] \in {0, batch[u]}
      BY <1>7
  <2>3. 1..(batch'[u] - 1) \subseteq 1..(batch[u] - 1)
      BY <2>1, <2>2
  <2>4. \A p \in 1..(batch'[u] - 1) :
           Landed(work', p) /\ (Landed(disk', p) \/ Committing')
      BY <1>5, <1>6, <2>3 DEF StorePullInv
  <2>5. CASE u = t
      BY <2>4, <2>5
  <2>6. CASE u # t
    <3>1. label'[u] = label[u] /\ batch'[u] = batch[u] /\ left'[u] = left[u]
        BY <2>6
    <3>2. Landed(work', batch'[u]) = Landed(work, batch[u])
        BY <1>6, <3>1
    <3> QED BY <1>2, <2>4, <3>1, <3>2 DEF StorePullInv
  <2> QED BY <2>5, <2>6
<1> QED BY <1>2, <1>4, <1>5, <1>6, <1>7 DEF StorePullInv

(* The checkpoint and the rows below it land together, as long as a COMMIT *)
(* does not throw.                                                         *)
LEMMA PullNext ==
    ~CommitMayFail /\ StoreInv /\ StorePullInv /\ [StoreNext]_storeVars => StorePullInv'
<1> SUFFICES ASSUME ~CommitMayFail, StoreInv, StorePullInv, [StoreNext]_storeVars
             PROVE  StorePullInv'
    OBVIOUS
<1>1. StoreTypeOK /\ Exclusive /\ Fitting
    BY DEF StoreInv
<1>2. work \in Contents
    BY <1>1 DEF StoreTypeOK
<1>3. CASE UNCHANGED storeVars
    BY <1>3 DEF storeVars, taskVars, StorePullInv, Landed, Committing
<1>4. CASE Reload
    BY <1>4 DEF Reload, StorePullInv, Landed, Committing
<1>5. ASSUME NEW t \in Tasks, Starts(t) PROVE StorePullInv'
  <2>1. CASE PullPage(t)
    <3> DEFINE n == work.checkpoint + 1
    <3>1. n \in Nat /\ n # 0 /\ n - 1 = work.checkpoint
        BY <1>2 DEF Contents
    <3>2. StartTask(t, "begin", NoOp, n)
        BY <2>1 DEF PullPage
    <3>3. \A p \in 1..(n - 1) : Landed(work, p) /\ (Landed(disk, p) \/ Committing)
        BY <3>1 DEF StorePullInv
    <3> HIDE DEF n
    <3>4. /\ UNCHANGED <<disk, work>> /\ label[t] = "idle"
          /\ label' = [label EXCEPT ![t] = "begin"]
          /\ batch'[t] = n /\ left'[t] = Rows /\ label'[t] = "begin"
          /\ \A u \in Tasks \ {t} :
                label'[u] = label[u] /\ batch'[u] = batch[u] /\ left'[u] = left[u]
        BY <1>1, <3>1, <3>2 DEF StartTask, Goto, StoreTypeOK
    <3>5. Committing' <=> Committing
        BY <3>4 DEF Committing
    <3>6. \A p : Landed(disk', p) = Landed(disk, p) /\ Landed(work', p) = Landed(work, p)
        BY <3>4 DEF Landed
    <3>7. ASSUME NEW u \in Tasks
          PROVE  /\ \A p \in 1..(batch'[u] - 1) :
                      Landed(work', p) /\ (Landed(disk', p) \/ Committing')
                 /\ label'[u] = "begin" /\ batch'[u] > 0 => left'[u] = Rows
                 /\ label'[u] = "commit" /\ batch'[u] > 0 => Landed(work', batch'[u])
                 /\ label'[u] = "page" =>
                      \A r \in Rows \ left'[u] : <<batch'[u], r>> \in work'.landed
      <4>1. CASE u = t
          BY <3>4, <3>5, <3>6, <3>3, <4>1
      <4>2. CASE u # t
        <5>1. label'[u] = label[u] /\ batch'[u] = batch[u] /\ left'[u] = left[u]
            BY <3>4, <4>2
        <5> QED BY <3>4, <3>5, <3>6, <5>1 DEF StorePullInv
      <4> QED BY <4>1, <4>2
    <3> QED BY <3>4, <3>5, <3>6, <3>7 DEF StorePullInv
  <2>2. CASE ~PullPage(t)
    <3>1. PICK l \in {"begin", "settle", "record", "again", "rewrite"} :
             /\ Goto(t, l) /\ label[t] = "idle"
             /\ batch' = [batch EXCEPT ![t] = 0]
             /\ \A u \in Tasks \ {t} : left'[u] = left[u]
             /\ UNCHANGED <<disk, work>>
        BY <1>1, <1>5, <2>2 DEF Starts, Capture, Accepted, Conflicted, KeepMine,
                                KeepServer, StartTask, StoreTypeOK
    <3>2. /\ label'[t] = l /\ batch'[t] = 0
          /\ \A u \in Tasks \ {t} : label'[u] = label[u] /\ batch'[u] = batch[u]
        BY <1>1, <3>1 DEF Goto, StoreTypeOK
    <3> QED BY <1>2, <3>1, <3>2, PullKept
  <2> QED BY <2>1, <2>2
<1>6. ASSUME NEW t \in Tasks, Step(t) PROVE StorePullInv'
  <2>1. \A u \in Tasks \ {t} :
           label'[u] = label[u] /\ batch'[u] = batch[u] /\ left'[u] = left[u]
      BY <1>1, <1>6 DEF Step, Begin, Refuse, CommitTransaction, Proceed, Rollback, Throw,
         WriteRow,
           Enqueue, Follow, WritePage, SetCheckpoint, Record, Remove, Settle,
           QueueAgain, Rewrite, Mark, End, Goto, StoreTypeOK, taskVars
  <2>2. CASE Begin(t)
    <3>1. /\ UNCHANGED <<disk, work, taskVars>> /\ label[t] = "begin"
          /\ label'[t] \in {"row", "page"} /\ (label'[t] = "page" => batch[t] # 0)
        BY <1>1, <2>2 DEF Begin, Goto, StoreTypeOK
    <3>2. batch[t] \in Nat
        BY <1>1 DEF StoreTypeOK
    <3>3. label'[t] = "page" => left'[t] = Rows
        BY <3>1, <3>2 DEF StorePullInv, taskVars
    <3>4. batch'[t] = batch[t]
        BY <3>1 DEF taskVars
    <3> QED BY <1>2, <2>1, <3>1, <3>3, <3>4, PullKept
  <2>3. CASE Refuse(t) \/ Follow(t) \/ Throw(t)
    <3>1. /\ UNCHANGED <<disk, work>> /\ batch'[t] \in {0, batch[t]}
          /\ (label'[t] = "commit" => batch'[t] = 0)
          /\ label[t] # "commit" /\ label'[t] \notin {"begin", "page"}
        BY <1>1, <2>3 DEF Refuse, Follow, Throw, Fitting, End, Goto, StoreTypeOK, taskVars
    <3> QED BY <1>2, <2>1, <3>1, PullKept
  <2>4. CASE CommitTransaction(t)
    <3> DEFINE n == batch[t] + 1
    <3>1. batch[t] \in Nat /\ disk' = work /\ work' = work /\ label[t] = "commit"
        BY <1>1, <2>4 DEF CommitTransaction, StoreTypeOK
    <3>2. \/ label'[t] = "idle" /\ batch'[t] = 0
          \/ /\ batch[t] > 0 /\ label'[t] = "begin" /\ batch'[t] = n
             /\ left'[t] = Rows
        BY <1>1, <2>4 DEF CommitTransaction, Proceed, End, Goto, StoreTypeOK
    <3>3. \A p : Landed(disk', p) = Landed(work, p) /\ Landed(work', p) = Landed(work, p)
        BY <3>1 DEF Landed
    <3>4. batch[t] > 0 => \A p \in 1..(n - 1) : Landed(work, p)
      <4>1. \A p \in 1..(n - 1) : p = batch[t] \/ p \in 1..(batch[t] - 1)
          BY <3>1
      <4> QED BY <3>1, <4>1 DEF StorePullInv
    <3> HIDE DEF n
    <3>5. ASSUME NEW u \in Tasks
          PROVE  /\ \A p \in 1..(batch'[u] - 1) : Landed(work, p)
                 /\ label'[u] = "begin" /\ batch'[u] > 0 => left'[u] = Rows
                 /\ label'[u] = "commit" /\ batch'[u] > 0 => Landed(work, batch'[u])
                 /\ label'[u] = "page" =>
                      \A r \in Rows \ left'[u] : <<batch'[u], r>> \in work.landed
      <4>1. CASE u = t
          BY <3>2, <3>4, <4>1
      <4>2. CASE u # t
        <5>1. label'[u] = label[u] /\ batch'[u] = batch[u] /\ left'[u] = left[u]
            BY <2>1, <4>2
        <5> QED BY <5>1 DEF StorePullInv
      <4> QED BY <4>1, <4>2
    <3> QED BY <3>1, <3>3, <3>5 DEF StorePullInv
  <2>5. CASE Rollback(t)
    <3>1. disk' = disk /\ work' = disk /\ label'[t] = "idle" /\ batch'[t] = 0
        BY <1>1, <2>5 DEF Rollback, End, Goto, StoreTypeOK
    <3>2. /\ ~Committing
          /\ \A u \in Tasks : label'[u] \notin {"page", "commit"}
        BY <1>1, <2>1, <2>5, <3>1 DEF Rollback, Exclusive, InTransaction, Committing
    <3>3. \A p : Landed(disk', p) = Landed(disk, p) /\ Landed(work', p) = Landed(disk, p)
        BY <3>1 DEF Landed
    <3>4. ASSUME NEW u \in Tasks
          PROVE  /\ \A p \in 1..(batch'[u] - 1) : Landed(disk, p)
                 /\ label'[u] = "begin" /\ batch'[u] > 0 => left'[u] = Rows
      <4>1. CASE u = t
          BY <3>1, <4>1
      <4>2. CASE u # t
        <5>1. label'[u] = label[u] /\ batch'[u] = batch[u] /\ left'[u] = left[u]
            BY <2>1, <4>2
        <5> QED BY <3>2, <5>1 DEF StorePullInv
      <4> QED BY <4>1, <4>2
    <3> QED BY <3>1, <3>2, <3>3, <3>4 DEF StorePullInv
  <2>6. ASSUME NEW V \in Contents, Exec(V),
               V.landed = work.landed, V.checkpoint = work.checkpoint,
               label[t] # "commit", label'[t] \notin {"begin", "page", "commit"},
               batch'[t] \in {0, batch[t]}
        PROVE  StorePullInv'
      BY <2>1, <2>6, PullKept
  <2>7. CASE WriteRow(t)
    <3> DEFINE V == [work EXCEPT !.row[op[t][1]] = "mine"]
    <3>1. op[t][1] \in Changes
        BY <1>1, <2>7 DEF WriteRow, Fitting, AboutChange, Ops
    <3>2. V \in Contents
        BY <1>1, <3>1, Written
    <3>3. V.landed = work.landed /\ V.checkpoint = work.checkpoint
        BY <1>2 DEF Contents
    <3>4. Exec(V) /\ label[t] = "row" /\ label'[t] = "enqueue" /\ batch'[t] = batch[t]
        BY <1>1, <2>7 DEF WriteRow, Goto, StoreTypeOK, taskVars
    <3> HIDE DEF V
    <3> QED BY <2>6, <3>2, <3>3, <3>4
  <2>8. CASE Enqueue(t)
    <3> DEFINE V == [work EXCEPT !.queue = @ \cup {op[t]},
                                 !.taken = @ \cup {op[t][1]}]
    <3>1. op[t] \in Ops
        BY <1>1, <2>8 DEF Enqueue, Fitting, AboutChange
    <3>2. V \in Contents
        BY <1>1, <3>1, Written
    <3>3. V.landed = work.landed /\ V.checkpoint = work.checkpoint
        BY <1>2 DEF Contents
    <3>4. Exec(V) /\ label[t] = "enqueue" /\ label'[t] = "follow" /\ batch'[t] = batch[t]
        BY <1>1, <2>8 DEF Enqueue, Goto, StoreTypeOK, taskVars
    <3> HIDE DEF V
    <3> QED BY <2>6, <3>2, <3>3, <3>4
  <2>9. CASE Record(t)
    <3> DEFINE V == [work EXCEPT !.inbox = @ \cup {op[t]}]
    <3>1. op[t] \in Ops
        BY <1>1, <2>9 DEF Record, Fitting, AboutChange, Autocommitted
    <3>2. V \in Contents
        BY <1>1, <3>1, Written
    <3>3. V.landed = work.landed /\ V.checkpoint = work.checkpoint
        BY <1>2 DEF Contents
    <3>4. Exec(V) /\ label[t] = "record" /\ label'[t] = "remove" /\ batch'[t] \in {0, batch[t]}
        BY <1>1, <2>9 DEF Record, Goto, StoreTypeOK, taskVars
    <3> HIDE DEF V
    <3> QED BY <2>6, <3>2, <3>3, <3>4
  <2>10. CASE Remove(t)
    <3> DEFINE V == [work EXCEPT !.queue = @ \ {op[t]}]
    <3>1. op[t] \in Ops
        BY <1>1, <2>10 DEF Remove, Fitting, AboutChange, Autocommitted
    <3>2. V \in Contents
        BY <1>1, <3>1, Written
    <3>3. V.landed = work.landed /\ V.checkpoint = work.checkpoint
        BY <1>2 DEF Contents
    <3>4. Exec(V) /\ label[t] = "remove" /\ label'[t] = "idle" /\ batch'[t] \in {0, batch[t]}
        BY <1>1, <2>10 DEF Remove, End, Goto, StoreTypeOK, taskVars
    <3> HIDE DEF V
    <3> QED BY <2>6, <3>2, <3>3, <3>4
  <2>11. CASE Settle(t)
    <3> DEFINE V == [work EXCEPT !.queue = @ \ {op[t]},
                                 !.done = @ \cup {op[t][1]}]
    <3>1. op[t] \in Ops
        BY <1>1, <2>11 DEF Settle, Fitting, AboutChange, Autocommitted
    <3>2. V \in Contents
        BY <1>1, <3>1, Written
    <3>3. V.landed = work.landed /\ V.checkpoint = work.checkpoint
        BY <1>2 DEF Contents
    <3>4. Exec(V) /\ label[t] = "settle" /\ label'[t] = "idle" /\ batch'[t] \in {0, batch[t]}
        BY <1>1, <2>11 DEF Settle, End, Goto, StoreTypeOK, taskVars
    <3> HIDE DEF V
    <3> QED BY <2>6, <3>2, <3>3, <3>4
  <2>12. CASE Mark(t)
    <3> DEFINE V == [work EXCEPT !.inbox = @ \ {op[t]}]
    <3>1. op[t] \in Ops
        BY <1>1, <2>12 DEF Mark, Fitting, AboutChange, Autocommitted
    <3>2. V \in Contents
        BY <1>1, <3>1, Written
    <3>3. V.landed = work.landed /\ V.checkpoint = work.checkpoint
        BY <1>2 DEF Contents
    <3>4. Exec(V) /\ label[t] = "mark" /\ label'[t] = "idle" /\ batch'[t] \in {0, batch[t]}
        BY <1>1, <2>12 DEF Mark, End, Goto, StoreTypeOK, taskVars
    <3> HIDE DEF V
    <3> QED BY <2>6, <3>2, <3>3, <3>4
  <2>13. CASE QueueAgain(t)
    <3> DEFINE V == [work EXCEPT !.queue = @ \cup {<<op[t][1], op[t][2] + 1>>}]
    <3>1. <<op[t][1], op[t][2] + 1>> \in Ops
        BY <1>1, <2>13 DEF QueueAgain, Fitting, AboutChange, Autocommitted, Ops
    <3>2. V \in Contents
        BY <1>1, <3>1, Written
    <3>3. V.landed = work.landed /\ V.checkpoint = work.checkpoint
        BY <1>2 DEF Contents
    <3>4. Exec(V) /\ label[t] = "again" /\ label'[t] = "mark" /\ batch'[t] \in {0, batch[t]}
        BY <1>1, <2>13 DEF QueueAgain, Goto, StoreTypeOK, taskVars
    <3> HIDE DEF V
    <3> QED BY <2>6, <3>2, <3>3, <3>4
  <2>14. CASE Rewrite(t)
    <3> DEFINE V == [work EXCEPT !.row[op[t][1]] = "server",
                                 !.done = @ \cup {op[t][1]}]
    <3>1. op[t][1] \in Changes
        BY <1>1, <2>14 DEF Rewrite, Fitting, AboutChange, Autocommitted, Ops
    <3>2. V \in Contents
        BY <1>1, <3>1, Written
    <3>3. V.landed = work.landed /\ V.checkpoint = work.checkpoint
        BY <1>2 DEF Contents
    <3>4. Exec(V) /\ label[t] = "rewrite" /\ label'[t] = "mark" /\ batch'[t] \in {0, batch[t]}
        BY <1>1, <2>14 DEF Rewrite, Goto, StoreTypeOK, taskVars
    <3> HIDE DEF V
    <3> QED BY <2>6, <3>2, <3>3, <3>4
  <2>15. CASE WritePage(t)
    <3>1. PICK r \in left[t] :
             /\ Exec([work EXCEPT !.landed = @ \cup {<<batch[t], r>>}])
             /\ left' = [left EXCEPT ![t] = @ \ {r}]
        BY <2>15 DEF WritePage
    <3>2. open /\ label[t] = "page" /\ UNCHANGED <<label, op, batch>>
        BY <1>1, <2>15 DEF WritePage, Exclusive, InTransaction
    <3>3. /\ disk' = disk /\ work'.checkpoint = work.checkpoint
          /\ work'.landed = work.landed \cup {<<batch[t], r>>}
        BY <1>2, <3>1, <3>2 DEF Exec, Contents
    <3>4. left'[t] = left[t] \ {r}
        BY <1>1, <3>1 DEF StoreTypeOK
    <3>5. /\ \A p : Landed(disk', p) = Landed(disk, p)
          /\ \A p : Landed(work, p) => Landed(work', p)
          /\ Committing' <=> Committing
        BY <3>2, <3>3 DEF Landed, Committing
    <3>6. ASSUME NEW u \in Tasks, label[u] = "page"
          PROVE  \A q \in Rows \ left'[u] : <<batch[u], q>> \in work'.landed
      <4>1. u = t
          BY <1>1, <3>2, <3>6 DEF Exclusive, InTransaction
      <4> QED BY <3>3, <3>4, <3>6, <4>1 DEF StorePullInv
    <3>7. \A u \in Tasks :
             /\ label[u] = "begin" /\ batch[u] > 0 => left'[u] = Rows
             /\ label[u] = "commit" /\ batch[u] > 0 => Landed(work, batch[u])
        BY <2>1, <3>2 DEF StorePullInv
    <3> QED BY <3>2, <3>3, <3>5, <3>6, <3>7 DEF StorePullInv
  <2>16. CASE SetCheckpoint(t)
    <3>1. open /\ label[t] = "page" /\ left[t] = {} /\ batch[t] \in Nat
        BY <1>1, <2>16 DEF SetCheckpoint, Exclusive, InTransaction, StoreTypeOK
    <3>2. /\ disk' = disk /\ work'.landed = work.landed
          /\ work'.checkpoint = batch[t] /\ UNCHANGED <<batch, left>>
        BY <1>2, <2>16, <3>1 DEF SetCheckpoint, Exec, Contents, taskVars
    <3>3. /\ label'[t] = "commit"
          /\ \A u \in Tasks : label'[u] = "begin" => label[u] = "begin"
          /\ \A u \in Tasks : label'[u] = "page" => label[u] = "page"
          /\ \A u \in Tasks : label'[u] = "commit" => u = t \/ label[u] = "commit"
        BY <1>1, <2>16 DEF SetCheckpoint, Goto, StoreTypeOK
    <3>4. \A p : Landed(disk', p) = Landed(disk, p) /\ Landed(work', p) = Landed(work, p)
        BY <3>2 DEF Landed
    <3>5. Committing'
        BY <3>3 DEF Committing
    <3>6. Landed(work, batch[t])
        BY <3>1 DEF StorePullInv, Landed
    <3>7. \A p \in 1..batch[t] : Landed(work, p)
      <4>1. \A p \in 1..batch[t] : p = batch[t] \/ p \in 1..(batch[t] - 1)
          BY <3>1
      <4> QED BY <3>6, <4>1 DEF StorePullInv
    <3>8. ASSUME NEW u \in Tasks
          PROVE  /\ label'[u] = "begin" /\ batch[u] > 0 => left[u] = Rows
                 /\ label'[u] = "commit" /\ batch[u] > 0 => Landed(work, batch[u])
                 /\ label'[u] = "page" =>
                      \A r \in Rows \ left[u] : <<batch[u], r>> \in work.landed
      <4>1. label'[u] = "commit" /\ batch[u] > 0 => Landed(work, batch[u])
          BY <3>3, <3>6 DEF StorePullInv
      <4> QED BY <3>3, <4>1 DEF StorePullInv
    <3>9. \A u \in Tasks : \A p \in 1..(batch[u] - 1) : Landed(work, p)
        BY DEF StorePullInv
    <3> QED BY <3>2, <3>4, <3>5, <3>7, <3>8, <3>9 DEF StorePullInv
  <2> QED BY <1>6, <2>2, <2>3, <2>4, <2>5, <2>7, <2>8, <2>9, <2>10, <2>11, <2>12,
          <2>13, <2>14, <2>15, <2>16 DEF Step
<1> QED BY <1>3, <1>4, <1>5, <1>6 DEF StoreNext

(* If COMMIT does not throw, no page behind the checkpoint lacks a row,    *)
(* even with pulls that overlap each other and the statements of others.   *)
THEOREM CheckpointHolds == ~CommitMayFail => (StoreSpec => []CheckpointNotAhead)
<1> SUFFICES ASSUME ~CommitMayFail PROVE StoreSpec => []CheckpointNotAhead
    OBVIOUS
<1>1. StoreInit => StorePullInv
    BY DEF StoreInit, StorePullInv, Landed
<1>2. StoreInv /\ StorePullInv /\ [StoreNext]_storeVars => StorePullInv'
    BY PullNext
<1>3. StorePullInv => CheckpointNotAhead
    BY DEF StorePullInv, Landed, CheckpointNotAhead
<1> QED BY <1>1, <1>2, <1>3, StoreInvHolds, PTL DEF StoreSpec
=============================================================================
