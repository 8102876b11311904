------------------------ MODULE SyncSession_proofs ------------------------
(* What holds of the outbox for any number of runs, records, changes and   *)
(* faults, and whatever is discarded, retried and resolved.                *)
EXTENDS SyncSession, WellFoundedInduction, TLAPS

USE SessionAssumption

Kinds == {"create", "update", "delete"}
OpRecs == [rec : Recs, kind : Kinds, base : Nat \cup {Device}]
Answers == [op : Ops, seen : Rows, status : {"applied", "conflict", "rejected"}]
PageOK(p) ==
    /\ DOMAIN p.rows \subseteq Recs /\ p.upTo \in Nat
    /\ \A rec \in DOMAIN p.rows : p.rows[rec] \in Rows /\ p.rows[rec].there

(* The types, and those of the locals of a run.                            *)
Typed ==
    /\ TypeOK
    /\ log \in Seq(OpRecs)
    /\ sent \in [Runs -> SUBSET Ops] /\ answers \in [Runs -> SUBSET Answers]
    /\ DOMAIN page = Runs /\ \A r \in Runs : PageOK(page[r])

(* A record the server has is one of the device, too, and so is what it    *)
(* has changed: nothing is created twice.                                  *)
Known ==
    /\ \A rec \in Recs :
          /\ server[rec].at <= clock
          /\ server[rec].at > 0 => server[rec].there
          /\ server[rec].gone => server[rec].there
          /\ server[rec].there => row[rec].there
    /\ \A o \in Ops : row[log[o].rec].there
    /\ \A c \in inbox : c.seen.there
    /\ \A r \in Runs : \A a \in answers[r] : a.status = "conflict" => a.seen.there

Created ==
    /\ \A o \in Ops : log[o].kind = "create" /\ server[log[o].rec].there => o \in ledger
    /\ \A o, p \in Ops :
          log[o].kind = "create" /\ log[p].kind = "create" /\ SameRec(o, p) => o = p

(* The server has what it says it has, and a conflict is in the inbox      *)
(* before its op may leave the queue.                                      *)
Safe(o) == o \in ledger \/ (log[o].kind = "delete" /\ server[log[o].rec].gone)
InInbox(o) == \E c \in inbox : c.op = o
Truthful == \A r \in Runs : \A a \in answers[r] : a.status = "applied" => Safe(a.op)
Recorded == \A r \in Runs : pc[r] = "settle" =>
    \A a \in answers[r] : a.status = "conflict" => InInbox(a.op)
Kept == \A o \in Ops : o \in queue \cup discarded \/ Safe(o) \/ InInbox(o)

Inv == Typed /\ Known /\ Created /\ Truthful /\ Recorded /\ Kept
-----------------------------------------------------------------------------
(* The first of a set of ops, and the last of a set of versions.           *)
LEMMA LeastElement ==
    ASSUME NEW S \in SUBSET Nat, S # {}
    PROVE  \E x \in S : \A y \in S : x <= y
<1>1. \E x \in S : \A y \in S : <<y, x>> \notin OpToRel(<, Nat)
    BY WFMin, NatLessThanWellFounded, Zenon
<1>2. \A x, y \in S : <<y, x>> \notin OpToRel(<, Nat) => x <= y
    BY DEF OpToRel
<1> QED BY <1>1, <1>2

LEMMA MinIsMember ==
    ASSUME NEW S \in SUBSET Nat, S # {}
    PROVE  Min(S) \in S /\ \A x \in S : Min(S) <= x
BY LeastElement DEF Min

LEMMA MaxIsMember ==
    ASSUME NEW n \in Nat, NEW S \in SUBSET 0..n, S # {}
    PROVE  Max(S) \in S /\ \A x \in S : x <= Max(S)
<1> DEFINE T == {n - x : x \in S}
<1>1. T \in SUBSET Nat /\ T # {}
  <2>1. \A x \in S : n - x \in Nat
      OBVIOUS
  <2>2. PICK x \in S : TRUE
      OBVIOUS
  <2>3. n - x \in T
      OBVIOUS
  <2> QED BY <2>1, <2>3
<1>2. PICK y \in T : \A z \in T : y <= z
    BY <1>1, LeastElement
<1>3. PICK x \in S : y = n - x
    BY <1>2
<1>4. \A z \in S : x >= z
  <2> SUFFICES ASSUME NEW z \in S PROVE x >= z
      OBVIOUS
  <2>1. n - z \in T
      OBVIOUS
  <2>2. n - x <= n - z
      BY <1>2, <1>3, <2>1
  <2> QED BY <2>2
<1> QED BY <1>4 DEF Max

(* A change is appended to the log, which keeps what it has.               *)
LEMMA Enqueued ==
    ASSUME Typed, NEW rec \in Recs, NEW kind \in Kinds, NEW base \in Nat \cup {Device},
           Enqueue(rec, kind, base)
    PROVE  /\ log' \in Seq(OpRecs) /\ Len(log') = Len(log) + 1 /\ Len(log') \notin Ops
           /\ Ops' = Ops \cup {Len(log')}
           /\ \A o \in Ops : log'[o] = log[o]
           /\ log'[Len(log')] = [rec |-> rec, kind |-> kind, base |-> base]
           /\ queue' = queue \cup {Len(log')}
           /\ failed' = failed /\ waiting' = waiting
<1> DEFINE e == [rec |-> rec, kind |-> kind, base |-> base]
<1>1. e \in OpRecs /\ log \in Seq(OpRecs)
    BY DEF OpRecs, Typed
<1>2. /\ log' = Append(log, e) /\ queue' = queue \cup {Len(log')}
      /\ failed' = failed /\ waiting' = waiting
    BY DEF Enqueue
<1> HIDE DEF e
<1>3. log' \in Seq(OpRecs) /\ Len(log') = Len(log) + 1 /\ log'[Len(log) + 1] = e
    BY <1>1, <1>2
<1>4. \A o \in Ops : log'[o] = log[o]
    BY <1>1, <1>2 DEF Ops
<1>5. Ops' = Ops \cup {Len(log')} /\ Len(log') \notin Ops
    BY <1>1, <1>3 DEF Ops
<1> QED BY <1>2, <1>3, <1>4, <1>5 DEF e

(* What the server says of the first op of a request, and what it makes of *)
(* the record: the op itself, a version moved for nothing, or nothing.     *)
AnswerOf(o, status) ==
    [op |-> o, status |-> status,
     seen |-> IF status = "conflict" THEN server[log[o].rec] ELSE None]
Written(o) == [there |-> TRUE, gone |-> log[o].kind = "delete", at |-> clock + 1, by |-> o]
Landing(o, status) ==
    /\ status = "applied" /\ Judge(o) = "lands" /\ o \notin ledger
    /\ clock' = clock + 1 /\ ledger' = ledger \cup {o}
    /\ server' = [server EXCEPT ![log[o].rec] = Written(o)]
Moving(o, status) ==
    /\ status = "rejected" /\ Judge(o) = "lands" /\ log[o].kind = "update"
    /\ clock' = clock + 1 /\ ledger' = ledger
    /\ server' = [server EXCEPT ![log[o].rec].at = clock + 1]
Telling(o, status) ==
    /\ UNCHANGED <<server, ledger, clock>>
    /\ status = "applied" => o \in ledger \/ Judge(o) = "applied"
    /\ status = "conflict" => Judge(o) = "conflict"
    /\ status = "rejected" => Judge(o) = "rejected" \/ o \in erred' \cup bad'
Served(r, o, status) ==
    /\ sent' = [sent EXCEPT ![r] = @ \ {o}]
    /\ answers' = [answers EXCEPT ![r] = @ \cup {AnswerOf(o, status)}]
    /\ status \in {"applied", "rejected", "conflict"}
    /\ erred \subseteq erred' /\ bad \subseteq bad' /\ bad' \subseteq bad \cup {o}
    /\ cap' = cap
    /\ Landing(o, status) \/ Moving(o, status) \/ Telling(o, status)

LEMMA ServeCases ==
    ASSUME Typed, NEW r \in Runs, Serve(r)
    PROVE  \E o \in Ops : \E status :
              o \in sent[r] /\ (\A p \in sent[r] : o <= p) /\ Served(r, o, status)
<1> DEFINE o == Min(sent[r])
<1>1. sent[r] \in SUBSET Nat /\ sent[r] # {} /\ sent[r] \subseteq Ops
    BY DEF Typed, Serve, Ops
<1>2. o \in sent[r] /\ o \in Ops /\ \A p \in sent[r] : o <= p
    BY <1>1, MinIsMember
<1>3. ServeOp(r, o)
    BY DEF Serve
<1> HIDE DEF o
<1>4. Judge(o) \in {"lands", "applied", "rejected", "conflict"}
    BY DEF Judge
<1>5. Verdict(o) = IF o \in ledger THEN "applied" ELSE Judge(o)
    BY DEF Verdict
<1>6. sent' = [sent EXCEPT ![r] = @ \ {o}]
    BY <1>3 DEF ServeOp
<1>7. CASE Verdict(o) = "lands" /\ Lands(o) /\ Answer(r, o, "applied") /\ erred' = erred
  <2>1. /\ answers' = [answers EXCEPT ![r] = @ \cup {AnswerOf(o, "applied")}]
        /\ bad' = bad /\ cap' = cap
      BY <1>7 DEF Lands, Answer, AnswerOf
  <2>2. Landing(o, "applied")
      BY <1>5, <1>7 DEF Lands, Landing, Written
  <2>3. Served(r, o, "applied")
      BY <1>6, <1>7, <2>1, <2>2 DEF Served
  <2> QED BY <1>2, <2>3
<1>8. CASE Verdict(o) = "lands" /\ Refuses(o) /\ Answer(r, o, "rejected") /\ erred' = erred
  <2>1. /\ answers' = [answers EXCEPT ![r] = @ \cup {AnswerOf(o, "rejected")}]
        /\ bad \subseteq bad' /\ bad' \subseteq bad \cup {o} /\ cap' = cap
      BY <1>8 DEF Refuses, Answer, AnswerOf
  <2>2. Moving(o, "rejected") \/ Telling(o, "rejected")
    <3>1. CASE log[o].kind = "update"
        BY <1>5, <1>8, <3>1 DEF Refuses, Moving
    <3>2. CASE log[o].kind # "update"
        BY <1>8, <3>2 DEF Refuses, Telling
    <3> QED BY <3>1, <3>2
  <2>3. Served(r, o, "rejected")
      BY <1>6, <1>8, <2>1, <2>2 DEF Served
  <2> QED BY <1>2, <2>3
<1>9. CASE /\ Verdict(o) # "lands" /\ Answer(r, o, Verdict(o))
           /\ UNCHANGED serverVars /\ erred' = erred
  <2>1. /\ answers' = [answers EXCEPT ![r] = @ \cup {AnswerOf(o, Verdict(o))}]
        /\ bad' = bad /\ cap' = cap
      BY <1>9 DEF Answer, AnswerOf, serverVars
  <2>2. Telling(o, Verdict(o))
      BY <1>4, <1>5, <1>9 DEF Telling, serverVars
  <2>3. Served(r, o, Verdict(o))
      BY <1>4, <1>5, <1>6, <1>9, <2>1, <2>2 DEF Served
  <2> QED BY <1>2, <2>3
<1>10. CASE /\ Answer(r, o, "rejected") /\ UNCHANGED serverVars
            /\ erred' = erred \cup {o}
  <2>1. /\ answers' = [answers EXCEPT ![r] = @ \cup {AnswerOf(o, "rejected")}]
        /\ bad' = bad /\ cap' = cap
      BY <1>10 DEF Answer, AnswerOf, serverVars
  <2>2. Telling(o, "rejected")
      BY <1>10 DEF Telling, serverVars
  <2>3. Served(r, o, "rejected")
      BY <1>6, <1>10, <2>1, <2>2 DEF Served
  <2> QED BY <1>2, <2>3
<1> QED BY <1>3, <1>7, <1>8, <1>9, <1>10 DEF ServeOp
-----------------------------------------------------------------------------
LEMMA InitOK == Init => Inv
<1> SUFFICES ASSUME Init PROVE Inv
    OBVIOUS
<1>1. Ops = {}
    BY DEF Init, Ops
<1> DEFINE Some == [None EXCEPT !.there = TRUE]
<1>a. /\ None \in Rows /\ None.at = 0 /\ ~None.gone
      /\ Some \in Rows /\ Some.at = 0 /\ ~Some.gone
    BY DEF None, Rows, Others
<1>b. server \in [Recs -> {None, Some}]
    BY DEF Init
<1> HIDE DEF Some
<1>2. server \in [Recs -> Rows] /\ \A rec \in Recs : server[rec].at = 0 /\ ~server[rec].gone
    BY <1>a, <1>b
<1>3. TypeOK
    BY <1>1, <1>2 DEF Init, TypeOK
<1>4. PageOK(NoPage)
    BY DEF PageOK, NoPage
<1>5. Typed
    BY <1>3, <1>4 DEF Init, Typed
<1> QED BY <1>1, <1>2, <1>5 DEF Init, Inv, Known, Created, Truthful, Recorded, Kept

-----------------------------------------------------------------------------
(* What the server has it keeps, and a deleted record stays deleted.       *)
LEMMA SafeStays ==
    ASSUME \A o \in Ops : log'[o] = log[o],
           ledger \subseteq ledger',
           \A rec \in Recs : server[rec].gone => server'[rec].gone,
           Typed, NEW o \in Ops, Safe(o)
    PROVE  Safe(o)'
<1>1. log[o].rec \in Recs
    BY DEF Typed, TypeOK
<1> QED BY <1>1 DEF Safe

(* A step of the device alone, which captures nothing: no record of it     *)
(* vanishes, no answer is made up, and an op leaves the queue for a reason.*)
LEMMA Quiet ==
    ASSUME Inv, Typed', UNCHANGED <<server, ledger, clock, cap, bad, log>>,
           \A rec \in Recs : row[rec].there => row'[rec].there,
           \A r \in Runs : answers'[r] \subseteq answers[r],
           \A c \in inbox' : c.seen.there,
           \A c \in inbox : \E d \in inbox' : d.op = c.op,
           \A r \in Runs : pc'[r] = "settle" => \A a \in answers'[r] :
                a.status = "conflict" => pc[r] = "settle" \/ InInbox(a.op)',
           \A o \in Ops : o \in queue \cup discarded =>
                o \in queue' \cup discarded' \/ Safe(o) \/ InInbox(o)
    PROVE  Inv'
<1>1. Ops' = Ops
    BY DEF Ops
<1>2. \A o \in Ops : log[o].rec \in Recs
    BY DEF Inv, Typed, TypeOK
<1>3. \A o : InInbox(o) => InInbox(o)'
    BY DEF InInbox
<1>4. \A o : Safe(o) => Safe(o)'
    BY DEF Safe
<1>5. Known'
    BY <1>1, <1>2 DEF Inv, Known
<1>6. Created'
    BY <1>1 DEF Inv, Created, SameRec
<1>7. Truthful'
    BY <1>4 DEF Inv, Truthful
<1>8. Recorded'
    BY <1>3 DEF Inv, Recorded
<1>9. Kept'
    BY <1>1, <1>3, <1>4 DEF Inv, Kept
<1> QED BY <1>5, <1>6, <1>7, <1>8, <1>9 DEF Inv

(* A change is captured: what is created is new.                           *)
LEMMA Captured ==
    ASSUME Inv, Typed', NEW rec \in Recs, NEW kind \in Kinds, NEW base \in Nat \cup {Device},
           Enqueue(rec, kind, base),
           UNCHANGED <<server, ledger, clock, cap, bad, answers, pc, discarded>>,
           \A x \in Recs : row[x].there => row'[x].there,
           row'[rec].there, kind = "create" => ~row[rec].there,
           \A c \in inbox' : c.seen.there,
           \A c \in inbox : \E d \in inbox' : d.op = c.op
    PROVE  Inv'
<1> DEFINE n == Len(log')
<1>1. /\ n \notin Ops /\ Ops' = Ops \cup {n} /\ \A o \in Ops : log'[o] = log[o]
      /\ log'[n] = [rec |-> rec, kind |-> kind, base |-> base]
      /\ queue' = queue \cup {n}
    BY Enqueued DEF Inv
<1> HIDE DEF n
<1>2. \A o \in Ops : log[o].rec \in Recs
    BY DEF Inv, Typed, TypeOK
<1>3. \A o : InInbox(o) => InInbox(o)'
    BY DEF InInbox
<1>4. \A o \in Ops : Safe(o) => Safe(o)'
    BY <1>1 DEF Safe
<1>5. Known'
  <2>1. \A o \in Ops' : row'[log'[o].rec].there
      BY <1>1, <1>2 DEF Inv, Known
  <2> QED BY <2>1 DEF Inv, Known
<1>6. Created'
  <2>1. kind = "create" =>
            ~server[rec].there /\ \A o \in Ops : log[o].rec # rec
      BY DEF Inv, Known
  <2>2. \A o \in Ops' : log'[o].kind = "create" /\ server'[log'[o].rec].there => o \in ledger'
      BY <1>1, <2>1 DEF Inv, Created
  <2>3. \A o, p \in Ops' : log'[o].kind = "create" /\ log'[p].kind = "create"
                              /\ log'[o].rec = log'[p].rec => o = p
      BY <1>1, <2>1 DEF Inv, Created, SameRec
  <2> QED BY <2>2, <2>3 DEF Created, SameRec
<1>7. Truthful'
  <2>1. \A r \in Runs : \A a \in answers[r] : a.op \in Ops
      BY DEF Inv, Typed, Answers
  <2> QED BY <1>4, <2>1 DEF Inv, Truthful
<1>8. Recorded'
    BY <1>3 DEF Inv, Recorded
<1>9. Kept'
    BY <1>1, <1>3, <1>4 DEF Inv, Kept
<1> QED BY <1>5, <1>6, <1>7, <1>8, <1>9 DEF Inv

(* The server serves an op: what it applies is new to it and does not      *)
(* bring a deleted record back.                                            *)
LEMMA ServedKeeps ==
    ASSUME Inv, Typed', NEW r \in Runs, NEW o \in Ops, NEW status, Served(r, o, status),
           UNCHANGED <<row, log, inbox, queue, discarded, pc>>, pc[r] # "settle"
    PROVE  Inv'
<1> DEFINE x == log[o].rec
           a == AnswerOf(o, status)
<1>1. /\ Ops' = Ops /\ x \in Recs /\ \A p \in Ops : log[p].rec \in Recs
      /\ log[o].kind \in Kinds
    BY DEF Ops, Inv, Typed, TypeOK, Kinds
<1>2. answers' = [answers EXCEPT ![r] = @ \cup {a}]
    BY DEF Served
<1>a. a.op = o /\ a.status = status /\ (status = "conflict" => a.seen = server[x])
    BY DEF AnswerOf
<1>b. answers \in [Runs -> SUBSET Answers] /\ server \in [Recs -> Rows] /\ clock \in Nat
    BY DEF Inv, Typed, TypeOK
<1>3. /\ \A s \in Runs : \A b \in answers'[s] : b \in answers[s] \/ (s = r /\ b = a)
      /\ \A s \in Runs : s # r => answers'[s] = answers[s]
    BY <1>2, <1>b
<1> HIDE DEF a
<1>c. Judge(o) = IF log[o].kind = "create"
        THEN IF server[x].there THEN IF server[x].gone THEN "rejected" ELSE "applied"
             ELSE IF o \in bad THEN "rejected" ELSE "lands"
        ELSE IF ~server[x].there THEN "rejected"
        ELSE IF log[o].kind = "update"
        THEN IF server[x].gone \/ server[x].at # log[o].base THEN "conflict" ELSE "lands"
        ELSE IF server[x].gone THEN IF DeletesOnce THEN "rejected" ELSE "applied"
        ELSE IF o \in bad THEN "rejected" ELSE "lands"
    BY DEF Judge
<1> HIDE DEF x
<1>4. CASE /\ status = "applied" /\ Judge(o) = "lands" /\ o \notin ledger
           /\ clock' = clock + 1 /\ ledger' = ledger \cup {o}
           /\ server' = [server EXCEPT ![x] = Written(o)]
  <2>1. /\ \A rec \in Recs : rec # x => server'[rec] = server[rec]
        /\ server'[x].there /\ server'[x].gone = (log[o].kind = "delete")
        /\ server'[x].at = clock + 1
      BY <1>4, <1>1, <1>b DEF Written
  <2>2. \A rec \in Recs : server[rec].gone => server'[rec].gone
    <3>1. server[x].gone => log[o].kind = "delete"
        BY <1>1, <1>4, <1>c DEF Inv, Known
    <3> QED BY <2>1, <3>1
  <2>3. row[x].there
      BY DEF Inv, Known, x
  <2>4. \A p \in Ops : Safe(p) => Safe(p)'
      BY <2>2, SafeStays, <1>4 DEF Inv
  <2>5. Known'
    <3>1. \A rec \in Recs :
            /\ server'[rec].at <= clock'
            /\ server'[rec].at > 0 => server'[rec].there
            /\ server'[rec].gone => server'[rec].there
            /\ server'[rec].there => row'[rec].there
      <4> SUFFICES ASSUME NEW rec \in Recs
                   PROVE  /\ server'[rec].at <= clock'
                          /\ server'[rec].at > 0 => server'[rec].there
                          /\ server'[rec].gone => server'[rec].there
                          /\ server'[rec].there => row'[rec].there
          OBVIOUS
      <4>1. CASE rec = x
          BY <1>4, <1>b, <2>1, <2>3, <4>1
      <4>2. CASE rec # x
        <5>1. server[rec].at <= clock /\ server[rec].at \in Nat \cup {Device}
            BY <1>b DEF Inv, Known, Rows
        <5> QED BY <1>4, <1>b, <2>1, <4>2, <5>1 DEF Inv, Known, Device
      <4> QED BY <4>1, <4>2
    <3>2. \A s \in Runs : \A b \in answers'[s] : b.status = "conflict" => b.seen.there
        BY <1>3, <1>a, <1>4 DEF Inv, Known
    <3> QED BY <1>1, <3>1, <3>2 DEF Inv, Known
  <2>6. Created'
    <3>1. \A p \in Ops : log[p].kind = "create" /\ server'[log[p].rec].there => p \in ledger'
      <4> SUFFICES ASSUME NEW p \in Ops, log[p].kind = "create", server'[log[p].rec].there
                   PROVE  p \in ledger'
          OBVIOUS
      <4>1. CASE log[p].rec = x /\ ~server[x].there
        <5>1. log[o].kind = "create"
            BY <1>4, <1>c, <4>1
        <5>2. p = o
            BY <4>1, <5>1 DEF Inv, Created, SameRec, x
        <5> QED BY <5>2, <1>4
      <4>2. CASE log[p].rec = x /\ server[x].there
          BY <4>2, <1>4 DEF Inv, Created
      <4>3. CASE log[p].rec # x
          BY <4>3, <1>1, <1>4, <2>1 DEF Inv, Created
      <4> QED BY <4>1, <4>2, <4>3
    <3> QED BY <1>1, <3>1 DEF Inv, Created, SameRec
  <2>7. Truthful'
    <3>1. Safe(o)'
        BY <1>4 DEF Safe
    <3>2. \A s \in Runs : \A b \in answers[s] : b.op \in Ops
        BY <1>b DEF Answers
    <3> QED BY <1>3, <1>a, <2>4, <3>1, <3>2 DEF Inv, Truthful
  <2>8. Recorded'
      BY <1>3 DEF Inv, Recorded, InInbox
  <2>9. Kept'
      BY <1>1, <2>4 DEF Inv, Kept, InInbox
  <2> QED BY <2>5, <2>6, <2>7, <2>8, <2>9 DEF Inv
<1>5. CASE /\ UNCHANGED <<server, ledger, clock>>
           /\ status = "applied" => o \in ledger \/ Judge(o) = "applied"
           /\ status = "conflict" => Judge(o) = "conflict"
  <2>0. server' = server /\ ledger' = ledger /\ clock' = clock
      BY <1>5
  <2>1. \A p : Safe(p) => Safe(p)'
      BY <2>0 DEF Safe
  <2>2. status = "applied" => Safe(o)
    <3>1. CASE o \in ledger
        BY <3>1 DEF Safe
    <3>2. CASE Judge(o) = "applied" /\ log[o].kind = "create"
        BY <3>2, <1>c DEF Inv, Created, Safe, x
    <3>3. CASE Judge(o) = "applied" /\ log[o].kind # "create"
        BY <3>3, <1>1, <1>c DEF Safe, x, Kinds
    <3> QED BY <3>1, <3>2, <3>3, <1>5
  <2>3. status = "conflict" => server[x].there
      BY <1>5, <1>c
  <2>4. Known'
    <3>1. \A s \in Runs : \A b \in answers'[s] : b.status = "conflict" => b.seen.there
        BY <1>3, <1>a, <2>3 DEF Inv, Known
    <3> QED BY <1>1, <2>0, <3>1 DEF Inv, Known
  <2>5. Created'
      BY <1>1, <2>0 DEF Inv, Created, SameRec
  <2>6. Truthful'
      BY <1>3, <1>a, <2>1, <2>2 DEF Inv, Truthful
  <2>7. Recorded'
      BY <1>3 DEF Inv, Recorded, InInbox
  <2>8. Kept'
      BY <1>1, <2>1 DEF Inv, Kept, InInbox
  <2> QED BY <2>4, <2>5, <2>6, <2>7, <2>8 DEF Inv
<1>6. CASE /\ status = "rejected" /\ Judge(o) = "lands" /\ log[o].kind = "update"
           /\ clock' = clock + 1 /\ ledger' = ledger
           /\ server' = [server EXCEPT ![x].at = clock + 1]
  <2>1. /\ \A rec \in Recs : rec # x => server'[rec] = server[rec]
        /\ server'[x].there = server[x].there /\ server'[x].gone = server[x].gone
        /\ server'[x].at = clock + 1
    <3> DEFINE new == [server[x] EXCEPT !.at = clock + 1]
    <3>1. server' = [server EXCEPT ![x] = new] /\ server[x] \in Rows
        BY <1>6, <1>1, <1>b
    <3>2. new.there = server[x].there /\ new.gone = server[x].gone /\ new.at = clock + 1
        BY <3>1 DEF Rows
    <3> HIDE DEF new
    <3> QED BY <1>1, <1>b, <3>1, <3>2
  <2>2. server[x].there
      BY <1>6, <1>c
  <2>3. row[x].there
      BY DEF Inv, Known, x
  <2>4. \A p \in Ops : Safe(p) => Safe(p)'
      BY <1>1, <1>6, <2>1 DEF Safe
  <2>5. Known'
    <3>1. \A rec \in Recs :
            /\ server'[rec].at <= clock'
            /\ server'[rec].at > 0 => server'[rec].there
            /\ server'[rec].gone => server'[rec].there
            /\ server'[rec].there => row'[rec].there
      <4> SUFFICES ASSUME NEW rec \in Recs
                   PROVE  /\ server'[rec].at <= clock'
                          /\ server'[rec].at > 0 => server'[rec].there
                          /\ server'[rec].gone => server'[rec].there
                          /\ server'[rec].there => row'[rec].there
          OBVIOUS
      <4>1. CASE rec = x
          BY <1>6, <1>b, <2>1, <2>2, <2>3, <4>1
      <4>2. CASE rec # x
        <5>1. server[rec].at <= clock /\ server[rec].at \in Nat \cup {Device}
            BY <1>b DEF Inv, Known, Rows
        <5> QED BY <1>6, <1>b, <2>1, <4>2, <5>1 DEF Inv, Known, Device
      <4> QED BY <4>1, <4>2
    <3>2. \A s \in Runs : \A b \in answers'[s] : b.status = "conflict" => b.seen.there
        BY <1>3, <1>a, <1>6 DEF Inv, Known
    <3> QED BY <1>1, <3>1, <3>2 DEF Inv, Known
  <2>6. Created'
      BY <1>1, <1>6, <2>1 DEF Inv, Created, SameRec
  <2>7. Truthful'
    <3>1. \A s \in Runs : \A b \in answers[s] : b.op \in Ops
        BY <1>b DEF Answers
    <3> QED BY <1>3, <1>6, <1>a, <2>4, <3>1 DEF Inv, Truthful
  <2>8. Recorded'
      BY <1>3 DEF Inv, Recorded, InInbox
  <2>9. Kept'
      BY <1>1, <2>4 DEF Inv, Kept, InInbox
  <2> QED BY <2>5, <2>6, <2>7, <2>8, <2>9 DEF Inv
<1> QED BY <1>4, <1>5, <1>6 DEF Served, Landing, Moving, Telling, x

(* Another device writes a record that is not deleted.                     *)
LEMMA RemoteKeeps ==
    ASSUME Inv, Typed', NEW rec \in Recs, Remote(rec)
    PROVE  Inv'
<1>1. PICK gone \in BOOLEAN : server' = [server EXCEPT ![rec] =
            [there |-> TRUE, gone |-> gone, at |-> clock', by |-> Others]]
    BY DEF Remote
<1>2. server \in [Recs -> Rows] /\ clock \in Nat /\ \A p \in Ops : log[p].rec \in Recs
    BY DEF Inv, Typed, TypeOK
<1>3. /\ \A x \in Recs : x # rec => server'[x] = server[x]
      /\ server'[rec].there /\ server'[rec].gone = gone /\ server'[rec].at = clock'
    BY <1>1, <1>2
<1>4. /\ clock' = clock + 1 /\ server[rec].there /\ ~server[rec].gone
      /\ UNCHANGED <<ledger, row, log, inbox, queue, discarded, pc, answers>>
    BY DEF Remote, Live, outboxVars, runVars
<1>5. Ops' = Ops
    BY <1>4 DEF Ops
<1>6. \A p \in Ops : Safe(p) => Safe(p)'
    BY <1>2, <1>3, <1>4 DEF Safe
<1>7. Known'
  <2>1. \A x \in Recs :
            /\ server'[x].at <= clock'
            /\ server'[x].at > 0 => server'[x].there
            /\ server'[x].gone => server'[x].there
            /\ server'[x].there => row'[x].there
    <3> SUFFICES ASSUME NEW x \in Recs
                 PROVE  /\ server'[x].at <= clock'
                        /\ server'[x].at > 0 => server'[x].there
                        /\ server'[x].gone => server'[x].there
                        /\ server'[x].there => row'[x].there
        OBVIOUS
    <3>1. CASE x = rec
        BY <1>2, <1>3, <1>4, <3>1 DEF Inv, Known
    <3>2. CASE x # rec
      <4>1. server[x].at <= clock /\ server[x].at \in Nat \cup {Device}
          BY <1>2 DEF Inv, Known, Rows
      <4> QED BY <1>2, <1>3, <1>4, <3>2, <4>1 DEF Inv, Known, Device
    <3> QED BY <3>1, <3>2
  <2> QED BY <1>4, <1>5, <2>1 DEF Inv, Known
<1>8. Created'
    BY <1>2, <1>3, <1>4, <1>5 DEF Inv, Created, SameRec
<1>9. Truthful'
  <2>1. \A s \in Runs : \A b \in answers[s] : b.op \in Ops
      BY DEF Inv, Typed, Answers
  <2> QED BY <1>4, <1>6, <2>1 DEF Inv, Truthful
<1>10. Recorded'
    BY <1>4 DEF Inv, Recorded, InInbox
<1>11. Kept'
    BY <1>4, <1>5, <1>6 DEF Inv, Kept, InInbox
<1> QED BY <1>7, <1>8, <1>9, <1>10, <1>11 DEF Inv

-----------------------------------------------------------------------------
(* The types, step by step.                                                *)
LEMMA SameTypes ==
    ASSUME Typed, UNCHANGED <<server, ledger, clock, cap, bad, row, log, inbox, checkpoint,
                              sent, answers, from, page>>,
           queue' \subseteq Ops, failed' \subseteq queue', waiting' \subseteq failed',
           discarded' \subseteq Ops,
           pc' \in [Runs -> {"idle", "sent", "orphan", "settle", "pull", "fetch", "apply"}]
    PROVE  Typed'
<1>1. Ops' = Ops /\ Answers' = Answers
    BY DEF Ops, Answers
<1>2. TypeOK'
    BY <1>1 DEF Typed, TypeOK
<1> QED BY <1>1, <1>2 DEF Typed, PageOK

LEMMA RunTypes ==
    ASSUME Typed, UNCHANGED <<server, ledger, clock, cap, bad, log, queue, failed,
                              waiting, discarded>>,
           row' \in [Recs -> Rows], checkpoint' \in Nat,
           inbox' \subseteq [op : Ops, seen : Rows, open : BOOLEAN],
           pc' \in [Runs -> {"idle", "sent", "orphan", "settle", "pull", "fetch", "apply"}],
           sent' \in [Runs -> SUBSET Ops], answers' \in [Runs -> SUBSET Answers],
           from' \in [Runs -> Nat],
           DOMAIN page' = Runs, \A r \in Runs : PageOK(page'[r])
    PROVE  Typed'
<1>1. Ops' = Ops /\ Answers' = Answers
    BY DEF Ops, Answers
<1>2. \A r \in Runs : \A a \in answers'[r] :
        a \in [op : Ops, seen : Rows, status : {"applied", "conflict", "rejected"}]
    BY DEF Answers
<1>3. TypeOK'
    BY <1>1, <1>2 DEF Typed, TypeOK
<1> QED BY <1>1, <1>3 DEF Typed, PageOK

LEMMA CaptureTypes ==
    ASSUME Typed, NEW rec \in Recs, NEW kind \in Kinds, NEW base \in Nat \cup {Device},
           Enqueue(rec, kind, base),
           UNCHANGED <<server, ledger, clock, cap, bad, checkpoint, pc, sent, answers,
                       from, page,
                       discarded>>,
           inbox' \subseteq [op : Ops, seen : Rows, open : BOOLEAN],
           row' \in [Recs -> Rows]
    PROVE  Typed'
<1> DEFINE n == Len(log')
           e == [rec |-> rec, kind |-> kind, base |-> base]
<1>1. /\ log' \in Seq(OpRecs) /\ Ops' = Ops \cup {n} /\ \A o \in Ops : log'[o] = log[o]
      /\ log'[n] = e
      /\ queue' = queue \cup {n} /\ failed' = failed /\ waiting' = waiting
    BY Enqueued
<1>2. e \in [rec : Recs, kind : {"create", "update", "delete"}, base : Nat \cup {Device}]
    BY DEF Kinds
<1> HIDE DEF n, e
<1>3. \A o \in Ops' : log'[o] \in [rec : Recs, kind : {"create", "update", "delete"},
                                   base : Nat \cup {Device}]
    BY <1>1, <1>2 DEF Typed, TypeOK
<1>4. /\ ledger' \subseteq Ops' /\ queue' \subseteq Ops' /\ discarded' \subseteq Ops'
      /\ bad' \subseteq Ops' /\ cap' \in Caps
      /\ failed' \subseteq queue' /\ waiting' \subseteq failed'
    BY <1>1 DEF Typed, TypeOK
<1>5. inbox' \subseteq [op : Ops', seen : Rows, open : BOOLEAN]
    BY <1>1
<1>6. /\ Answers \subseteq Answers'
      /\ \A a \in Answers : a \in [op : Ops', seen : Rows,
                                   status : {"applied", "conflict", "rejected"}]
    BY <1>1 DEF Answers
<1>7. sent' \in [Runs -> SUBSET (Ops')] /\ answers' \in [Runs -> SUBSET (Answers')]
    BY <1>1, <1>6 DEF Typed
<1>8. TypeOK'
  <2>1. \A r \in Runs : /\ sent'[r] \subseteq Ops'
                        /\ \A a \in answers'[r] :
                            a \in [op : Ops', seen : Rows,
                                   status : {"applied", "conflict", "rejected"}]
      BY <1>6, <1>7 DEF Typed
  <2> QED BY <1>3, <1>4, <1>5, <2>1 DEF Typed, TypeOK
<1> QED BY <1>1, <1>7, <1>8 DEF Typed, PageOK

LEMMA ServeTypes ==
    ASSUME Typed, NEW r \in Runs, NEW o \in Ops, NEW status, Served(r, o, status),
           UNCHANGED <<row, outboxVars, inbox, checkpoint, pc, from, page, discarded>>
    PROVE  Typed'
<1> DEFINE x == log[o].rec
           a == AnswerOf(o, status)
           new == Written(o)
           moved == [server[x] EXCEPT !.at = clock + 1]
<1>1. /\ Ops' = Ops /\ Answers' = Answers /\ x \in Recs
      /\ server \in [Recs -> Rows] /\ clock \in Nat /\ o \in Nat
      /\ answers \in [Runs -> SUBSET Answers] /\ sent \in [Runs -> SUBSET Ops]
    BY DEF Ops, Answers, Typed, TypeOK, outboxVars
<1>2. answers' = [answers EXCEPT ![r] = @ \cup {a}] /\ sent' = [sent EXCEPT ![r] = @ \ {o}]
    BY DEF Served
<1>3. a \in Answers
  <2>1. server[x] \in Rows /\ None \in Rows
      BY <1>1 DEF None, Rows, Others
  <2> QED BY <1>1, <2>1 DEF Answers, Served, AnswerOf
<1>4. new \in Rows /\ moved \in Rows
    BY <1>1 DEF Rows, Written
<1>5. server' \in [Recs -> Rows] /\ clock' \in Nat /\ ledger' \subseteq Ops
      /\ cap' \in Caps /\ bad' \subseteq Ops
  <2>1. ledger \subseteq Ops /\ cap' \in Caps /\ bad' \subseteq Ops
      BY DEF Typed, TypeOK, Served
  <2>2. CASE clock' = clock + 1 /\ ledger' = ledger \cup {o}
             /\ server' = [server EXCEPT ![x] = new]
      BY <1>1, <1>4, <2>1, <2>2
  <2>3. CASE UNCHANGED <<server, ledger, clock>>
      BY <1>1, <2>1, <2>3
  <2>4. CASE clock' = clock + 1 /\ ledger' = ledger
             /\ server' = [server EXCEPT ![x].at = clock + 1]
    <3>1. server' = [server EXCEPT ![x] = moved]
        BY <2>4
    <3> HIDE DEF moved
    <3> QED BY <1>1, <1>4, <2>1, <2>4, <3>1
  <2> QED BY <2>2, <2>3, <2>4 DEF Served, Landing, Moving, Telling
<1> HIDE DEF a, new, moved
<1>6. sent' \in [Runs -> SUBSET Ops] /\ answers' \in [Runs -> SUBSET Answers]
    BY <1>1, <1>2, <1>3
<1>7. \A s \in Runs : \A b \in answers'[s] :
        b \in [op : Ops, seen : Rows, status : {"applied", "conflict", "rejected"}]
    BY <1>6 DEF Answers
<1>8. TypeOK'
    BY <1>1, <1>5, <1>6, <1>7 DEF Typed, TypeOK, outboxVars
<1> QED BY <1>1, <1>6, <1>8 DEF Typed, PageOK, outboxVars

LEMMA RemoteTypes ==
    ASSUME Typed, NEW rec \in Recs, Remote(rec)
    PROVE  Typed'
<1>1. PICK gone \in BOOLEAN : server' = [server EXCEPT ![rec] =
            [there |-> TRUE, gone |-> gone, at |-> clock', by |-> Others]]
    BY DEF Remote
<1>2. Ops' = Ops /\ Answers' = Answers
    BY DEF Ops, Answers, Remote, outboxVars
<1>3. clock' \in Nat
    BY DEF Remote, Typed, TypeOK
<1>4. [there |-> TRUE, gone |-> gone, at |-> clock', by |-> Others] \in Rows
    BY <1>3 DEF Rows, Others
<1>5. server' \in [Recs -> Rows]
    BY <1>1, <1>4 DEF Typed, TypeOK
<1>6. TypeOK'
    BY <1>2, <1>3, <1>5 DEF Typed, TypeOK, Remote, outboxVars, runVars
<1> QED BY <1>2, <1>6 DEF Typed, PageOK, Remote, outboxVars, runVars

(* What a pull fetches, and what it makes of the rows.                     *)
LEMMA FetchedPage ==
    ASSUME Inv, NEW r \in Runs, Fetch(r)
    PROVE  DOMAIN page' = Runs /\ \A s \in Runs : PageOK(page'[s])
<1> DEFINE changed == {rec \in Recs : server[rec].at > from[r]}
           S == {from[r]} \cup {server[rec].at : rec \in changed}
           p == [rows |-> [rec \in changed |-> server[rec]], upTo |-> Max(S)]
<1>1. page' = [page EXCEPT ![r] = p] /\ DOMAIN page = Runs
    BY DEF Fetch, Inv, Typed
<1>2. /\ from[r] \in Nat /\ clock \in Nat /\ server \in [Recs -> Rows]
      /\ \A rec \in Recs : server[rec].at \in Nat \cup {Device}
      /\ \A rec \in Recs : server[rec].at <= clock
    BY DEF Inv, Typed, TypeOK, Known, Rows
<1>3. S \in SUBSET (0..(from[r] + clock)) /\ S # {}
  <2>1. \A rec \in changed : server[rec].at \in 0..(from[r] + clock)
    <3> SUFFICES ASSUME NEW rec \in changed PROVE server[rec].at \in 0..(from[r] + clock)
        OBVIOUS
    <3>1. server[rec].at \in Nat
        BY <1>2 DEF Device
    <3> QED BY <1>2, <3>1
  <2>2. from[r] \in 0..(from[r] + clock)
      BY <1>2
  <2> QED BY <2>1, <2>2
<1>4. Max(S) \in Nat
  <2> HIDE DEF S
  <2>1. from[r] + clock \in Nat
      BY <1>2
  <2>2. Max(S) \in S
      BY <1>3, <2>1, MaxIsMember
  <2>3. Max(S) \in 0..(from[r] + clock)
      BY <1>3, <2>2, Zenon
  <2> QED BY <2>1, <2>3
<1>5. \A rec \in changed : server[rec] \in Rows /\ server[rec].there
    BY <1>2 DEF Inv, Known, Device
<1> HIDE DEF S
<1>6. PageOK(p)
  <2> HIDE DEF changed
  <2>1. changed \subseteq Recs
      BY DEF changed
  <2> QED BY <1>4, <1>5, <2>1 DEF PageOK
<1> HIDE DEF p
<1> QED BY <1>1, <1>6 DEF Inv, Typed

LEMMA MergedRows ==
    ASSUME Inv, NEW r \in Runs, NEW rec \in Recs
    PROVE  Merge(r, rec) \in Rows /\ (row[rec].there => Merge(r, rec).there)
<1>1. PageOK(page[r]) /\ row[rec] \in Rows
    BY DEF Inv, Typed, TypeOK
<1> QED BY <1>1 DEF Merge, PageOK

LEMMA BlankPage == PageOK(NoPage)
BY DEF PageOK, NoPage

-----------------------------------------------------------------------------
LEMMA StepOK == Inv /\ [Next]_vars => Inv'
<1> SUFFICES ASSUME Inv, [Next]_vars PROVE Inv'
    OBVIOUS
<1>0. /\ Typed /\ TypeOK /\ Known /\ \A r \in Runs : PageOK(page[r])
      /\ \A o \in Ops : log[o].rec \in Recs
    BY DEF Inv, Typed, TypeOK
<1>i. \A c \in inbox : c.seen.there /\ c.seen \in Rows /\ c.op \in Ops
                       /\ \E d \in inbox : d.op = c.op
    BY <1>0 DEF TypeOK, Known
<1>1. CASE UNCHANGED vars
  <2>1. Typed'
      BY <1>0, <1>1, SameTypes DEF vars, outboxVars, runVars, serverVars, flags, TypeOK
  <2> QED BY <1>1, <1>0, <1>i, <2>1, Quiet DEF vars, outboxVars, runVars, serverVars, flags
<1>2. ASSUME NEW rec \in Recs, Create(rec) PROVE Inv'
  <2>1. Enqueue(rec, "create", Device) /\ ~row[rec].there
      BY <1>2 DEF Create
  <2>2. Len(log') \in Nat
      BY <2>1, Enqueued, <1>0 DEF Kinds, Device
  <2>3. row' \in [Recs -> Rows] /\ row'[rec].there
        /\ \A x \in Recs : row[x].there => row'[x].there
    <3>1. [there |-> TRUE, gone |-> FALSE, at |-> Device, by |-> Len(log')] \in Rows
        BY <2>2 DEF Rows
    <3> QED BY <1>0, <1>2, <3>1 DEF Create, TypeOK
  <2>4. UNCHANGED <<server, ledger, clock, cap, bad, inbox, checkpoint, pc, sent,
                    answers, from, page,
                    discarded>>
      BY <1>2 DEF Create, serverVars, runVars
  <2>5. "create" \in Kinds /\ Device \in Nat \cup {Device}
      BY DEF Kinds
  <2>6. Typed'
      BY <1>0, <2>1, <2>3, <2>4, <2>5, CaptureTypes DEF TypeOK
  <2> QED BY <1>i, <2>1, <2>3, <2>4, <2>5, <2>6, Captured
<1>3. ASSUME NEW rec \in Recs, Edit(rec) PROVE Inv'
  <2>1. Enqueue(rec, "update", row[rec].at) /\ row[rec].there
      BY <1>3 DEF Edit, Live
  <2>2. row[rec] \in Rows /\ row[rec].at \in Nat \cup {Device} /\ "update" \in Kinds
      BY <1>0 DEF TypeOK, Rows, Kinds
  <2>3. Len(log') \in Nat
      BY <2>1, <2>2, Enqueued, <1>0
  <2>4. row' \in [Recs -> Rows] /\ row'[rec].there
        /\ \A x \in Recs : row[x].there => row'[x].there
    <3> DEFINE at == IF StampsRows THEN Device ELSE row[rec].at
               new == [[row[rec] EXCEPT !.by = Len(log')] EXCEPT !.at = at]
    <3>1. row' = [row EXCEPT ![rec] = new]
        BY <1>3, <1>0 DEF Edit, TypeOK
    <3>2. new \in Rows /\ new.there
      <4>1. at \in Nat \cup {Device}
          BY <2>2
      <4> HIDE DEF at
      <4> QED BY <2>1, <2>2, <2>3, <4>1 DEF Rows
    <3> HIDE DEF new
    <3> QED BY <1>0, <3>1, <3>2 DEF TypeOK
  <2>5. UNCHANGED <<server, ledger, clock, cap, bad, inbox, checkpoint, pc, sent,
                    answers, from, page,
                    discarded>>
      BY <1>3 DEF Edit, serverVars, runVars
  <2>6. Typed'
      BY <1>0, <2>1, <2>2, <2>4, <2>5, CaptureTypes DEF TypeOK
  <2> QED BY <1>i, <2>1, <2>2, <2>4, <2>5, <2>6, Captured
<1>4. ASSUME NEW rec \in Recs, Remove(rec) PROVE Inv'
  <2>1. Enqueue(rec, "delete", Device) /\ row[rec].there
      BY <1>4 DEF Remove, Live
  <2>2. row[rec] \in Rows /\ "delete" \in Kinds /\ Device \in Nat \cup {Device}
      BY <1>0 DEF TypeOK, Kinds
  <2>3. row' \in [Recs -> Rows] /\ row'[rec].there
        /\ \A x \in Recs : row[x].there => row'[x].there
    <3> DEFINE new == [[row[rec] EXCEPT !.gone = TRUE] EXCEPT !.at = Device]
    <3>1. row' = [row EXCEPT ![rec] = new]
        BY <1>4, <1>0 DEF Remove, TypeOK
    <3>2. new \in Rows /\ new.there
        BY <2>1, <2>2 DEF Rows
    <3> HIDE DEF new
    <3> QED BY <1>0, <3>1, <3>2 DEF TypeOK
  <2>4. UNCHANGED <<server, ledger, clock, cap, bad, inbox, checkpoint, pc, sent,
                    answers, from, page,
                    discarded>>
      BY <1>4 DEF Remove, serverVars, runVars
  <2>5. Typed'
      BY <1>0, <2>1, <2>2, <2>3, <2>4, CaptureTypes DEF TypeOK
  <2> QED BY <1>i, <2>1, <2>2, <2>3, <2>4, <2>5, Captured
<1>5. ASSUME NEW rec \in Recs, Remote(rec) PROVE Inv'
    BY <1>0, <1>5, RemoteTypes, RemoteKeeps
<1>6. ASSUME NEW o \in Ops, Retry(o) \/ Discard(o) \/ Elapse(o) PROVE Inv'
  <2>1. /\ UNCHANGED <<server, ledger, clock, cap, bad, row, log, inbox, checkpoint, pc,
                       sent, answers, from, page>>
        /\ queue' \subseteq queue /\ failed' \subseteq queue' /\ waiting' \subseteq failed'
        /\ queue \cup discarded \subseteq queue' \cup discarded'
        /\ discarded' \subseteq discarded \cup {o}
      BY <1>0, <1>6 DEF Retry, Discard, Elapse, serverVars, runVars, outboxVars, TypeOK
  <2>2. Typed'
      BY <1>0, <2>1, SameTypes DEF TypeOK
  <2> QED BY <1>i, <2>1, <2>2, Quiet
<1>7. ASSUME NEW c \in inbox, NEW choice \in MayChoose, Resolve(c, choice) PROVE Inv'
  <2> DEFINE d == [c EXCEPT !.open = FALSE]
  <2>1. /\ c \in [op : Ops, seen : Rows, open : BOOLEAN] /\ log[c.op].rec \in Recs
      BY <1>0 DEF TypeOK
  <2>2. d \in [op : Ops, seen : Rows, open : BOOLEAN] /\ d.seen = c.seen /\ d.op = c.op
      BY <2>1
  <2>3. inbox' = (inbox \ {c}) \cup {d} \/ inbox' = inbox
      BY <1>7 DEF Resolve
  <2> HIDE DEF d
  <2>4. /\ inbox' \subseteq [op : Ops, seen : Rows, open : BOOLEAN]
        /\ \A x \in inbox' : x.seen.there
        /\ \A x \in inbox : \E y \in inbox' : y.op = x.op
      BY <1>0, <1>i, <2>2, <2>3 DEF TypeOK
  <2>5. UNCHANGED <<server, ledger, clock, cap, bad, checkpoint, pc, sent, answers, from,
                    page,
                    discarded>>
      BY <1>7 DEF Resolve, serverVars, runVars
  <2>6. CASE row' = [row EXCEPT ![log[c.op].rec] = c.seen] /\ UNCHANGED outboxVars
    <3>1. row' \in [Recs -> Rows] /\ \A x \in Recs : row[x].there => row'[x].there
        BY <1>0, <1>i, <2>1, <2>6 DEF TypeOK
    <3>2. UNCHANGED <<log, queue, failed, waiting>>
        BY <2>6 DEF outboxVars
    <3>3. Typed'
        BY <1>0, <2>4, <2>5, <3>1, <3>2, RunTypes DEF Typed, TypeOK
    <3> QED BY <2>4, <2>5, <3>1, <3>2, <3>3, Quiet
  <2>7. CASE Enqueue(log[c.op].rec, "update", c.seen.at) /\ UNCHANGED row
    <3>1. c.seen.at \in Nat \cup {Device} /\ "update" \in Kinds
        BY <2>1 DEF Rows, Kinds
    <3>2. row' \in [Recs -> Rows] /\ \A x \in Recs : row[x].there => row'[x].there
        BY <1>0, <2>7 DEF TypeOK
    <3>3. row'[log[c.op].rec].there
        BY <1>i, <2>7 DEF Inv, Known
    <3>4. Typed'
        BY <1>0, <2>1, <2>4, <2>5, <2>7, <3>1, <3>2, CaptureTypes
    <3> QED BY <2>1, <2>4, <2>5, <2>7, <3>1, <3>2, <3>3, <3>4, Captured
  <2> QED BY <1>7, <2>6, <2>7 DEF Resolve
<1>8. ASSUME NEW r \in Runs, Flush(r) PROVE Inv'
  <2>1. /\ UNCHANGED <<server, ledger, clock, cap, bad, row, log, queue, failed, waiting,
                       inbox,
                       checkpoint, answers, from, page, discarded>>
        /\ sent' = [sent EXCEPT ![r] = Batch] /\ Batch \subseteq Ops
        /\ pc' = [pc EXCEPT ![r] = IF Batch = {} THEN "pull" ELSE "sent"]
      BY <1>0, <1>8 DEF Flush, Goto, serverVars, outboxVars, Batch, TypeOK
  <2>2. /\ sent' \in [Runs -> SUBSET Ops]
        /\ pc' \in [Runs -> {"idle", "sent", "orphan", "settle", "pull", "fetch", "apply"}]
        /\ \A s \in Runs : pc'[s] = "settle" => pc[s] = "settle"
    <3> HIDE DEF Batch
    <3> QED BY <1>0, <2>1 DEF Typed, TypeOK
  <2>3. Typed'
      BY <1>0, <2>1, <2>2, RunTypes DEF Typed, TypeOK
  <2> QED BY <1>i, <2>1, <2>2, <2>3, Quiet
<1>9. ASSUME NEW r \in Runs, Serve(r) PROVE Inv'
  <2>0. PICK o \in Ops : \E status : Served(r, o, status)
      BY <1>0, <1>9, ServeCases
  <2>1. PICK status : Served(r, o, status)
      BY <2>0
  <2>2. /\ UNCHANGED <<row, outboxVars, inbox, checkpoint, pc, from, page, discarded>>
        /\ UNCHANGED <<row, log, inbox, queue, discarded, pc>> /\ pc[r] # "settle"
      BY <1>9 DEF Serve, ServeOp, outboxVars
  <2>3. Typed'
      BY <1>0, <2>1, <2>2, ServeTypes
  <2> QED BY <2>1, <2>2, <2>3, ServedKeeps
<1>10. ASSUME NEW r \in Runs, Record(r) PROVE Inv'
  <2> DEFINE new == {[op |-> a.op, seen |-> a.seen, open |-> TRUE] :
                        a \in {b \in answers[r] : b.status = "conflict"}}
  <2>1. /\ UNCHANGED <<server, ledger, clock, cap, bad, row, log, queue, failed, waiting,
                       checkpoint, sent, answers, from, page, discarded>>
        /\ inbox' = inbox \cup new /\ pc' = [pc EXCEPT ![r] = "settle"]
      BY <1>10 DEF Record, Goto, serverVars, outboxVars
  <2>2. \A a \in answers[r] : a.op \in Ops /\ a.seen \in Rows
      BY <1>0 DEF TypeOK
  <2>3. new \subseteq [op : Ops, seen : Rows, open : BOOLEAN]
    <3> SUFFICES ASSUME NEW a \in answers[r]
                 PROVE  [op |-> a.op, seen |-> a.seen, open |-> TRUE]
                            \in [op : Ops, seen : Rows, open : BOOLEAN]
        OBVIOUS
    <3>1. a.op \in Ops /\ a.seen \in Rows
        BY <2>2
    <3> QED BY <3>1
  <2>4. \A c \in new : c.seen.there
      BY <1>0 DEF Known
  <2>5. \A a \in answers[r] : a.status = "conflict" => \E c \in new : c.op = a.op
    <3> SUFFICES ASSUME NEW a \in answers[r], a.status = "conflict"
                 PROVE  \E c \in new : c.op = a.op
        OBVIOUS
    <3>1. [op |-> a.op, seen |-> a.seen, open |-> TRUE] \in new
        OBVIOUS
    <3> QED BY <3>1
  <2> HIDE DEF new
  <2>6. /\ inbox' \subseteq [op : Ops, seen : Rows, open : BOOLEAN]
        /\ \A c \in inbox' : c.seen.there
        /\ \A c \in inbox : \E d \in inbox' : d.op = c.op
        /\ \A a \in answers[r] : a.status = "conflict" => InInbox(a.op)'
      BY <1>0, <1>i, <2>1, <2>3, <2>4, <2>5 DEF TypeOK, InInbox
  <2>7. /\ pc' \in [Runs -> {"idle", "sent", "orphan", "settle", "pull", "fetch", "apply"}]
        /\ \A s \in Runs : pc'[s] = "settle" => s = r \/ pc[s] = "settle"
      BY <1>0, <2>1 DEF TypeOK
  <2>8. Typed'
      BY <1>0, <2>1, <2>6, <2>7, RunTypes DEF Typed, TypeOK
  <2> QED BY <1>i, <2>1, <2>6, <2>7, <2>8, Quiet
<1>11. ASSUME NEW r \in Runs, Settle(r) PROVE Inv'
  <2>1. PICK a \in answers[r] :
          /\ \/ /\ a.status # "rejected"
                /\ queue' = queue \ {a.op}
                /\ failed' = failed \ {a.op} /\ waiting' = waiting \ {a.op}
             \/ /\ a.status = "rejected"
                /\ failed' = failed \cup ({a.op} \cap queue)
                /\ waiting' = waiting \cup ({a.op} \cap queue)
                /\ UNCHANGED queue
          /\ answers' = [answers EXCEPT ![r] = @ \ {a}]
          /\ Goto(r, IF answers'[r] = {} THEN "pull" ELSE "settle")
      BY <1>11 DEF Settle
  <2>2. /\ UNCHANGED <<server, ledger, clock, cap, bad, row, log, inbox, checkpoint,
                       sent, from, page,
                       discarded>>
        /\ pc[r] = "settle"
      BY <1>11 DEF Settle, serverVars
  <2>3. /\ queue' \subseteq queue /\ failed' \subseteq queue' /\ waiting' \subseteq failed'
        /\ queue \subseteq queue' \cup {a.op}
        /\ a.status = "rejected" => queue' = queue
      BY <1>0, <2>1 DEF TypeOK
  <2>4. /\ answers' \in [Runs -> SUBSET Answers]
        /\ \A s \in Runs : answers'[s] \subseteq answers[s]
      BY <1>0, <2>1 DEF Typed
  <2>5. /\ pc' \in [Runs -> {"idle", "sent", "orphan", "settle", "pull", "fetch", "apply"}]
        /\ \A s \in Runs : pc'[s] = "settle" => pc[s] = "settle"
    <3> DEFINE l == IF answers'[r] = {} THEN "pull" ELSE "settle"
    <3>1. pc' = [pc EXCEPT ![r] = l] /\ l \in {"pull", "settle"}
        BY <2>1 DEF Goto
    <3> HIDE DEF l
    <3> QED BY <1>0, <2>2, <3>1 DEF TypeOK
  <2>6. a.status # "rejected" => Safe(a.op) \/ InInbox(a.op)
    <3>1. a.status \in {"applied", "conflict", "rejected"}
        BY <1>0 DEF TypeOK
    <3> QED BY <2>2, <3>1 DEF Inv, Truthful, Recorded
  <2>7. Typed'
    <3>1. Ops' = Ops /\ Answers' = Answers
        BY <2>2 DEF Ops, Answers
    <3>2. \A s \in Runs : \A b \in answers'[s] :
            b \in [op : Ops, seen : Rows, status : {"applied", "conflict", "rejected"}]
        BY <2>4 DEF Answers
    <3>3. TypeOK'
        BY <1>0, <2>2, <2>3, <2>5, <3>1, <3>2 DEF TypeOK
    <3> QED BY <1>0, <2>2, <2>4, <3>1, <3>3 DEF Typed, PageOK
  <2>8. \A o \in Ops : o \in queue \cup discarded =>
                o \in queue' \cup discarded' \/ Safe(o) \/ InInbox(o)
      BY <2>2, <2>3, <2>6
  <2> QED BY <1>i, <2>2, <2>4, <2>5, <2>7, <2>8, Quiet
<1>12. ASSUME NEW r \in Runs, ReadCheckpoint(r) PROVE Inv'
  <2>1. /\ UNCHANGED <<server, ledger, clock, cap, bad, row, log, queue, failed, waiting,
                       inbox,
                       checkpoint, sent, answers, page, discarded>>
        /\ from' = [from EXCEPT ![r] = checkpoint] /\ pc' = [pc EXCEPT ![r] = "fetch"]
      BY <1>12 DEF ReadCheckpoint, Goto, serverVars, outboxVars
  <2>2. /\ from' \in [Runs -> Nat]
        /\ pc' \in [Runs -> {"idle", "sent", "orphan", "settle", "pull", "fetch", "apply"}]
        /\ \A s \in Runs : pc'[s] = "settle" => pc[s] = "settle"
      BY <1>0, <2>1 DEF TypeOK
  <2>3. Typed'
      BY <1>0, <2>1, <2>2, RunTypes DEF Typed, TypeOK
  <2> QED BY <1>i, <2>1, <2>2, <2>3, Quiet
<1>13. ASSUME NEW r \in Runs, Fetch(r) PROVE Inv'
  <2>1. /\ UNCHANGED <<server, ledger, clock, cap, bad, row, log, queue, failed, waiting,
                       inbox,
                       checkpoint, sent, answers, from, discarded>>
        /\ pc' = [pc EXCEPT ![r] = "apply"]
      BY <1>13 DEF Fetch, Goto, serverVars, outboxVars
  <2>2. /\ pc' \in [Runs -> {"idle", "sent", "orphan", "settle", "pull", "fetch", "apply"}]
        /\ \A s \in Runs : pc'[s] = "settle" => pc[s] = "settle"
      BY <1>0, <2>1 DEF TypeOK
  <2>3. DOMAIN page' = Runs /\ \A s \in Runs : PageOK(page'[s])
      BY <1>13, FetchedPage
  <2>4. Typed'
      BY <1>0, <2>1, <2>2, <2>3, RunTypes DEF Typed, TypeOK
  <2> QED BY <1>i, <2>1, <2>2, <2>4, Quiet
<1>14. ASSUME NEW r \in Runs, Apply(r) PROVE Inv'
  <2>1. /\ UNCHANGED <<server, ledger, clock, cap, bad, log, queue, failed, waiting, inbox,
                       sent, answers, discarded>>
        /\ row' = [rec \in Recs |-> Merge(r, rec)] /\ checkpoint' = page[r].upTo
        /\ page' = [page EXCEPT ![r] = NoPage] /\ from' = [from EXCEPT ![r] = 0]
        /\ pc' = [pc EXCEPT ![r] = "idle"]
      BY <1>14 DEF Apply, Goto, serverVars, outboxVars
  <2>2. /\ from' \in [Runs -> Nat]
        /\ pc' \in [Runs -> {"idle", "sent", "orphan", "settle", "pull", "fetch", "apply"}]
        /\ \A s \in Runs : pc'[s] = "settle" => pc[s] = "settle"
      BY <1>0, <2>1 DEF TypeOK
  <2>3. checkpoint' \in Nat /\ DOMAIN page' = Runs /\ \A s \in Runs : PageOK(page'[s])
    <3>1. page[r].upTo \in Nat /\ DOMAIN page = Runs
        BY <1>0 DEF PageOK, Typed
    <3> QED BY <1>0, <2>1, <3>1, BlankPage
  <2>4. row' \in [Recs -> Rows] /\ \A x \in Recs : row[x].there => row'[x].there
      BY <2>1, MergedRows
  <2>5. Typed'
      BY <1>0, <2>1, <2>2, <2>3, <2>4, RunTypes DEF Typed, TypeOK
  <2> QED BY <1>i, <2>1, <2>2, <2>4, <2>5, Quiet
<1>15. ASSUME NEW r \in Runs, Lose(r) PROVE Inv'
  <2>1. /\ UNCHANGED <<server, ledger, clock, cap, bad, row, log, queue, failed, waiting,
                       inbox,
                       checkpoint, sent, discarded>>
        /\ page' = [page EXCEPT ![r] = NoPage] /\ from' = [from EXCEPT ![r] = 0]
        /\ answers' = [answers EXCEPT ![r] = {}]
        /\ pc' = [pc EXCEPT ![r] = IF pc[r] = "sent" THEN "orphan" ELSE "idle"]
      BY <1>15 DEF Lose, Goto, serverVars, outboxVars
  <2>2. /\ from' \in [Runs -> Nat]
        /\ pc' \in [Runs -> {"idle", "sent", "orphan", "settle", "pull", "fetch", "apply"}]
        /\ \A s \in Runs : pc'[s] = "settle" => pc[s] = "settle"
      BY <1>0, <2>1 DEF TypeOK
  <2>3. /\ DOMAIN page' = Runs /\ \A s \in Runs : PageOK(page'[s])
        /\ answers' \in [Runs -> SUBSET Answers]
        /\ \A s \in Runs : answers'[s] \subseteq answers[s]
      BY <1>0, <2>1, BlankPage DEF Typed
  <2>4. Typed'
      BY <1>0, <2>1, <2>2, <2>3, RunTypes DEF Typed, TypeOK
  <2> QED BY <1>i, <2>1, <2>2, <2>3, <2>4, Quiet
<1>16. ASSUME NEW r \in Runs, Vanish(r) PROVE Inv'
  <2>1. /\ UNCHANGED <<server, ledger, clock, cap, bad, row, log, queue, failed, waiting,
                       inbox,
                       checkpoint, from, page, discarded>>
        /\ sent' = [sent EXCEPT ![r] = {}] /\ answers' = [answers EXCEPT ![r] = {}]
        /\ pc' = [pc EXCEPT ![r] = "idle"]
      BY <1>16 DEF Vanish, Goto, serverVars, outboxVars
  <2>2. /\ pc' \in [Runs -> {"idle", "sent", "orphan", "settle", "pull", "fetch", "apply"}]
        /\ \A s \in Runs : pc'[s] = "settle" => pc[s] = "settle"
      BY <1>0, <2>1 DEF TypeOK
  <2>3. /\ sent' \in [Runs -> SUBSET Ops] /\ answers' \in [Runs -> SUBSET Answers]
        /\ \A s \in Runs : answers'[s] \subseteq answers[s]
      BY <1>0, <2>1 DEF Typed
  <2>4. Typed'
      BY <1>0, <2>1, <2>2, <2>3, RunTypes DEF Typed, TypeOK
  <2> QED BY <1>i, <2>1, <2>2, <2>3, <2>4, Quiet
<1> QED BY <1>1, <1>2, <1>3, <1>4, <1>5, <1>6, <1>7, <1>8, <1>9, <1>10, <1>11, <1>12,
           <1>13, <1>14, <1>15, <1>16 DEF Next, Advance

THEOREM InvHolds == Spec => []Inv
<1>1. Init => Inv
    BY InitOK
<1>2. Inv /\ [Next]_vars => Inv'
    BY StepOK
<1> QED BY <1>1, <1>2, PTL DEF Spec

(* The types are right.                                                    *)
THEOREM TypeCorrect == Spec => []TypeOK
<1>1. Inv => TypeOK
    BY DEF Inv, Typed
<1> QED BY <1>1, InvHolds, PTL

(* A change leaves the queue only because the server has it, because it is *)
(* in the conflict inbox, or because the user discarded it: for any number *)
(* of runs of syncNow over one outbox, of changes, of faults and of writes *)
(* of other devices.                                                       *)
THEOREM NothingIsLost == Spec => []NoChangeIsLost
<1>1. Inv => NoChangeIsLost
    BY DEF Inv, Typed, Kept, Safe, InInbox, NoChangeIsLost
<1> QED BY <1>1, InvHolds, PTL

-----------------------------------------------------------------------------
(* What a device that shows an older row still has to learn: where a       *)
(* document may come from, and what a page or a row says of the server.    *)
VersionOf(v, rec) == v.at \in Nat /\ (v = server[rec] \/ v.at < server[rec].at)

Landed == \A o \in ledger :
    /\ server[log[o].rec].there
    /\ log[o].kind = "delete" => server[log[o].rec].gone

Lost(o, seen) == log[o].kind = "update" /\ VersionOf(seen, log[o].rec)
Conflicts ==
    /\ \A c \in inbox : Lost(c.op, c.seen)
    /\ \A r \in Runs : \A a \in answers[r] : a.status = "conflict" => Lost(a.op, a.seen)

(* A page has what the server had behind the checkpoint it was asked for;  *)
(* what has changed since is ahead of the checkpoint it brings.            *)
Pulled(r) == pc[r] = "apply" =>
    /\ from[r] <= page[r].upTo /\ page[r].upTo <= clock
    /\ \A rec \in DOMAIN page[r].rows :
          /\ page[r].rows[rec].at \in 0..page[r].upTo
          /\ page[r].rows[rec] = server[rec] \/ server[rec].at > page[r].upTo
    /\ \A rec \in Recs \ DOMAIN page[r].rows :
          server[rec].at <= from[r] \/ server[rec].at > page[r].upTo

(* A row that carries a time of the server is the version of that time, or *)
(* an edit of it, and a later version is ahead of the checkpoint.          *)
Versioned(rec) == row[rec].at # Device =>
    /\ row[rec].at <= server[rec].at
    /\ row[rec].at = server[rec].at =>
          row[rec].gone = server[rec].gone /\ row[rec].there = server[rec].there
    /\ crossed \/ row[rec].at = server[rec].at \/ server[rec].at > checkpoint

(* What only the device has, or has deleted, it has an op for.             *)
Owned(rec) ==
    /\ row[rec].at = Device /\ row[rec].gone =>
          \E o \in Ops : log[o].rec = rec /\ log[o].kind = "delete"
    /\ row[rec].there /\ ~server[rec].there =>
          \E o \in Ops : log[o].rec = rec /\ log[o].kind = "create"

(* An edit of the version the server still has, not answered yet.          *)
EditOf(o, rec) ==
    /\ o \in Ops \ ledger
    /\ log[o].rec = rec /\ log[o].kind = "update" /\ log[o].base = server[rec].at
Unanswered(o) == \A r \in Runs : \A a \in answers[r] : a.op = o => a.status = "rejected"
Pending(rec) == \E o \in queue \cup discarded : EditOf(o, rec) /\ Unanswered(o)
Edited(rec) ==
    /\ Live(row[rec]) /\ server[rec].there /\ server[rec].at <= checkpoint
    /\ View(row[rec]) # View(server[rec])
Covered(rec) == Edited(rec) => crossed \/ (Live(server[rec]) /\ Pending(rec))

Fresh ==
    /\ Landed /\ Conflicts
    /\ checkpoint <= clock
    /\ \A r \in Runs : from[r] <= clock /\ Pulled(r)
    /\ \A rec \in Recs : /\ server[rec].at \in Nat
                         /\ Versioned(rec) /\ Owned(rec) /\ Covered(rec)

LEMMA Facts ==
    ASSUME Inv, Fresh
    PROVE  /\ clock \in Nat /\ checkpoint \in Nat /\ checkpoint <= clock
           /\ \A rec \in Recs : /\ server[rec] \in Rows /\ server[rec].at \in Nat
                                /\ server[rec].at <= clock /\ row[rec] \in Rows
                                /\ row[rec].at \in Nat \cup {Device}
           /\ \A o \in Ops : log[o].rec \in Recs /\ log[o].kind \in Kinds
           /\ \A c \in inbox : c.op \in Ops /\ c.seen \in Rows
           /\ \A r \in Runs : /\ from[r] \in Nat
                              /\ \A a \in answers[r] : a.op \in Ops /\ a.seen \in Rows
<1>1. \A rec \in Recs : /\ server[rec] \in Rows /\ row[rec] \in Rows
                        /\ server[rec].at <= clock
    BY DEF Inv, Typed, TypeOK, Known
<1>2. \A x \in Rows : x.at \in Nat \cup {Device}
    BY DEF Rows
<1>3. \A r \in Runs : \A a \in answers[r] : a.op \in Ops /\ a.seen \in Rows
    BY DEF Inv, Typed, TypeOK
<1>4. \A c \in inbox : c.op \in Ops /\ c.seen \in Rows
    BY DEF Inv, Typed, TypeOK
<1>5. \A o \in Ops : log[o].rec \in Recs /\ log[o].kind \in Kinds
    BY DEF Inv, Typed, TypeOK, Kinds
<1> QED BY <1>1, <1>2, <1>3, <1>4, <1>5 DEF Inv, Typed, TypeOK, Fresh

LEMMA FreshStart == Init => Fresh
<1> SUFFICES ASSUME Init PROVE Fresh
    OBVIOUS
<1>1. Ops = {}
    BY DEF Init, Ops
<1> DEFINE Some == [None EXCEPT !.there = TRUE]
<1>2. None.at = 0 /\ ~None.gone /\ Some.at = 0 /\ ~Some.gone
    BY DEF None
<1>3. server \in [Recs -> {None, Some}]
    BY DEF Init
<1> HIDE DEF Some
<1>4. \A rec \in Recs : server[rec].at = 0 /\ ~server[rec].gone
    BY <1>2, <1>3
<1>5. \A rec \in Recs : Versioned(rec) /\ Owned(rec) /\ Covered(rec)
    BY <1>4 DEF Init, Versioned, Owned, Covered, Edited
<1>6. \A r \in Runs : from[r] <= clock /\ Pulled(r)
    BY DEF Init, Pulled
<1> QED BY <1>4, <1>5, <1>6 DEF Init, Fresh, Landed, Conflicts

(* An edit that waits for its answer still waits.                          *)
LEMMA PendingStays ==
    ASSUME NEW rec \in Recs, Pending(rec), queue \cup discarded \subseteq Ops,
           Ops \subseteq Ops', \A o \in Ops : log'[o] = log[o],
           server'[rec].at = server[rec].at,
           \A o \in queue \cup discarded : EditOf(o, rec) =>
               /\ o \notin ledger'
               /\ \A r \in Runs : \A a \in answers'[r] :
                    a.op = o => a \in answers[r] \/ a.status = "rejected"
               /\ \/ o \in queue' \cup discarded'
                  \/ \E r \in Runs : \E a \in answers[r] : a.op = o /\ a.status # "rejected"
    PROVE  Pending(rec)'
<1>1. PICK o \in queue \cup discarded : EditOf(o, rec) /\ Unanswered(o)
    BY DEF Pending
<1>2. EditOf(o, rec)'
    BY <1>1 DEF EditOf
<1>3. Unanswered(o)' /\ o \in queue' \cup discarded'
    BY <1>1 DEF Unanswered
<1> QED BY <1>2, <1>3 DEF Pending

(* A step of the device that leaves its rows and its checkpoint alone.     *)
LEMMA FreshUntouched ==
    ASSUME Inv, Fresh, UNCHANGED <<server, ledger, clock, cap, bad, row, log, checkpoint,
                                   crossed>>,
           \A c \in inbox' :
              \/ \E d \in inbox : c.op = d.op /\ c.seen = d.seen
              \/ \E r \in Runs : \E a \in answers[r] :
                    a.status = "conflict" /\ c.op = a.op /\ c.seen = a.seen,
           \A r \in Runs : answers'[r] \subseteq answers[r],
           \A r \in Runs : from'[r] <= clock /\ Pulled(r)',
           \A o \in queue \cup discarded :
              \/ o \in queue' \cup discarded'
              \/ \E r \in Runs : \E a \in answers[r] : a.op = o /\ a.status # "rejected"
    PROVE  Fresh'
<1>1. Ops' = Ops /\ queue \cup discarded \subseteq Ops
    BY DEF Ops, Inv, Typed, TypeOK
<1>2. Landed'
    BY DEF Fresh, Landed
<1>3. \A o, seen : Lost(o, seen) => Lost(o, seen)'
    BY DEF Lost, VersionOf
<1>4. \A c \in inbox : Lost(c.op, c.seen)
    BY DEF Fresh, Conflicts
<1>5. \A r \in Runs : \A a \in answers[r] : a.status = "conflict" => Lost(a.op, a.seen)
    BY DEF Fresh, Conflicts
<1>6. Conflicts'
  <2>1. \A c \in inbox' : Lost(c.op, c.seen)
      BY <1>4, <1>5
  <2>2. \A r \in Runs : \A a \in answers'[r] : a.status = "conflict" => Lost(a.op, a.seen)
      BY <1>5
  <2> QED BY <1>3, <2>1, <2>2 DEF Conflicts
<1>7. ASSUME NEW rec \in Recs PROVE (Versioned(rec) /\ Owned(rec) /\ Covered(rec))'
  <2>1. Versioned(rec) /\ Owned(rec) /\ Covered(rec)
      BY DEF Fresh
  <2>2. Versioned(rec)' /\ Owned(rec)' /\ Edited(rec)' = Edited(rec)
      BY <1>1, <2>1 DEF Versioned, Owned, Edited
  <2>3. Pending(rec) => Pending(rec)'
      BY <1>1, PendingStays DEF EditOf
  <2> QED BY <2>1, <2>2, <2>3 DEF Covered
<1> QED BY <1>2, <1>6, <1>7 DEF Fresh

(* The server has a new version of a record.                               *)
LEMMA FreshServer ==
    ASSUME Inv, Fresh, NEW x \in Recs, NEW new, new.there, new.at = clock + 1,
           server[x].gone => new.gone,
           server' = [server EXCEPT ![x] = new], clock' = clock + 1,
           UNCHANGED <<row, log, inbox, checkpoint, from, page, pc, crossed>>,
           queue' \cup discarded' = queue \cup discarded,
           \A o \in ledger' : o \in ledger \/
              (o \in Ops /\ log[o].rec = x /\ (log[o].kind = "delete" => new.gone)),
           \A r \in Runs : \A a \in answers'[r] : a \in answers[r] \/
              (a.op \in Ops /\ log[a.op].rec = x /\ a.status # "conflict")
    PROVE  Fresh'
<1>0. /\ clock \in Nat /\ checkpoint \in Nat /\ checkpoint <= clock
      /\ \A rec \in Recs : server[rec].at \in Nat /\ server[rec].at <= clock
      /\ \A rec \in Recs : row[rec].at \in Nat \cup {Device}
      /\ \A o \in Ops : log[o].rec \in Recs
    BY Facts
<1>1. Ops' = Ops /\ queue \cup discarded \subseteq Ops /\ ledger \subseteq Ops
    BY DEF Ops, Inv, Typed, TypeOK
<1>2. server'[x] = new /\ \A rec \in Recs : rec # x => server'[rec] = server[rec]
    BY DEF Inv, Typed, TypeOK
<1>3. Landed'
  <2> SUFFICES ASSUME NEW o \in ledger'
               PROVE  /\ server'[log[o].rec].there
                      /\ log[o].kind = "delete" => server'[log[o].rec].gone
      BY DEF Landed
  <2>1. CASE o \in ledger /\ log[o].rec # x
    <3>1. log[o].rec \in Recs
        BY <1>0, <1>1, <2>1
    <3> QED BY <1>2, <2>1, <3>1 DEF Fresh, Landed
  <2>2. CASE o \in ledger /\ log[o].rec = x
      BY <1>2, <2>2 DEF Fresh, Landed
  <2>3. CASE o \notin ledger
      BY <1>2, <2>3
  <2> QED BY <2>1, <2>2, <2>3
<1>4. ASSUME NEW rec \in Recs, NEW v, VersionOf(v, rec)
      PROVE  VersionOf(v, rec)' /\ v.at <= clock
    BY <1>0, <1>2, <1>4 DEF VersionOf
<1>5. \A o \in Ops : \A seen : Lost(o, seen) => Lost(o, seen)'
    BY <1>0, <1>4 DEF Lost
<1>6. Conflicts'
  <2>1. \A c \in inbox : c.op \in Ops /\ Lost(c.op, c.seen)
      BY Facts DEF Fresh, Conflicts
  <2>2. \A r \in Runs : \A a \in answers'[r] :
            a.status = "conflict" => a.op \in Ops /\ Lost(a.op, a.seen)
      BY Facts DEF Fresh, Conflicts
  <2> QED BY <1>5, <2>1, <2>2 DEF Conflicts
<1>7. ASSUME NEW r \in Runs PROVE from[r] <= clock' /\ Pulled(r)'
  <2>1. from[r] \in Nat /\ from[r] <= clock /\ Pulled(r)
      BY Facts DEF Fresh
  <2>2. CASE pc[r] = "apply"
    <3>1. page[r].upTo \in Nat
        BY DEF Inv, Typed, PageOK
    <3>2. DOMAIN page[r].rows \subseteq Recs
        BY DEF Inv, Typed, PageOK
    <3>3. \A rec \in DOMAIN page[r].rows :
              page[r].rows[rec] = server'[rec] \/ server'[rec].at > page[r].upTo
        BY <1>0, <1>2, <2>1, <2>2, <3>1, <3>2 DEF Pulled
    <3>4. \A rec \in Recs \ DOMAIN page[r].rows :
              server'[rec].at <= from[r] \/ server'[rec].at > page[r].upTo
        BY <1>0, <1>2, <2>1, <2>2, <3>1 DEF Pulled
    <3> QED BY <1>0, <2>1, <2>2, <3>1, <3>3, <3>4 DEF Pulled
  <2> QED BY <1>0, <2>1, <2>2 DEF Pulled
<1>8. ASSUME NEW rec \in Recs
      PROVE  server'[rec].at \in Nat /\ Versioned(rec)' /\ Owned(rec)' /\ Covered(rec)'
  <2>1. Versioned(rec) /\ Owned(rec) /\ Covered(rec)
      BY DEF Fresh
  <2>2. CASE rec = x
    <3>1. server'[rec].there /\ server'[rec].at = clock + 1
        BY <1>2, <2>2
    <3>2. Versioned(rec)'
        BY <1>0, <2>1, <3>1 DEF Versioned
    <3>3. Owned(rec)' /\ Covered(rec)'
        BY <1>0, <1>1, <2>1, <3>1 DEF Owned, Covered, Edited
    <3> QED BY <1>0, <3>1, <3>2, <3>3
  <2>3. CASE rec # x
    <3>1. server'[rec] = server[rec]
        BY <1>2, <2>3
    <3>2. Versioned(rec)' /\ Owned(rec)' /\ Edited(rec)' = Edited(rec)
        BY <1>1, <2>1, <3>1 DEF Versioned, Owned, Edited
    <3>3. Pending(rec) => Pending(rec)'
      <4>1. \A o \in queue \cup discarded : EditOf(o, rec) =>
               /\ o \notin ledger'
               /\ \A r \in Runs : \A a \in answers'[r] : a.op = o => a \in answers[r]
          BY <2>3 DEF EditOf
      <4> QED BY <1>1, <3>1, <4>1, PendingStays
    <3> QED BY <1>0, <2>1, <3>1, <3>2, <3>3 DEF Covered
  <2> QED BY <2>2, <2>3
<1> QED BY <1>0, <1>3, <1>6, <1>7, <1>8 DEF Fresh

(* The server answers an op without a new version.                         *)
LEMMA FreshAnswer ==
    ASSUME Inv, Fresh, NEW r \in Runs, NEW o \in Ops,
           NEW status \in {"applied", "conflict", "rejected"},
           answers' = [answers EXCEPT ![r] = @ \cup {AnswerOf(o, status)}],
           status = "applied" => o \in ledger \/ Judge(o) = "applied",
           status = "conflict" => Judge(o) = "conflict",
           UNCHANGED <<server, ledger, clock, row, log, inbox, queue, discarded, checkpoint,
                       from, page, pc, crossed>>
    PROVE  Fresh'
<1> DEFINE x == log[o].rec
           a == AnswerOf(o, status)
<1>0. x \in Recs /\ log[o].kind \in Kinds /\ server[x].at \in Nat
    BY Facts
<1>1. Ops' = Ops /\ queue \cup discarded \subseteq Ops
    BY DEF Ops, Inv, Typed, TypeOK
<1>2. answers' = [answers EXCEPT ![r] = @ \cup {a}]
    OBVIOUS
<1>3. a.op = o /\ a.status = status /\ (status = "conflict" => a.seen = server[x])
    BY DEF AnswerOf
<1> HIDE DEF a
<1>4. \A s \in Runs : \A b \in answers'[s] : b \in answers[s] \/ b = a
    BY <1>2 DEF Inv, Typed
<1>5. Judge(o) = IF log[o].kind = "create"
        THEN IF server[x].there THEN IF server[x].gone THEN "rejected" ELSE "applied"
             ELSE IF o \in bad THEN "rejected" ELSE "lands"
        ELSE IF ~server[x].there THEN "rejected"
        ELSE IF log[o].kind = "update"
        THEN IF server[x].gone \/ server[x].at # log[o].base THEN "conflict" ELSE "lands"
        ELSE IF server[x].gone THEN IF DeletesOnce THEN "rejected" ELSE "applied"
        ELSE IF o \in bad THEN "rejected" ELSE "lands"
    BY DEF Judge
<1>6. Landed'
    BY DEF Fresh, Landed
<1>7. \A p, seen : Lost(p, seen) => Lost(p, seen)'
    BY DEF Lost, VersionOf
<1>8. a.status = "conflict" => Lost(a.op, a.seen)
    BY <1>0, <1>3, <1>5 DEF Lost, VersionOf, Kinds
<1>9. Conflicts'
  <2>1. \A c \in inbox' : Lost(c.op, c.seen)
      BY DEF Fresh, Conflicts
  <2>2. \A s \in Runs : \A b \in answers'[s] : b.status = "conflict" => Lost(b.op, b.seen)
      BY <1>4, <1>8 DEF Fresh, Conflicts
  <2> QED BY <1>7, <2>1, <2>2 DEF Conflicts
<1>10. \A s \in Runs : from'[s] <= clock /\ Pulled(s)'
    BY DEF Fresh, Pulled
<1>11. ASSUME NEW rec \in Recs PROVE Versioned(rec)' /\ Owned(rec)' /\ Covered(rec)'
  <2>1. Versioned(rec) /\ Owned(rec) /\ Covered(rec)
      BY DEF Fresh
  <2>2. Versioned(rec)' /\ Owned(rec)' /\ Edited(rec)' = Edited(rec)
      BY <1>1, <2>1 DEF Versioned, Owned, Edited
  <2>3. Live(server[rec]) /\ Pending(rec) => Pending(rec)'
    <3> SUFFICES ASSUME Live(server[rec]), Pending(rec) PROVE Pending(rec)'
        OBVIOUS
    <3>1. EditOf(o, rec) => status = "rejected"
      <4> SUFFICES ASSUME EditOf(o, rec) PROVE status = "rejected"
          OBVIOUS
      <4>1. x = rec /\ log[o].kind = "update" /\ log[o].base = server[x].at /\ o \notin ledger
          BY DEF EditOf
      <4>2. server[x].there /\ ~server[x].gone
          BY <4>1 DEF Live
      <4>3. Judge(o) = "lands"
          BY <1>5, <4>1, <4>2
      <4> QED BY <4>1, <4>3
    <3>2. \A p \in queue \cup discarded : EditOf(p, rec) =>
               /\ p \notin ledger'
               /\ \A s \in Runs : \A b \in answers'[s] :
                    b.op = p => b \in answers[s] \/ b.status = "rejected"
        BY <1>3, <1>4, <3>1 DEF EditOf
    <3> QED BY <1>1, <3>2, PendingStays
  <2> QED BY <2>1, <2>2, <2>3 DEF Covered
<1> QED BY <1>6, <1>9, <1>10, <1>11 DEF Fresh

(* A change is captured: of the row it changes its own lemma speaks.       *)
LEMMA FreshCaptured ==
    ASSUME Inv, Fresh, NEW rec \in Recs, NEW kind \in Kinds, NEW base \in Nat \cup {Device},
           Enqueue(rec, kind, base),
           UNCHANGED <<server, ledger, clock, cap, bad, checkpoint, answers, discarded,
                       pc, from, page,
                       crossed>>,
           \A c \in inbox' : \E d \in inbox : c.op = d.op /\ c.seen = d.seen,
           \A x \in Recs : x # rec => row'[x] = row[x],
           Versioned(rec)' /\ Owned(rec)',
           ~Edited(rec)' \/ row'[rec] = row[rec] \/
              (~crossed => Live(server[rec]) /\ Pending(rec)')
    PROVE  Fresh'
<1> DEFINE n == Len(log')
<1>1. /\ n \notin Ops /\ Ops' = Ops \cup {n} /\ \A o \in Ops : log'[o] = log[o]
      /\ log'[n] = [rec |-> rec, kind |-> kind, base |-> base]
      /\ queue' = queue \cup {n}
    BY Enqueued DEF Inv
<1> HIDE DEF n
<1>2. queue \cup discarded \subseteq Ops /\ ledger \subseteq Ops
    BY DEF Inv, Typed, TypeOK
<1>3. Landed'
    BY <1>1, <1>2 DEF Fresh, Landed
<1>4. \A o \in Ops : \A seen : Lost(o, seen) => Lost(o, seen)'
    BY <1>1 DEF Lost, VersionOf
<1>5. Conflicts'
  <2>1. \A c \in inbox' : c.op \in Ops /\ Lost(c.op, c.seen)
    <3> SUFFICES ASSUME NEW c \in inbox' PROVE c.op \in Ops /\ Lost(c.op, c.seen)
        OBVIOUS
    <3>1. PICK d \in inbox : c.op = d.op /\ c.seen = d.seen
        OBVIOUS
    <3> QED BY <3>1, Facts DEF Fresh, Conflicts
  <2>2. \A r \in Runs : \A a \in answers[r] :
            a.status = "conflict" => a.op \in Ops /\ Lost(a.op, a.seen)
      BY Facts DEF Fresh, Conflicts
  <2> QED BY <1>4, <2>1, <2>2 DEF Conflicts
<1>6. \A r \in Runs : from'[r] <= clock /\ Pulled(r)'
    BY DEF Fresh, Pulled
<1>7. ASSUME NEW x \in Recs PROVE Pending(x) => Pending(x)'
    BY <1>1, <1>2, PendingStays DEF EditOf
<1>8. ASSUME NEW x \in Recs PROVE Versioned(x)' /\ Owned(x)' /\ Covered(x)'
  <2>1. Versioned(x) /\ Owned(x) /\ Covered(x)
      BY DEF Fresh
  <2>2. CASE x # rec
    <3>1. row'[x] = row[x]
        BY <2>2
    <3>2. Versioned(x)' /\ Owned(x)' /\ Edited(x)' = Edited(x)
        BY <1>1, <2>1, <3>1 DEF Versioned, Owned, Edited
    <3> QED BY <1>7, <2>1, <3>2 DEF Covered
  <2>3. CASE x = rec
    <3>1. row'[rec] = row[rec] => Edited(rec)' = Edited(rec)
        BY DEF Edited
    <3> QED BY <1>7, <2>1, <2>3, <3>1 DEF Covered
  <2> QED BY <2>2, <2>3
<1> QED BY <1>3, <1>5, <1>6, <1>8 DEF Fresh

LEMMA FreshCreate ==
    ASSUME Inv, Fresh, NEW rec \in Recs, Create(rec)
    PROVE  Fresh'
<1>1. Enqueue(rec, "create", Device) /\ ~row[rec].there
    BY DEF Create
<1>2. "create" \in Kinds /\ Device \in Nat \cup {Device}
    BY DEF Kinds
<1> DEFINE n == Len(log')
           new == [there |-> TRUE, gone |-> FALSE, at |-> Device, by |-> n]
<1>3. Ops' = Ops \cup {n} /\ log'[n] = [rec |-> rec, kind |-> "create", base |-> Device]
    BY <1>1, <1>2, Enqueued DEF Inv
<1>4. row' = [row EXCEPT ![rec] = new]
    BY DEF Create
<1>5. new.there /\ ~new.gone /\ new.at = Device
    OBVIOUS
<1> HIDE DEF new, n
<1>6. row'[rec] = new /\ \A x \in Recs : x # rec => row'[x] = row[x]
    BY <1>4 DEF Inv, Typed, TypeOK
<1>7. UNCHANGED <<server, ledger, clock, cap, bad, inbox, checkpoint, answers, discarded,
                  pc, from, page,
                  crossed>>
    BY DEF Create, serverVars, runVars, flags
<1>8. ~server[rec].there
    BY <1>1 DEF Inv, Known
<1>9. Versioned(rec)' /\ Owned(rec)' /\ ~Edited(rec)'
    BY <1>3, <1>5, <1>6, <1>7, <1>8 DEF Versioned, Owned, Edited
<1> QED BY <1>1, <1>2, <1>6, <1>7, <1>9, FreshCaptured

LEMMA FreshEdit ==
    ASSUME Inv, Fresh, NEW rec \in Recs, Edit(rec)
    PROVE  Fresh'
<1>n. PICK n : n = Len(log')
    OBVIOUS
<1> DEFINE at == IF StampsRows THEN Device ELSE row[rec].at
           new == [[row[rec] EXCEPT !.by = n] EXCEPT !.at = at]
<1>0. /\ row[rec] \in Rows /\ row[rec].at \in Nat \cup {Device} /\ server[rec].at \in Nat
      /\ Versioned(rec) /\ Owned(rec) /\ Covered(rec)
    BY Facts DEF Fresh
<1>1. Enqueue(rec, "update", row[rec].at) /\ Live(row[rec]) /\ "update" \in Kinds
    BY DEF Edit, Kinds
<1>2. /\ n \notin Ops /\ Ops' = Ops \cup {n} /\ \A o \in Ops : log'[o] = log[o]
      /\ log'[n] = [rec |-> rec, kind |-> "update", base |-> row[rec].at]
      /\ queue' = queue \cup {n}
    BY <1>0, <1>1, <1>n, Enqueued DEF Inv
<1>3. row' = [row EXCEPT ![rec] = new]
    BY <1>n DEF Edit, Inv, Typed, TypeOK
<1>4. new.there = row[rec].there /\ new.gone = row[rec].gone /\ new.at = at
    BY <1>0 DEF Rows
<1> HIDE DEF new
<1>5. row'[rec] = new /\ \A x \in Recs : x # rec => row'[x] = row[x]
    BY <1>3 DEF Inv, Typed, TypeOK
<1>6. UNCHANGED <<server, ledger, clock, cap, bad, inbox, checkpoint, answers, discarded,
                  pc, from, page,
                  crossed>>
    BY DEF Edit, serverVars, runVars, flags
<1>7. Versioned(rec)'
  <2>1. at = Device \/ at = row[rec].at
      OBVIOUS
  <2> HIDE DEF at
  <2> QED BY <1>0, <1>4, <1>5, <1>6, <2>1 DEF Versioned
<1>8. Owned(rec)'
    BY <1>0, <1>1, <1>2, <1>4, <1>5, <1>6 DEF Owned, Live
<1>9. ASSUME Edited(rec)', ~crossed PROVE Live(server[rec]) /\ Pending(rec)'
  <2>1. server[rec].there /\ server[rec].at <= checkpoint
      BY <1>6, <1>9 DEF Edited
  <2>2. CASE row[rec].at # Device
    <3>1. row[rec].at = server[rec].at /\ Live(server[rec])
        BY <1>0, <1>1, <1>9, <2>1, <2>2, Facts DEF Versioned, Live
    <3>2. EditOf(n, rec)'
      <4>1. n \notin ledger
          BY <1>2 DEF Inv, Typed, TypeOK
      <4> QED BY <1>2, <1>6, <3>1, <4>1 DEF EditOf
    <3>3. Unanswered(n)'
      <4>1. \A r \in Runs : \A a \in answers[r] : a.op # n
          BY <1>2, Facts
      <4> QED BY <1>6, <4>1 DEF Unanswered
    <3> QED BY <1>2, <3>1, <3>2, <3>3 DEF Pending
  <2>3. CASE row[rec].at = Device
    <3>1. View(row[rec]) # View(server[rec])
      <4>1. row[rec].at # server[rec].at
          BY <1>0, <2>3 DEF Device
      <4> QED BY <1>1, <4>1 DEF View
    <3>2. Live(server[rec]) /\ Pending(rec)
        BY <1>0, <1>1, <1>9, <2>1, <3>1 DEF Covered, Edited
    <3>3. queue \cup discarded \subseteq Ops
        BY DEF Inv, Typed, TypeOK
    <3>4. Pending(rec)'
        BY <1>2, <1>6, <3>2, <3>3, PendingStays DEF EditOf
    <3> QED BY <3>2, <3>4
  <2> QED BY <2>2, <2>3
<1> QED BY <1>0, <1>1, <1>5, <1>6, <1>7, <1>8, <1>9, FreshCaptured

LEMMA FreshRemove ==
    ASSUME Inv, Fresh, NEW rec \in Recs, Remove(rec)
    PROVE  Fresh'
<1> DEFINE n == Len(log')
           new == [[row[rec] EXCEPT !.gone = TRUE] EXCEPT !.at = Device]
<1>0. row[rec] \in Rows /\ Owned(rec)
    BY Facts DEF Fresh
<1>1. Enqueue(rec, "delete", Device) /\ "delete" \in Kinds /\ Device \in Nat \cup {Device}
    BY DEF Remove, Kinds
<1>2. /\ Ops' = Ops \cup {n} /\ \A o \in Ops : log'[o] = log[o]
      /\ log'[n] = [rec |-> rec, kind |-> "delete", base |-> Device]
    BY <1>1, Enqueued DEF Inv
<1>3. row' = [row EXCEPT ![rec] = new]
    BY DEF Remove, Inv, Typed, TypeOK
<1>4. new.there = row[rec].there /\ new.gone /\ new.at = Device
    BY <1>0 DEF Rows
<1> HIDE DEF new, n
<1>5. row'[rec] = new /\ \A x \in Recs : x # rec => row'[x] = row[x]
    BY <1>3 DEF Inv, Typed, TypeOK
<1>6. UNCHANGED <<server, ledger, clock, cap, bad, inbox, checkpoint, answers, discarded,
                  pc, from, page,
                  crossed>>
    BY DEF Remove, serverVars, runVars, flags
<1>7. Versioned(rec)' /\ Owned(rec)' /\ ~Edited(rec)'
    BY <1>0, <1>2, <1>4, <1>5, <1>6 DEF Versioned, Owned, Edited, Live
<1> QED BY <1>1, <1>5, <1>6, <1>7, FreshCaptured

(* A conflict is resolved: by a new change, or by the document the server  *)
(* showed, which is old only where a pull brings what is newer, unless it  *)
(* has brought it before.                                                  *)
LEMMA FreshResolve ==
    ASSUME Inv, Fresh, NEW c \in inbox, NEW choice \in MayChoose, Resolve(c, choice)
    PROVE  Fresh'
<1> DEFINE d == [c EXCEPT !.open = FALSE]
<1>r. PICK rec \in Recs : rec = log[c.op].rec
    BY Facts
<1>0. /\ c \in [op : Ops, seen : Rows, open : BOOLEAN]
      /\ clock \in Nat /\ checkpoint \in Nat /\ server[rec].at \in Nat
    BY Facts DEF Inv, Typed, TypeOK
<1>1. /\ d.op = c.op /\ d.seen = c.seen /\ c.seen \in Rows /\ c.op \in Ops
      /\ c.seen.at \in Nat \cup {Device}
    BY <1>0 DEF Rows
<1>2. Lost(c.op, c.seen) /\ VersionOf(c.seen, rec) /\ c.seen.there
    BY <1>r DEF Fresh, Conflicts, Lost, Inv, Known
<1>3. inbox' = (inbox \ {c}) \cup {d} \/ inbox' = inbox
    BY DEF Resolve
<1> HIDE DEF d
<1>4. \A e \in inbox' : \E f \in inbox : e.op = f.op /\ e.seen = f.seen
    BY <1>1, <1>3
<1>5. UNCHANGED <<server, ledger, clock, cap, bad, checkpoint, answers, discarded, pc,
                  from, page>>
    BY DEF Resolve, serverVars, runVars
<1>6. Versioned(rec) /\ Owned(rec) /\ Covered(rec) /\ row[rec].there
    BY <1>1, <1>r DEF Fresh, Inv, Known
<1>7. CASE Enqueue(rec, "update", c.seen.at) /\ UNCHANGED <<row, crossed>>
  <2>1. "update" \in Kinds
      BY DEF Kinds
  <2>2. Ops \subseteq Ops' /\ \A o \in Ops : log'[o] = log[o]
      BY <1>0, <1>1, <1>7, <2>1, Enqueued DEF Inv
  <2>3. Versioned(rec)' /\ Owned(rec)'
      BY <1>5, <1>6, <1>7, <2>2 DEF Versioned, Owned
  <2> QED BY <1>0, <1>1, <1>4, <1>5, <1>7, <2>1, <2>3, FreshCaptured
<1>8. CASE /\ row' = [row EXCEPT ![rec] = c.seen]
           /\ crossed' = (crossed \/ PulledSince(c)) /\ UNCHANGED outboxVars
  <2>0. UNCHANGED <<log, queue>> /\ Ops' = Ops
      BY <1>8 DEF outboxVars, Ops
  <2>1. row'[rec] = c.seen /\ \A x \in Recs : x # rec => row'[x] = row[x]
      BY <1>0, <1>8 DEF Inv, Typed, TypeOK
  <2>2. ~crossed' => c.seen = server[rec] \/ server[rec].at > checkpoint
    <3>1. PulledSince(c) <=> server[rec].at \in c.seen.at + 1 .. checkpoint
        BY <1>r DEF PulledSince
    <3>2. ~crossed' => ~PulledSince(c)
        BY <1>8, Zenon
    <3> QED BY <1>0, <1>2, <3>1, <3>2 DEF VersionOf
  <2>3. Landed'
      BY <1>5, <2>0 DEF Fresh, Landed
  <2>4. \A o, seen : Lost(o, seen) => Lost(o, seen)'
      BY <1>5, <2>0 DEF Lost, VersionOf
  <2>5. Conflicts'
    <3>1. \A e \in inbox' : Lost(e.op, e.seen)
      <4> SUFFICES ASSUME NEW e \in inbox' PROVE Lost(e.op, e.seen)
          OBVIOUS
      <4>1. PICK f \in inbox : e.op = f.op /\ e.seen = f.seen
          BY <1>4
      <4> QED BY <4>1 DEF Fresh, Conflicts
    <3>2. \A r \in Runs : \A a \in answers[r] : a.status = "conflict" => Lost(a.op, a.seen)
        BY DEF Fresh, Conflicts
    <3> QED BY <1>5, <2>4, <3>1, <3>2 DEF Conflicts
  <2>6. \A r \in Runs : from'[r] <= clock /\ Pulled(r)'
      BY <1>5 DEF Fresh, Pulled
  <2>7. ASSUME NEW x \in Recs PROVE Versioned(x)' /\ Owned(x)' /\ Covered(x)'
    <3>1. CASE x = rec
      <4>1. c.seen.at \in Nat /\ c.seen.at # Device
          BY <1>2 DEF VersionOf, Device
      <4>2. Versioned(rec)'
          BY <1>0, <1>2, <1>5, <2>1, <2>2, <4>1 DEF Versioned, VersionOf
      <4>3. Owned(rec)'
          BY <1>5, <1>6, <2>0, <2>1, <4>1 DEF Owned
      <4>4. Covered(rec)'
          BY <1>0, <1>5, <2>1, <2>2 DEF Covered, Edited
      <4> QED BY <3>1, <4>2, <4>3, <4>4
    <3>2. CASE x # rec
      <4>1. Versioned(x) /\ Owned(x) /\ Covered(x) /\ row'[x] = row[x] /\ (crossed => crossed')
        <5>1. crossed => crossed'
            BY <1>8, Zenon
        <5> QED BY <2>1, <3>2, <5>1 DEF Fresh
      <4>2. Versioned(x)' /\ Owned(x)' /\ Edited(x)' = Edited(x)
          BY <1>5, <2>0, <4>1 DEF Versioned, Owned, Edited
      <4>3. Pending(x)' = Pending(x)
          BY <1>5, <2>0 DEF Pending, EditOf, Unanswered
      <4> QED BY <1>5, <4>1, <4>2, <4>3 DEF Covered
    <3> QED BY <3>1, <3>2
  <2> QED BY <1>5, <2>3, <2>5, <2>6, <2>7 DEF Fresh
<1> QED BY <1>7, <1>8, <1>r DEF Resolve

-----------------------------------------------------------------------------
(* What is fetched is what the server has behind the checkpoint.           *)
LEMMA FreshPage ==
    ASSUME Inv, Fresh, NEW r \in Runs, Fetch(r)
    PROVE  \A s \in Runs : from[s] <= clock /\ Pulled(s)'
<1> DEFINE changed == {rec \in Recs : server[rec].at > from[r]}
           S == {from[r]} \cup {server[rec].at : rec \in changed}
           p == [rows |-> [rec \in changed |-> server[rec]], upTo |-> Max(S)]
<1>1. page' = [page EXCEPT ![r] = p] /\ DOMAIN page = Runs
    BY DEF Fetch, Inv, Typed
<1>2. /\ clock \in Nat /\ \A s \in Runs : from[s] \in Nat /\ from[s] <= clock
      /\ \A rec \in Recs : server[rec].at \in Nat /\ server[rec].at <= clock
    BY Facts DEF Fresh
<1>3. S \in SUBSET (0..clock) /\ S # {}
    BY <1>2
<1>4. /\ Max(S) \in 0..clock /\ from[r] <= Max(S)
      /\ \A rec \in changed : server[rec].at <= Max(S)
  <2>1. from[r] \in S /\ \A rec \in changed : server[rec].at \in S
      OBVIOUS
  <2> HIDE DEF S
  <2>2. Max(S) \in S /\ \A x \in S : x <= Max(S)
      BY <1>2, <1>3, MaxIsMember
  <2>3. Max(S) \in 0..clock
      BY <1>3, <2>2, Zenon
  <2> QED BY <2>1, <2>2, <2>3
<1>5. /\ UNCHANGED <<server, clock, from>>
      /\ \A s \in Runs : s # r => pc'[s] = pc[s] /\ page'[s] = page[s]
      /\ page'[r] = p
    BY <1>1 DEF Fetch, Goto, serverVars, Inv, Typed, TypeOK
<1>6. /\ DOMAIN p.rows = changed /\ p.upTo = Max(S)
      /\ \A rec \in changed : p.rows[rec] = server[rec]
    OBVIOUS
<1> HIDE DEF p, S
<1>7. Pulled(r)'
  <2>1. \A rec \in changed : p.rows[rec].at \in 0..p.upTo
      BY <1>2, <1>4, <1>6
  <2>2. \A rec \in Recs \ changed : server[rec].at <= from[r]
      BY <1>2
  <2> HIDE DEF changed
  <2> QED BY <1>4, <1>5, <1>6, <2>1, <2>2 DEF Pulled
<1>8. ASSUME NEW s \in Runs, s # r PROVE Pulled(s)'
  <2>1. Pulled(s)
      BY DEF Fresh
  <2> QED BY <1>5, <1>8, <2>1 DEF Pulled
<1> QED BY <1>2, <1>7, <1>8

(* A page is applied: a row is the server's, or ahead of the page.         *)
LEMMA FreshApply ==
    ASSUME Inv, Fresh, NEW r \in Runs, Apply(r)
    PROVE  Fresh'
<1> DEFINE p == page[r]
<1>1. /\ UNCHANGED <<server, ledger, clock, cap, bad, log, queue, inbox, answers,
                     discarded>>
      /\ \A rec \in Recs : row'[rec] = Merge(r, rec)
      /\ checkpoint' = p.upTo /\ crossed' = (crossed \/ checkpoint # from[r])
      /\ Ops' = Ops
    BY DEF Apply, Goto, serverVars, outboxVars, Ops
<1>c. (crossed => crossed') /\ (~crossed' => checkpoint = from[r])
    BY <1>1, Zenon
<1>2. /\ \A s \in Runs : from'[s] = from[s] \/ from'[s] = 0
      /\ \A s \in Runs : pc'[s] = "apply" => pc[s] = "apply" /\ from'[s] = from[s]
                                              /\ page'[s] = page[s]
    BY DEF Apply, Goto, Inv, Typed, TypeOK
<1>3. /\ clock \in Nat /\ checkpoint \in Nat /\ from[r] \in Nat /\ p.upTo \in Nat
      /\ \A rec \in Recs : server[rec].at \in Nat
      /\ DOMAIN p.rows \subseteq Recs /\ \A rec \in DOMAIN p.rows : p.rows[rec].there
    BY Facts DEF Inv, Typed, PageOK
<1>4. /\ from[r] <= p.upTo /\ p.upTo <= clock
      /\ \A rec \in DOMAIN p.rows :
            /\ p.rows[rec].at \in 0..p.upTo
            /\ p.rows[rec] = server[rec] \/ server[rec].at > p.upTo
      /\ \A rec \in Recs \ DOMAIN p.rows : server[rec].at <= from[r] \/ server[rec].at > p.upTo
    BY DEF Fresh, Pulled, Apply
<1>5. \A rec \in Recs : server[rec].at > 0 => server[rec].there
    BY DEF Inv, Known
<1>6. \A rec \in Recs : server[rec].there => row[rec].there
    BY DEF Inv, Known
<1>7. \A rec \in Recs : row'[rec] = IF rec \notin DOMAIN p.rows THEN row[rec]
                                    ELSE IF p.rows[rec].gone /\ ~row[rec].there THEN row[rec]
                                    ELSE p.rows[rec]
    BY <1>1 DEF Merge
<1> HIDE DEF p
<1>8. Landed'
    BY <1>1 DEF Fresh, Landed
<1>9. Conflicts'
    BY <1>1 DEF Fresh, Conflicts, Lost, VersionOf
<1>10. \A s \in Runs : from'[s] <= clock /\ Pulled(s)'
  <2> SUFFICES ASSUME NEW s \in Runs PROVE from'[s] <= clock /\ Pulled(s)'
      OBVIOUS
  <2>1. from[s] <= clock /\ Pulled(s)
      BY DEF Fresh
  <2> QED BY <1>1, <1>2, <1>3, <2>1 DEF Pulled
<1>11. ASSUME NEW rec \in Recs PROVE Versioned(rec)' /\ Owned(rec)' /\ Covered(rec)'
  <2>0. Versioned(rec) /\ Owned(rec) /\ Covered(rec)
      BY DEF Fresh
  <2>1. CASE rec \in DOMAIN p.rows
    <3>1. server[rec].there
        BY <1>3, <1>4, <1>5, <2>1
    <3>2. row'[rec] = p.rows[rec]
        BY <1>6, <1>7, <2>1, <3>1
    <3>3. /\ p.rows[rec].at \in Nat /\ p.rows[rec].at <= p.upTo
          /\ p.rows[rec] = server[rec] \/ server[rec].at > p.upTo
        BY <1>3, <1>4, <2>1
    <3>4. Versioned(rec)'
        BY <1>1, <1>3, <3>2, <3>3 DEF Versioned
    <3>5. Owned(rec)'
        BY <1>1, <3>1, <3>2, <3>3 DEF Owned, Device
    <3>6. Covered(rec)'
        BY <1>1, <1>3, <3>2, <3>3 DEF Covered, Edited
    <3> QED BY <3>4, <3>5, <3>6
  <2>2. CASE rec \notin DOMAIN p.rows
    <3>1. row'[rec] = row[rec]
        BY <1>7, <2>2
    <3>2. server[rec].at <= from[r] \/ server[rec].at > p.upTo
        BY <1>4, <2>2
    <3>3. Versioned(rec)'
        BY <1>1, <1>3, <1>4, <1>c, <2>0, <3>1, <3>2, Facts DEF Versioned
    <3>4. Owned(rec)'
        BY <1>1, <2>0, <3>1 DEF Owned
    <3>5. Pending(rec)' = Pending(rec)
        BY <1>1 DEF Pending, EditOf, Unanswered
    <3>6. Covered(rec)'
        BY <1>1, <1>3, <1>4, <1>c, <2>0, <3>1, <3>2, <3>5 DEF Covered, Edited
    <3> QED BY <3>3, <3>4, <3>6
  <2> QED BY <2>1, <2>2
<1> QED BY <1>1, <1>3, <1>4, <1>8, <1>9, <1>10, <1>11 DEF Fresh

LEMMA FreshStep == Inv /\ Fresh /\ [Next]_vars => Fresh'
<1> SUFFICES ASSUME Inv, Fresh, [Next]_vars PROVE Fresh'
    OBVIOUS
<1>0. /\ \A r \in Runs : from[r] \in Nat /\ from[r] <= clock /\ Pulled(r)
      /\ clock \in Nat /\ checkpoint <= clock
      /\ pc \in [Runs -> {"idle", "sent", "orphan", "settle", "pull", "fetch", "apply"}]
      /\ from \in [Runs -> Nat] /\ answers \in [Runs -> SUBSET Answers]
    BY Facts DEF Fresh, Inv, Typed, TypeOK
<1>s. \A c \in inbox : \E d \in inbox : c.op = d.op /\ c.seen = d.seen
    OBVIOUS
<1>1. CASE UNCHANGED vars
    BY <1>0, <1>1, <1>s, FreshUntouched DEF vars, outboxVars, runVars, serverVars, flags, Pulled
<1>2. ASSUME NEW rec \in Recs, Create(rec) \/ Edit(rec) \/ Remove(rec) PROVE Fresh'
    BY <1>2, FreshCreate, FreshEdit, FreshRemove
<1>3. ASSUME NEW rec \in Recs, Remote(rec) PROVE Fresh'
  <2>1. PICK gone \in BOOLEAN : server' = [server EXCEPT ![rec] =
            [there |-> TRUE, gone |-> gone, at |-> clock', by |-> Others]]
      BY <1>3 DEF Remote
  <2> DEFINE new == [there |-> TRUE, gone |-> gone, at |-> clock', by |-> Others]
  <2>2. /\ server' = [server EXCEPT ![rec] = new] /\ clock' = clock + 1
        /\ UNCHANGED <<ledger, row, log, inbox, checkpoint, from, page, pc, crossed,
                       answers,
                       queue, discarded>>
        /\ ~server[rec].gone
      BY <1>3, <2>1 DEF Remote, Live, outboxVars, runVars, flags
  <2>3. new.there /\ new.at = clock + 1
      BY <2>2
  <2> HIDE DEF new
  <2> QED BY <2>2, <2>3, FreshServer
<1>4. ASSUME NEW o \in Ops, Retry(o) \/ Discard(o) \/ Elapse(o) PROVE Fresh'
  <2>1. /\ UNCHANGED <<server, ledger, clock, cap, bad, row, log, inbox, checkpoint, pc,
                       answers,
                       from, page, crossed>>
        /\ queue \cup discarded \subseteq queue' \cup discarded'
      BY <1>4 DEF Retry, Discard, Elapse, serverVars, runVars, outboxVars, flags
  <2> QED BY <1>0, <1>s, <2>1, FreshUntouched DEF Pulled
<1>5. ASSUME NEW c \in inbox, NEW choice \in MayChoose, Resolve(c, choice) PROVE Fresh'
    BY <1>5, FreshResolve
<1>6. ASSUME NEW r \in Runs, Flush(r) PROVE Fresh'
  <2>1. /\ UNCHANGED <<server, ledger, clock, cap, bad, row, log, queue, inbox,
                       checkpoint, answers,
                       from, page, discarded, crossed>>
        /\ \A s \in Runs : pc'[s] = "apply" => pc[s] = "apply"
    <3>1. /\ UNCHANGED <<server, ledger, clock, cap, bad, row, log, queue, inbox,
                         checkpoint, answers,
                         from, page, discarded, crossed>>
          /\ pc' = [pc EXCEPT ![r] = IF Batch = {} THEN "pull" ELSE "sent"]
        BY <1>6 DEF Flush, Goto, serverVars, outboxVars, flags
    <3> HIDE DEF Batch
    <3> QED BY <1>0, <3>1
  <2> QED BY <1>0, <1>s, <2>1, FreshUntouched DEF Pulled
<1>7. ASSUME NEW r \in Runs, Serve(r) PROVE Fresh'
  <2>0. Typed
      BY DEF Inv
  <2>1. PICK o \in Ops : \E status : Served(r, o, status)
      BY <1>7, <2>0, ServeCases
  <2>2. PICK status : Served(r, o, status)
      BY <2>1
  <2>3. UNCHANGED <<row, log, queue, inbox, checkpoint, from, page, pc, discarded, crossed>>
      BY <1>7 DEF Serve, ServeOp, outboxVars
  <2>4. /\ status \in {"applied", "rejected", "conflict"}
        /\ answers' = [answers EXCEPT ![r] = @ \cup {AnswerOf(o, status)}]
      BY <2>2 DEF Served
  <2>5. PICK x \in Recs : x = log[o].rec
      BY Facts
  <2>a. \A s \in Runs : \A a \in answers'[s] : a \in answers[s] \/ a = AnswerOf(o, status)
      BY <1>0, <2>4
  <2>b. AnswerOf(o, status).op = o /\ AnswerOf(o, status).status = status
      BY DEF AnswerOf
  <2>6. CASE Telling(o, status)
    <3>1. /\ status = "applied" => o \in ledger \/ Judge(o) = "applied"
          /\ status = "conflict" => Judge(o) = "conflict"
          /\ UNCHANGED <<server, ledger, clock>>
        BY <2>6 DEF Telling
    <3> QED BY <2>3, <2>4, <3>1, FreshAnswer
  <2>7. CASE Landing(o, status)
    <3> DEFINE new == Written(o)
    <3>1. /\ status = "applied" /\ Judge(o) = "lands" /\ o \notin ledger
          /\ clock' = clock + 1 /\ ledger' = ledger \cup {o}
          /\ server' = [server EXCEPT ![x] = new]
        BY <2>5, <2>7 DEF Landing
    <3>2. new.there /\ new.at = clock + 1 /\ new.gone = (log[o].kind = "delete")
        BY DEF Written
    <3>3. server[x].gone => FALSE
      <4>1. log[o].kind \in Kinds /\ (server[x].gone => server[x].there)
          BY Facts DEF Inv, Known
      <4> QED BY <2>5, <3>1, <4>1 DEF Judge, Kinds
    <3>4. \A s \in Runs : \A a \in answers'[s] :
              a \in answers[s] \/ (a.op \in Ops /\ log[a.op].rec = x /\ a.status # "conflict")
        BY <2>5, <2>a, <2>b, <3>1
    <3> HIDE DEF new
    <3> QED BY <2>3, <2>5, <3>1, <3>2, <3>3, <3>4, FreshServer
  <2>8. CASE Moving(o, status)
    <3> DEFINE new == [server[x] EXCEPT !.at = clock + 1]
    <3>1. /\ status = "rejected" /\ Judge(o) = "lands" /\ log[o].kind = "update"
          /\ clock' = clock + 1 /\ ledger' = ledger
          /\ server' = [server EXCEPT ![x] = new]
        BY <2>5, <2>8 DEF Moving
    <3>2. new.there /\ new.at = clock + 1 /\ ~server[x].gone
      <4>1. server[x].there /\ ~server[x].gone
          BY <2>5, <3>1 DEF Judge
      <4>2. server[x] \in Rows
          BY Facts
      <4> QED BY <4>1, <4>2 DEF Rows
    <3>4. \A s \in Runs : \A a \in answers'[s] :
              a \in answers[s] \/ (a.op \in Ops /\ log[a.op].rec = x /\ a.status # "conflict")
        BY <2>5, <2>a, <2>b, <3>1
    <3> HIDE DEF new
    <3> QED BY <2>3, <2>5, <3>1, <3>2, <3>4, FreshServer
  <2> QED BY <2>2, <2>6, <2>7, <2>8 DEF Served
<1>8. ASSUME NEW r \in Runs, Record(r) PROVE Fresh'
  <2> DEFINE new == {[op |-> a.op, seen |-> a.seen, open |-> TRUE] :
                        a \in {b \in answers[r] : b.status = "conflict"}}
  <2>1. /\ UNCHANGED <<server, ledger, clock, cap, bad, row, log, queue, checkpoint,
                       answers, from, page,
                       discarded, crossed>>
        /\ inbox' = inbox \cup new /\ pc' = [pc EXCEPT ![r] = "settle"]
      BY <1>8 DEF Record, Goto, serverVars, outboxVars, flags
  <2>2. \A c \in new : \E a \in answers[r] :
            a.status = "conflict" /\ c.op = a.op /\ c.seen = a.seen
      OBVIOUS
  <2> HIDE DEF new
  <2>3. \A s \in Runs : pc'[s] = "apply" => pc[s] = "apply"
      BY <1>0, <2>1
  <2>4. \A c \in inbox' :
              \/ \E d \in inbox : c.op = d.op /\ c.seen = d.seen
              \/ \E s \in Runs : \E a \in answers[s] :
                    a.status = "conflict" /\ c.op = a.op /\ c.seen = a.seen
      BY <2>1, <2>2
  <2> QED BY <1>0, <2>1, <2>3, <2>4, FreshUntouched DEF Pulled
<1>9. ASSUME NEW r \in Runs, Settle(r) PROVE Fresh'
  <2>1. PICK a \in answers[r] :
          /\ \/ a.status # "rejected" /\ queue' = queue \ {a.op}
             \/ UNCHANGED queue
          /\ answers' = [answers EXCEPT ![r] = @ \ {a}]
          /\ Goto(r, IF answers'[r] = {} THEN "pull" ELSE "settle")
      BY <1>9 DEF Settle
  <2>2. UNCHANGED <<server, ledger, clock, cap, bad, row, log, inbox, checkpoint, from,
                    page, discarded,
                    crossed>>
      BY <1>9 DEF Settle, serverVars, flags
  <2>3. \A s \in Runs : answers'[s] \subseteq answers[s]
      BY <1>0, <2>1
  <2>4. \A s \in Runs : pc'[s] = "apply" => pc[s] = "apply"
    <3> DEFINE l == IF answers'[r] = {} THEN "pull" ELSE "settle"
    <3>1. pc' = [pc EXCEPT ![r] = l] /\ l \in {"pull", "settle"}
        BY <2>1 DEF Goto
    <3> HIDE DEF l
    <3> QED BY <1>0, <3>1
  <2>5. \A o \in queue : o \in queue' \/ (a.op = o /\ a.status # "rejected")
      BY <2>1
  <2> QED BY <1>0, <1>s, <2>2, <2>3, <2>4, <2>5, FreshUntouched DEF Pulled
<1>10. ASSUME NEW r \in Runs, ReadCheckpoint(r) PROVE Fresh'
  <2>1. /\ UNCHANGED <<server, ledger, clock, cap, bad, row, log, queue, inbox,
                       checkpoint, answers, page,
                       discarded, crossed>>
        /\ from' = [from EXCEPT ![r] = checkpoint] /\ pc' = [pc EXCEPT ![r] = "fetch"]
      BY <1>10 DEF ReadCheckpoint, Goto, serverVars, outboxVars, flags
  <2>2. \A s \in Runs : /\ from'[s] <= clock
                        /\ pc'[s] = "apply" => pc[s] = "apply" /\ from'[s] = from[s]
      BY <1>0, <2>1
  <2>3. \A s \in Runs : Pulled(s)'
      BY <1>0, <2>1, <2>2 DEF Pulled
  <2> QED BY <1>s, <2>1, <2>2, <2>3, FreshUntouched
<1>11. ASSUME NEW r \in Runs, Fetch(r) PROVE Fresh'
  <2>1. UNCHANGED <<server, ledger, clock, cap, bad, row, log, queue, inbox, checkpoint,
                    answers, from,
                    discarded, crossed>>
      BY <1>11 DEF Fetch, serverVars, outboxVars, flags
  <2>2. \A s \in Runs : from'[s] <= clock /\ Pulled(s)'
      BY <1>11, <2>1, FreshPage
  <2> QED BY <1>s, <2>1, <2>2, FreshUntouched
<1>12. ASSUME NEW r \in Runs, Apply(r) PROVE Fresh'
    BY <1>12, FreshApply
<1>13. ASSUME NEW r \in Runs, Lose(r) \/ Vanish(r) PROVE Fresh'
  <2>1. /\ UNCHANGED <<server, ledger, clock, cap, bad, row, log, queue, inbox,
                       checkpoint, discarded,
                       crossed>>
        /\ answers' = [answers EXCEPT ![r] = {}]
        /\ \/ from' = [from EXCEPT ![r] = 0] /\ page' = [page EXCEPT ![r] = NoPage]
           \/ UNCHANGED <<from, page>>
        /\ pc' = [pc EXCEPT ![r] = "orphan"] \/ pc' = [pc EXCEPT ![r] = "idle"]
      BY <1>13 DEF Lose, Vanish, Goto, serverVars, outboxVars, flags
  <2>2. /\ \A s \in Runs : answers'[s] \subseteq answers[s]
        /\ \A s \in Runs : from'[s] <= clock
        /\ \A s \in Runs : pc'[s] = "apply" =>
              pc[s] = "apply" /\ from'[s] = from[s] /\ page'[s] = page[s]
    <3>1. DOMAIN page = Runs
        BY DEF Inv, Typed
    <3>2. \A s \in Runs : pc'[s] = "apply" => s # r /\ pc[s] = "apply"
        BY <1>0, <2>1
    <3>3. \A s \in Runs : from'[s] <= clock /\ (s # r => from'[s] = from[s])
        BY <1>0, <2>1
    <3>4. \A s \in Runs : s # r => page'[s] = page[s]
        BY <2>1, <3>1
    <3> QED BY <1>0, <2>1, <3>2, <3>3, <3>4
  <2>3. \A s \in Runs : Pulled(s)'
      BY <1>0, <2>1, <2>2 DEF Pulled
  <2> QED BY <1>s, <2>1, <2>2, <2>3, FreshUntouched
<1> QED BY <1>1, <1>2, <1>3, <1>4, <1>5, <1>6, <1>7, <1>8, <1>9, <1>10, <1>11, <1>12, <1>13
        DEF Next, Advance

(* Whatever the device does not show of the server is still behind its     *)
(* checkpoint, or is about to be changed by an op of its own, as long as   *)
(* no pull is applied over another one and no conflict is resolved to a    *)
(* document that was replaced since: with any number of runs of syncNow    *)
(* over one checkpoint, whatever is edited, deleted, answered and lost     *)
(* between the read of the checkpoint and the page that moves it.          *)
THEOREM NothingIsSkipped == Spec => []NothingSkippedAlone
<1>1. Inv /\ Fresh => NothingSkippedAlone
  <2> SUFFICES ASSUME Inv, Fresh, ~crossed, NEW rec \in Recs,
                      View(row[rec]) # View(server[rec]), ~(server[rec].at > checkpoint)
               PROVE  \E o \in queue \cup discarded : log[o].rec = rec
      BY DEF NothingSkippedAlone, NothingSkipped
  <2>0. /\ server[rec].at \in Nat /\ checkpoint \in Nat /\ server[rec].at <= checkpoint
        /\ Versioned(rec) /\ Owned(rec) /\ Covered(rec)
        /\ server[rec].there => row[rec].there
      BY Facts DEF Fresh, Inv, Known
  <2>1. \A o \in Ops : \/ o \in queue \cup discarded
                       \/ o \in ledger
                       \/ log[o].kind = "delete" /\ server[log[o].rec].gone
                       \/ log[o].kind = "update"
      BY DEF Inv, Kept, Safe, InInbox, Fresh, Conflicts, Lost
  <2>2. CASE ~server[rec].there
    <3>1. row[rec].there
        BY <2>2 DEF View, Live
    <3>2. PICK o \in Ops : log[o].rec = rec /\ log[o].kind = "create"
        BY <2>0, <2>2, <3>1 DEF Owned
    <3> QED BY <2>1, <2>2, <3>2 DEF Fresh, Landed
  <2>3. CASE server[rec].there /\ Live(row[rec])
    <3>1. Pending(rec)
        BY <2>0, <2>3 DEF Covered, Edited
    <3> QED BY <3>1 DEF Pending, EditOf
  <2>4. CASE server[rec].there /\ ~Live(row[rec])
    <3>1. row[rec].gone /\ row[rec].there /\ ~server[rec].gone
        BY <2>0, <2>4 DEF View, Live
    <3>2. row[rec].at = Device
        BY <2>0, <3>1 DEF Versioned
    <3>3. PICK o \in Ops : log[o].rec = rec /\ log[o].kind = "delete"
        BY <2>0, <3>1, <3>2 DEF Owned
    <3> QED BY <2>1, <3>1, <3>3 DEF Fresh, Landed
  <2> QED BY <2>2, <2>3, <2>4
<1>2. Inv /\ Fresh /\ [Next]_vars => Fresh'
    BY FreshStep
<1> QED BY <1>1, <1>2, FreshStart, InvHolds, PTL DEF Spec
-----------------------------------------------------------------------------
(* Why ops of one record land in their order.  Two changes that follow an  *)
(* edit make its base old; a change that follows a delete is sent together *)
(* with it, or after the server has dealt with it or refused it for good.  *)
Follows(p, o) == o < p /\ SameRec(o, p)
Held(o, p) == p \notin ledger /\ \A r \in Runs : p \in sent[r] => o \in sent[r]
DeleteFirst(o, p) == Follows(p, o) /\ log[o].kind = "delete" =>
    /\ server[log[o].rec].there
    /\ server[log[o].rec].gone \/ o \in erred \cup discarded \cup bad \/ Held(o, p)
EditFirst(o, p) == Follows(p, o) /\ log[o].kind = "update" /\ p \in ledger =>
    log[o].base < server[log[o].rec].at

(* What the device deleted is live again only as a record of the server.   *)
Reborn(rec) == Live(row[rec]) /\ ~server[rec].there =>
    \A o \in Ops : log[o].rec = rec => log[o].kind # "delete"

Order ==
    /\ \A o \in Ops : log[o].base <= clock
    /\ \A rec \in Recs : Reborn(rec)
    /\ \A o, p \in Ops : DeleteFirst(o, p) /\ EditFirst(o, p)

LEMMA OrderStart == Init => Order
<1> SUFFICES ASSUME Init PROVE Order
    OBVIOUS
<1>1. Ops = {}
    BY DEF Init, Ops
<1> QED BY <1>1 DEF Order, Reborn

(* A delete that is followed is still queued, or settled.                  *)
LEMMA DeleteQueued ==
    ASSUME Inv, Fresh, NEW o \in Ops, log[o].kind = "delete", ~server[log[o].rec].gone
    PROVE  o \in queue \cup discarded /\ o \notin ledger
<1>1. o \notin ledger
    BY DEF Fresh, Landed
<1>2. ~InInbox(o)
    BY DEF InInbox, Fresh, Conflicts, Lost
<1> QED BY <1>1, <1>2 DEF Inv, Kept, Safe

(* A step that brings the server nothing; a request is new as a batch,     *)
(* which has every queued op of a record before the last of it.            *)
LEMMA OrderUntouched ==
    ASSUME Inv, Fresh, Order, UNCHANGED <<server, ledger, clock, cap, bad, log>>,
           \A rec \in Recs : row'[rec] = row[rec] \/ server[rec].there,
           erred \subseteq erred', discarded \subseteq discarded',
           \A r \in Runs : sent'[r] \in {sent[r], {}, Batch}
    PROVE  Order'
<1>1. Ops' = Ops /\ \A o \in Ops : log[o].rec \in Recs /\ o \in Nat
    BY Facts DEF Ops
<1>2. \A rec \in Recs : Reborn(rec)'
    BY <1>1 DEF Order, Reborn
<1>3. ASSUME NEW o \in Ops, NEW p \in Ops PROVE DeleteFirst(o, p)' /\ EditFirst(o, p)'
  <2>1. DeleteFirst(o, p) /\ EditFirst(o, p)
      BY DEF Order
  <2>2. Follows(p, o)' = Follows(p, o)
      BY DEF Follows, SameRec
  <2>3. EditFirst(o, p)'
      BY <2>1, <2>2 DEF EditFirst
  <2>4. ASSUME Follows(p, o), log[o].kind = "delete", ~server[log[o].rec].gone,
               o \notin erred' \cup discarded' \cup bad'
        PROVE  Held(o, p)'
    <3>1. Held(o, p)
        BY <2>1, <2>4 DEF DeleteFirst
    <3>2. o \in queue
        BY <2>4, DeleteQueued
    <3>3. p \in Batch => o \in Batch
      <4> SUFFICES ASSUME p \in Batch, NEW q \in queue, q <= o, SameRec(q, o)
                   PROVE  ~Blocks(q)
          BY <3>2 DEF Batch
      <4>1. q \in Nat /\ o < p /\ SameRec(o, p)
          BY <1>1, <2>4 DEF Follows, Inv, Typed, TypeOK
      <4>2. q <= p /\ SameRec(q, p)
          BY <1>1, <4>1 DEF SameRec
      <4> QED BY <4>2 DEF Batch
    <3> QED BY <3>1, <3>3 DEF Held
  <2>5. DeleteFirst(o, p)'
      BY <2>1, <2>2, <2>4 DEF DeleteFirst
  <2> QED BY <2>3, <2>5
<1> QED BY <1>1, <1>2, <1>3 DEF Order

(* A change is captured, after all the others.                             *)
LEMMA OrderCaptured ==
    ASSUME Inv, Fresh, Order,
           NEW rec \in Recs, NEW kind \in Kinds, NEW base \in Nat \cup {Device},
           Enqueue(rec, kind, base), base <= clock,
           UNCHANGED <<server, ledger, clock, cap, bad, sent, erred, discarded>>,
           \A x \in Recs : x # rec => row'[x] = row[x],
           Live(row'[rec]) => row'[rec] = row[rec] \/ Live(row[rec]) \/ ~row[rec].there,
           kind = "delete" => ~Live(row'[rec]),
           server[rec].there \/ Live(row[rec]) \/ ~row[rec].there
    PROVE  Order'
<1>n. PICK n : n = Len(log')
    OBVIOUS
<1>1. /\ n \notin Ops /\ Ops' = Ops \cup {n} /\ \A o \in Ops : log'[o] = log[o]
      /\ log'[n] = [rec |-> rec, kind |-> kind, base |-> base]
    BY <1>n, Enqueued DEF Inv
<1>2. n \in Nat /\ \A o \in Ops : o \in Nat /\ o < n
    BY <1>n, <1>1 DEF Ops, Inv, Typed, Enqueue
<1>3. \A o \in Ops : log[o].rec \in Recs
    BY Facts
<1>4. ledger \subseteq Ops /\ \A r \in Runs : sent[r] \subseteq Ops
    BY DEF Inv, Typed, TypeOK
<1>5. \A o \in Ops : row[log[o].rec].there
    BY DEF Inv, Known
<1>6. \A o \in Ops' : log'[o].base <= clock
    BY <1>1 DEF Order
<1>7. ASSUME NEW x \in Recs PROVE Reborn(x)'
  <2>1. Reborn(x)
      BY DEF Order
  <2>2. CASE x # rec
      BY <1>1, <2>1, <2>2 DEF Reborn
  <2>3. CASE x = rec
    <3> SUFFICES ASSUME Live(row'[rec]), ~server[rec].there, NEW o \in Ops', log'[o].rec = rec
                 PROVE  log'[o].kind # "delete"
        BY <2>3 DEF Reborn
    <3>1. CASE o = n
        BY <1>1, <3>1
    <3>2. CASE o \in Ops
      <4>1. Live(row[rec])
          BY <1>1, <1>5, <3>2
      <4> QED BY <1>1, <2>1, <2>3, <3>2, <4>1 DEF Reborn
    <3> QED BY <1>1, <3>1, <3>2
  <2> QED BY <2>2, <2>3
<1>8. ASSUME NEW o \in Ops, NEW p \in Ops PROVE DeleteFirst(o, p)' /\ EditFirst(o, p)'
  <2>1. DeleteFirst(o, p) /\ EditFirst(o, p)
      BY DEF Order
  <2>2. Follows(p, o)' = Follows(p, o) /\ Held(o, p)' = Held(o, p)
      BY <1>1 DEF Follows, SameRec, Held
  <2> QED BY <1>1, <2>1, <2>2 DEF DeleteFirst, EditFirst
<1>9. ASSUME NEW o \in Ops PROVE DeleteFirst(o, n)' /\ EditFirst(o, n)'
  <2>1. Held(o, n)' /\ n \notin ledger'
      BY <1>1, <1>4 DEF Held
  <2>2. log[o].rec = rec /\ log[o].kind = "delete" => server[rec].there
      BY <1>5 DEF Order, Reborn
  <2>3. Follows(n, o)' => log[o].rec = rec
      BY <1>1 DEF Follows, SameRec
  <2> QED BY <1>1, <2>1, <2>2, <2>3 DEF DeleteFirst, EditFirst
<1>10. ASSUME NEW p \in Ops' PROVE ~Follows(p, n)'
    BY <1>1, <1>2 DEF Follows
<1>11. \A o, p \in Ops' : DeleteFirst(o, p)' /\ EditFirst(o, p)'
    BY <1>1, <1>8, <1>9, <1>10 DEF DeleteFirst, EditFirst
<1> QED BY <1>6, <1>7, <1>11 DEF Order

(* The server writes a record: for an op it serves, or another device.     *)
LEMMA OrderWritten ==
    ASSUME Inv, Fresh, Order, NEW x \in Recs, NEW new,
           new.there, new.at = clock + 1, server[x].gone => new.gone,
           server' = [server EXCEPT ![x] = new], clock' = clock + 1,
           UNCHANGED <<row, log, discarded>>, erred \subseteq erred', bad \subseteq bad',
           \A r \in Runs : sent'[r] \subseteq sent[r],
           \A r \in Runs : \A o \in sent[r] \ sent'[r] :
              log[o].rec = x /\ (log[o].kind = "delete" => new.gone),
           \A p \in ledger' \ ledger : p \in Ops /\ log[p].rec = x
              /\ \E r \in Runs : p \in sent[r] /\ \A q \in sent[r] : p <= q
    PROVE  Order'
<1>1. Ops' = Ops /\ \A o \in Ops : log[o].rec \in Recs /\ o \in Nat
    BY Facts DEF Ops
<1>2. /\ server'[x] = new /\ \A rec \in Recs : rec # x => server'[rec] = server[rec]
      /\ clock \in Nat
    BY DEF Inv, Typed, TypeOK
<1>3. \A o \in Ops : log[o].base \in Nat \cup {Device}
    BY DEF Inv, Typed, TypeOK
<1>4. \A o \in Ops' : log'[o].base <= clock'
    BY <1>1, <1>2, <1>3 DEF Order, Device
<1>5. \A rec \in Recs : Reborn(rec)'
  <2> SUFFICES ASSUME NEW rec \in Recs PROVE Reborn(rec)'
      OBVIOUS
  <2>1. server[rec].there => server'[rec].there
      BY <1>2
  <2> QED BY <1>1, <2>1 DEF Order, Reborn
<1>6. ASSUME NEW o \in Ops, NEW p \in Ops PROVE DeleteFirst(o, p)' /\ EditFirst(o, p)'
  <2>1. DeleteFirst(o, p) /\ EditFirst(o, p)
      BY DEF Order
  <2>2. Follows(p, o)' = Follows(p, o)
      BY DEF Follows, SameRec
  <2>3. EditFirst(o, p)'
    <3>1. CASE log[o].rec = x
      <4>1. log[o].base < server'[x].at
          BY <1>2, <1>3 DEF Order, Device
      <4> QED BY <3>1, <4>1 DEF EditFirst
    <3>2. CASE log[o].rec # x
      <4>1. Follows(p, o) /\ p \in ledger' => p \in ledger
          BY <3>2 DEF Follows, SameRec
      <4> QED BY <1>1, <1>2, <2>1, <2>2, <3>2, <4>1 DEF EditFirst
    <3> QED BY <3>1, <3>2
  <2>4. ASSUME Follows(p, o), log[o].kind = "delete"
        PROVE  /\ server'[log[o].rec].there
               /\ server'[log[o].rec].gone \/ o \in erred' \cup discarded' \cup bad'
                     \/ Held(o, p)'
    <3>1. /\ server[log[o].rec].there
          /\ server[log[o].rec].gone \/ o \in erred \cup discarded \cup bad \/ Held(o, p)
        BY <2>1, <2>4 DEF DeleteFirst
    <3>2. server'[log[o].rec].there
        BY <1>1, <1>2, <3>1
    <3>3. server[log[o].rec].gone => server'[log[o].rec].gone
        BY <1>1, <1>2
    <3>4. ASSUME Held(o, p), ~server'[log[o].rec].gone PROVE Held(o, p)'
      <4>1. p \notin ledger'
        <5> SUFFICES ASSUME p \in ledger' PROVE FALSE
            OBVIOUS
        <5>1. PICK r \in Runs : p \in sent[r] /\ \A q \in sent[r] : p <= q
            BY <3>4 DEF Held
        <5>2. o \in sent[r] /\ o < p
            BY <2>4, <3>4, <5>1 DEF Held, Follows
        <5> QED BY <1>1, <5>1, <5>2
      <4>2. ASSUME NEW r \in Runs, p \in sent'[r] PROVE o \in sent'[r]
        <5>1. o \in sent[r]
            BY <3>4, <4>2 DEF Held
        <5> QED BY <1>2, <2>4, <3>4, <5>1
      <4> QED BY <4>1, <4>2 DEF Held
    <3> QED BY <3>1, <3>2, <3>3, <3>4
  <2>5. DeleteFirst(o, p)'
      BY <2>2, <2>4 DEF DeleteFirst
  <2> QED BY <2>3, <2>5
<1> QED BY <1>1, <1>4, <1>5, <1>6 DEF Order

(* The server answers an op without writing: a delete only when the record *)
(* is gone, or over an error.                                              *)
LEMMA OrderAnswered ==
    ASSUME Inv, Fresh, Order, NEW r \in Runs, NEW o \in Ops, NEW status,
           Served(r, o, status), Telling(o, status),
           UNCHANGED <<row, log, discarded>>
    PROVE  Order'
<1>1. Ops' = Ops /\ \A p \in Ops : log[p].rec \in Recs /\ log[p].kind \in Kinds
    BY Facts DEF Ops
<1>2. /\ \A s \in Runs : sent'[s] \subseteq sent[s]
      /\ \A s \in Runs : \A p \in sent[s] \ sent'[s] : p = o
      /\ erred \subseteq erred' /\ bad \subseteq bad'
    BY DEF Served, Inv, Typed
<1>3. server' = server /\ ledger' = ledger /\ clock' = clock /\ clock \in Nat
    BY Facts DEF Telling
<1>4. log[o].kind = "delete" /\ server[log[o].rec].there =>
          server[log[o].rec].gone \/ o \in erred' \cup bad'
  <2> SUFFICES ASSUME log[o].kind = "delete", server[log[o].rec].there,
                      ~server[log[o].rec].gone
               PROVE  o \in erred' \cup bad'
      OBVIOUS
  <2>1. (Judge(o) = "lands" \/ o \in bad) /\ o \notin ledger
      BY DeleteQueued DEF Judge
  <2>2. status \in {"applied", "rejected", "conflict"}
      BY DEF Served
  <2> QED BY <1>2, <2>1, <2>2 DEF Telling
<1>5. \A rec \in Recs : Reborn(rec)'
    BY <1>1, <1>3 DEF Order, Reborn
<1>6. ASSUME NEW p \in Ops, NEW q \in Ops PROVE DeleteFirst(p, q)' /\ EditFirst(p, q)'
  <2>1. DeleteFirst(p, q) /\ EditFirst(p, q)
      BY DEF Order
  <2>2. Follows(q, p)' = Follows(q, p)
      BY DEF Follows, SameRec
  <2>3. EditFirst(p, q)'
      BY <1>3, <2>1, <2>2 DEF EditFirst
  <2>4. p # o /\ Held(p, q) => Held(p, q)'
      BY <1>2, <1>3 DEF Held
  <2>5. DeleteFirst(p, q)'
      BY <1>2, <1>3, <1>4, <2>1, <2>2, <2>4 DEF DeleteFirst
  <2> QED BY <2>3, <2>5
<1> QED BY <1>1, <1>3, <1>5, <1>6 DEF Order

LEMMA OrderStep == Inv /\ Fresh /\ Order /\ [Next]_vars => Order'
<1> SUFFICES ASSUME Inv, Fresh, Order, [Next]_vars PROVE Order'
    OBVIOUS
<1>0. /\ sent \in [Runs -> SUBSET Ops] /\ answers \in [Runs -> SUBSET Answers]
      /\ row \in [Recs -> Rows] /\ clock \in Nat
      /\ \A rec \in Recs : /\ row[rec].at \in Nat \cup {Device} /\ row[rec] \in Rows
                           /\ server[rec].at \in Nat /\ server[rec].at <= clock
                           /\ row[rec].at <= clock
  <2>1. \A rec \in Recs : Versioned(rec)
      BY DEF Fresh
  <2> QED BY <2>1, Facts DEF Inv, Typed, TypeOK, Versioned, Device
<1>1. CASE UNCHANGED vars
    BY <1>1, OrderUntouched DEF vars, outboxVars, runVars, serverVars, flags
<1>2. ASSUME NEW rec \in Recs, Create(rec) PROVE Order'
  <2>1. /\ Enqueue(rec, "create", Device) /\ ~row[rec].there
        /\ UNCHANGED <<server, ledger, clock, cap, bad, sent, erred, discarded>>
        /\ \A x \in Recs : x # rec => row'[x] = row[x]
      BY <1>0, <1>2 DEF Create, serverVars, runVars, flags
  <2>2. "create" \in Kinds /\ Device \in Nat \cup {Device} /\ Device <= clock
      BY <1>0 DEF Kinds, Device
  <2> QED BY <2>1, <2>2, OrderCaptured
<1>3. ASSUME NEW rec \in Recs, Edit(rec) PROVE Order'
  <2>1. /\ Enqueue(rec, "update", row[rec].at) /\ Live(row[rec])
        /\ UNCHANGED <<server, ledger, clock, cap, bad, sent, erred, discarded>>
        /\ \A x \in Recs : x # rec => row'[x] = row[x]
      BY <1>0, <1>3 DEF Edit, serverVars, runVars, flags
  <2>2. "update" \in Kinds
      BY DEF Kinds
  <2> QED BY <1>0, <2>1, <2>2, OrderCaptured
<1>4. ASSUME NEW rec \in Recs, Remove(rec) PROVE Order'
  <2>1. /\ Enqueue(rec, "delete", Device) /\ Live(row[rec])
        /\ UNCHANGED <<server, ledger, clock, cap, bad, sent, erred, discarded>>
        /\ \A x \in Recs : x # rec => row'[x] = row[x]
      BY <1>0, <1>4 DEF Remove, serverVars, runVars, flags
  <2>2. ~Live(row'[rec])
    <3> DEFINE new == [[row[rec] EXCEPT !.gone = TRUE] EXCEPT !.at = Device]
    <3>1. row' = [row EXCEPT ![rec] = new]
        BY <1>0, <1>4 DEF Remove
    <3>2. new.gone
        BY <1>0 DEF Rows
    <3> HIDE DEF new
    <3> QED BY <1>0, <3>1, <3>2 DEF Live
  <2>3. "delete" \in Kinds /\ Device \in Nat \cup {Device} /\ Device <= clock
      BY <1>0 DEF Kinds, Device
  <2> QED BY <2>1, <2>2, <2>3, OrderCaptured
<1>5. ASSUME NEW rec \in Recs, Remote(rec) PROVE Order'
  <2>1. PICK gone \in BOOLEAN : server' = [server EXCEPT ![rec] =
            [there |-> TRUE, gone |-> gone, at |-> clock', by |-> Others]]
      BY <1>5 DEF Remote
  <2> DEFINE new == [there |-> TRUE, gone |-> gone, at |-> clock', by |-> Others]
  <2>2. /\ server' = [server EXCEPT ![rec] = new] /\ clock' = clock + 1
        /\ UNCHANGED <<ledger, bad, row, log, sent, erred, discarded>>
        /\ ~server[rec].gone
      BY <1>5, <2>1 DEF Remote, Live, outboxVars, runVars, flags
  <2>3. new.there /\ new.at = clock + 1
      BY <2>2
  <2> HIDE DEF new
  <2> QED BY <2>2, <2>3, OrderWritten
<1>6. ASSUME NEW o \in Ops, Retry(o) \/ Discard(o) \/ Elapse(o) PROVE Order'
  <2>1. /\ UNCHANGED <<server, ledger, clock, cap, bad, row, log, sent, erred>>
        /\ discarded \subseteq discarded'
      BY <1>6 DEF Retry, Discard, Elapse, serverVars, runVars, outboxVars, flags
  <2> QED BY <2>1, OrderUntouched
<1>7. ASSUME NEW c \in inbox, NEW choice \in MayChoose, Resolve(c, choice) PROVE Order'
  <2>1. PICK rec \in Recs : rec = log[c.op].rec
      BY Facts
  <2>2. UNCHANGED <<server, ledger, clock, cap, bad, sent, discarded, erred>>
      BY <1>7 DEF Resolve, serverVars, runVars
  <2>3. /\ c.seen \in Rows /\ c.seen.at \in Nat /\ c.seen.at <= server[rec].at
        /\ server[rec].there
    <3>1. VersionOf(c.seen, rec) /\ c.seen \in Rows /\ c.seen.there
        BY <2>1, Facts DEF Fresh, Conflicts, Lost, Inv, Known
    <3>2. server[rec].at > 0 => server[rec].there
        BY DEF Inv, Known
    <3> QED BY <1>0, <3>1, <3>2 DEF VersionOf
  <2>4. CASE row' = [row EXCEPT ![rec] = c.seen] /\ UNCHANGED outboxVars
    <3>1. \A x \in Recs : row'[x] = row[x] \/ server[x].there
        BY <1>0, <2>3, <2>4
    <3> QED BY <2>2, <2>4, <3>1, OrderUntouched DEF outboxVars
  <2>5. CASE Enqueue(rec, "update", c.seen.at) /\ UNCHANGED row
    <3>1. "update" \in Kinds /\ c.seen.at \in Nat \cup {Device} /\ c.seen.at <= clock
        BY <1>0, <2>3 DEF Kinds
    <3> QED BY <2>2, <2>3, <2>5, <3>1, OrderCaptured
  <2> QED BY <1>7, <2>1, <2>4, <2>5 DEF Resolve
<1>8. ASSUME NEW r \in Runs, Flush(r) PROVE Order'
  <2>1. /\ UNCHANGED <<server, ledger, clock, cap, bad, row, log, erred, discarded>>
        /\ sent' = [sent EXCEPT ![r] = Batch]
      BY <1>8 DEF Flush, serverVars, outboxVars, flags
  <2>2. \A s \in Runs : sent'[s] \in {sent[s], {}, Batch}
    <3> HIDE DEF Batch
    <3> QED BY <1>0, <2>1
  <2> QED BY <2>1, <2>2, OrderUntouched
<1>9. ASSUME NEW r \in Runs, Serve(r) PROVE Order'
  <2>0. Typed
      BY DEF Inv
  <2>1. PICK o \in Ops : \E status :
            o \in sent[r] /\ (\A p \in sent[r] : o <= p) /\ Served(r, o, status)
      BY <1>9, <2>0, ServeCases
  <2>2. PICK status : Served(r, o, status)
      BY <2>1
  <2>3. UNCHANGED <<row, log, discarded>>
      BY <1>9 DEF Serve, ServeOp, outboxVars
  <2>a. /\ sent' = [sent EXCEPT ![r] = @ \ {o}]
        /\ erred \subseteq erred' /\ bad \subseteq bad'
      BY <2>2 DEF Served
  <2>b. /\ \A s \in Runs : sent'[s] \subseteq sent[s]
        /\ \A s \in Runs : \A p \in sent[s] \ sent'[s] : p = o
      BY <1>0, <2>a
  <2>c. PICK x \in Recs : x = log[o].rec
      BY Facts
  <2>4. CASE Telling(o, status)
      BY <2>2, <2>3, <2>4, OrderAnswered
  <2>5. CASE Landing(o, status)
    <3> DEFINE new == Written(o)
    <3>1. /\ Judge(o) = "lands" /\ clock' = clock + 1 /\ ledger' = ledger \cup {o}
          /\ server' = [server EXCEPT ![x] = new]
        BY <2>5, <2>c DEF Landing
    <3>2. new.there /\ new.at = clock + 1 /\ new.gone = (log[o].kind = "delete")
        BY DEF Written
    <3>3. ~server[x].gone
      <4>1. log[o].kind \in Kinds /\ (server[x].gone => server[x].there)
          BY Facts DEF Inv, Known
      <4> QED BY <2>c, <3>1, <4>1 DEF Judge, Kinds
    <3> HIDE DEF new
    <3>4. \A s \in Runs : \A p \in sent[s] \ sent'[s] :
                log[p].rec = x /\ (log[p].kind = "delete" => new.gone)
        BY <2>b, <2>c, <3>2
    <3>5. \A p \in ledger' \ ledger : p \in Ops /\ log[p].rec = x
              /\ \E s \in Runs : p \in sent[s] /\ \A q \in sent[s] : p <= q
        BY <2>1, <2>c, <3>1
    <3> QED BY <2>3, <2>a, <2>b, <3>1, <3>2, <3>3, <3>4, <3>5, OrderWritten
  <2>6. CASE Moving(o, status)
    <3> DEFINE new == [server[x] EXCEPT !.at = clock + 1]
    <3>1. /\ Judge(o) = "lands" /\ log[o].kind = "update"
          /\ clock' = clock + 1 /\ ledger' = ledger
          /\ server' = [server EXCEPT ![x] = new]
        BY <2>6, <2>c DEF Moving
    <3>2. new.there /\ new.at = clock + 1 /\ ~server[x].gone
      <4>1. server[x].there /\ ~server[x].gone
          BY <2>c, <3>1 DEF Judge
      <4>2. server[x] \in Rows
          BY Facts
      <4> QED BY <4>1, <4>2 DEF Rows
    <3> HIDE DEF new
    <3>4. \A s \in Runs : \A p \in sent[s] \ sent'[s] :
                log[p].rec = x /\ (log[p].kind = "delete" => new.gone)
        BY <2>b, <2>c, <3>1
    <3> QED BY <2>3, <2>a, <2>b, <3>1, <3>2, <3>4, OrderWritten
  <2> QED BY <2>2, <2>4, <2>5, <2>6 DEF Served
<1>10. ASSUME NEW r \in Runs, Record(r) \/ Settle(r) \/ ReadCheckpoint(r) \/ Fetch(r)
       PROVE  Order'
  <2>1. UNCHANGED <<server, ledger, clock, cap, bad, row, log, sent, erred, discarded>>
      BY <1>10 DEF Record, Settle, ReadCheckpoint, Fetch, serverVars, outboxVars, flags
  <2> QED BY <2>1, OrderUntouched
<1>11. ASSUME NEW r \in Runs, Apply(r) PROVE Order'
  <2>1. /\ UNCHANGED <<server, ledger, clock, cap, bad, log, sent, erred, discarded>>
        /\ \A rec \in Recs : row'[rec] = Merge(r, rec)
      BY <1>11 DEF Apply, serverVars, outboxVars
  <2>2. \A rec \in DOMAIN page[r].rows : rec \in Recs => server[rec].there
    <3>1. Pulled(r) /\ pc[r] = "apply" /\ page[r].upTo \in Nat
        BY <1>11 DEF Fresh, Apply, Inv, Typed, PageOK
    <3>2. \A rec \in DOMAIN page[r].rows : page[r].rows[rec].there
        BY DEF Inv, Typed, PageOK
    <3>3. \A rec \in Recs : server[rec].at > 0 => server[rec].there
        BY DEF Inv, Known
    <3> QED BY <1>0, <3>1, <3>2, <3>3 DEF Pulled
  <2>3. \A rec \in Recs : row'[rec] = row[rec] \/ server[rec].there
      BY <2>1, <2>2 DEF Merge
  <2> QED BY <2>1, <2>3, OrderUntouched
<1>12. ASSUME NEW r \in Runs, Lose(r) \/ Vanish(r) PROVE Order'
  <2>1. /\ UNCHANGED <<server, ledger, clock, cap, bad, row, log, erred, discarded>>
        /\ sent' = sent \/ sent' = [sent EXCEPT ![r] = {}]
      BY <1>12 DEF Lose, Vanish, serverVars, outboxVars, flags
  <2>2. \A s \in Runs : sent'[s] \in {sent[s], {}, Batch}
    <3> HIDE DEF Batch
    <3> QED BY <1>0, <2>1
  <2> QED BY <2>1, <2>2, OrderUntouched
<1> QED BY <1>1, <1>2, <1>3, <1>4, <1>5, <1>6, <1>7, <1>8, <1>9, <1>10, <1>11, <1>12
        DEF Next, Advance

(* Only an op that is served lands, and only what its verdict lets.        *)
LEMMA LandsByVerdict ==
    ASSUME Inv, [Next]_vars, NEW o \in ledger', o \notin ledger
    PROVE  o \in Ops /\ Judge(o) = "lands"
<1>1. PICK r \in Runs : Serve(r)
    BY DEF Next, Advance, vars, serverVars, Create, Edit, Remove, Remote, Retry, Discard, Elapse,
           Resolve, Flush, Record, Settle, ReadCheckpoint, Fetch, Apply, Lose, Vanish
<1>2. PICK p \in Ops : \E status : Served(r, p, status)
    BY <1>1, ServeCases DEF Inv
<1> QED BY <1>2 DEF Served, Landing, Moving, Telling

(* The server applies what the device did to a record in the order in      *)
(* which it was done, with any number of runs over one outbox, whatever is *)
(* held back, retried, answered late or sent twice: but for an op that     *)
(* failed over an error of the server, and for one the user discarded while*)
(* a request still carried it.                                             *)
THEOREM InOrder == Spec => LandsInOrder
<1>1. Inv /\ Fresh /\ Order /\ [Next]_vars =>
          [\A o \in ledger' \ ledger, p \in ledger :
              log[o].rec = log[p].rec => p < o \/ o \in erred \cup discarded]_vars
  <2> SUFFICES ASSUME Inv, Fresh, Order, [Next]_vars,
                      NEW o \in ledger' \ ledger, NEW p \in ledger,
                      log[o].rec = log[p].rec, o \notin erred \cup discarded
               PROVE  p < o
      OBVIOUS
  <2>1. o \in Ops /\ p \in Ops /\ Judge(o) = "lands"
      BY LandsByVerdict DEF Inv, Typed, TypeOK
  <2>2. o \in Nat /\ p \in Nat /\ o # p
      BY <2>1 DEF Ops
  <2>3. /\ log[o].rec \in Recs /\ log[o].kind \in Kinds
        /\ server[log[o].rec].there /\ server[log[o].rec].at \in Nat
        /\ (server[log[o].rec].gone => server[log[o].rec].there)
      BY <2>1, Facts DEF Fresh, Landed
  <2>4. DeleteFirst(o, p) /\ EditFirst(o, p)
      BY <2>1 DEF Order
  <2>5. ~Follows(p, o)
    <3>1. log[o].kind = "update" => log[o].base = server[log[o].rec].at
        BY <2>1 DEF Judge
    <3>2. log[o].kind = "delete" => ~server[log[o].rec].gone /\ o \notin bad
        BY <2>1, <2>3 DEF Judge
    <3>3. log[o].kind # "create"
        BY <2>1, <2>3 DEF Judge
    <3> QED BY <2>3, <2>4, <3>1, <3>2, <3>3 DEF DeleteFirst, EditFirst, Held, Kinds
  <2> QED BY <2>2, <2>5 DEF Follows, SameRec
<1>2. Inv /\ Fresh /\ [Next]_vars => Fresh'
    BY FreshStep
<1>3. Inv /\ Fresh /\ Order /\ [Next]_vars => Order'
    BY OrderStep
<1> QED BY <1>1, <1>2, <1>3, FreshStart, OrderStart, InvHolds, PTL DEF Spec, LandsInOrder

=============================================================================
