--------------------------- MODULE SyncPush_proofs ---------------------------
(* Proofs about SyncPush, for any number of requests, operations,          *)
(* documents and batches.                                                  *)
EXTENDS SyncPush, TLAPS, SequenceTheorems

(* A handler at one of its stages has an operation of the universe at the  *)
(* head of its list, about one of the documents.                           *)
LEMMA CurrentOp ==
    ASSUME TypeOK, NEW h \in Handlers, todo[h] # <<>>
    PROVE  /\ Op(h) \in Ops
           /\ Doc(h) \in Docs
           /\ Tail(todo[h]) \in Seq(Ops)
PROOF
<1>1. todo[h] \in Seq(Ops)
  BY DEF TypeOK
<1>2. Head(todo[h]) \in Ops /\ Tail(todo[h]) \in Seq(Ops)
  BY <1>1, HeadTailProperties
<1> QED
  BY <1>2, OpsAssumption DEF Op, Doc

(* The initial states have their types. *)
LEMMA TypeInit == Init => TypeOK
PROOF
  BY DEF Init, TypeOK, Labels, Working, Statuses

(* Every stamp the clock can give is a number.                             *)
LEMMA StampsAreNat ==
    ASSUME NEW t \in Stamps
    PROVE  t \in Nat
PROOF
  BY ClockAssumption DEF Stamps

(* A save leaves a version and the history of the documents well-typed.    *)
LEMMA StampType ==
    ASSUME TypeOK, NEW d \in Docs, NEW t \in Stamps, StampAt(d, t)
    PROVE  updatedAt' \in [Docs -> Nat] /\ rewound' \subseteq Docs
PROOF
<1>1. t \in Nat
  BY StampsAreNat DEF TypeOK
<1> QED
  BY <1>1 DEF StampAt, TypeOK

(* The count of the times an op has taken effect keeps its type.           *)
LEMMA LandType ==
    ASSUME landed \in [Ops -> 0..2], NEW op \in Ops, Land(op)
    PROVE  landed' \in [Ops -> 0..2]
PROOF
<1>1. (IF landed[op] = 0 THEN 1 ELSE 2) \in 0..2
  OBVIOUS
<1> QED
  BY <1>1 DEF Land

(* Every step keeps the types.  Staged supplies the head of the list, and  *)
(* Answered the status that Settle stores.                                 *)
LEMMA TypeStep ==
    ASSUME TypeOK, Staged, Answered, [Next]_vars
    PROVE  TypeOK'
PROOF
<1> USE DEF TypeOK, Labels, Working, Statuses
<1>1. CASE UNCHANGED vars
  BY <1>1 DEF vars, docVars, runVars
<1>2. ASSUME NEW op \in Ops, Compose(op) PROVE TypeOK'
  BY <1>2, OpsAssumption DEF Compose, docVars, runVars
<1>3. ASSUME NEW op \in Ops, Expire(op) PROVE TypeOK'
  BY <1>3 DEF Expire, docVars, runVars
<1>4. ASSUME NEW h \in Handlers, NEW batch \in Batches, Receive(h, batch)
      PROVE  TypeOK'
  BY <1>4, BatchAssumption DEF Receive, Goto, docVars
<1>5. ASSUME NEW h \in Handlers, Crash(h) PROVE TypeOK'
  BY <1>5 DEF Crash, Goto, Forget, docVars
<1>6. ASSUME NEW h \in Handlers, Respond(h) PROVE TypeOK'
  BY <1>6 DEF Respond, Goto, docVars, Final
<1>7. ASSUME NEW h \in Handlers, Fail(h) PROVE TypeOK'
  BY <1>7 DEF Fail, Outcome, Goto, docVars
<1>8. ASSUME NEW h \in Handlers, Step(h), ~Respond(h) PROVE TypeOK'
  <2>0. todo[h] # <<>>
    BY <1>8 DEF Staged, Step, Claim, Poll, ReadForCreate, Insert, ReadForUpdate,
        Cas, Fresh, Reload, Save, Raise, ReadForDelete, Remove, Settle, Release
  <2>1. /\ Op(h) \in Ops /\ Doc(h) \in Docs /\ Tail(todo[h]) \in Seq(Ops)
    BY <2>0, CurrentOp
  <2>2. CASE Claim(h)
    BY <2>1, <2>2 DEF Claim, Goto, docVars
  <2>3. CASE Poll(h)
    BY <2>1, <2>3 DEF Poll, Report, Forget, Goto, docVars
  <2>4. CASE ReadForCreate(h)
    BY <2>1, <2>4 DEF ReadForCreate, Outcome, Goto, docVars
  <2>5. CASE Insert(h)
    <3>1. CASE exists[Doc(h)]
      BY <2>1, <2>5, <3>1 DEF Insert, Outcome, Goto
    <3>2. CASE ~exists[Doc(h)]
      <4>1. updatedAt' \in [Docs -> Nat] /\ rewound' \subseteq Docs
        BY <2>1, <2>5, <3>2, StampType DEF Insert
      <4>2. landed' \in [Ops -> 0..2]
        BY <2>1, <2>5, <3>2, LandType DEF Insert
      <4>3. exists' \in [Docs -> BOOLEAN]
        BY <2>1, <2>5, <3>2, Zenon DEF Insert
      <4>4. UNCHANGED <<removed, ledger, base, todo, seen, bumped, results, told>>
        BY <2>5 DEF Insert
      <4>5. pc' \in [Handlers -> Labels] /\ outcome' \in [Handlers -> Statuses]
        BY <2>1, <2>5, <3>2 DEF Insert, Outcome, Goto
      <4> QED
        BY <4>1, <4>2, <4>3, <4>4, <4>5
    <3> QED
      BY <3>1, <3>2, <2>1
  <2>6. CASE ReadForUpdate(h)
    BY <2>1, <2>6 DEF ReadForUpdate, Outcome, Goto, docVars
  <2>7. CASE Cas(h)
    <3>1. CASE updatedAt[Doc(h)] # seen[h]
      BY <2>1, <2>7, <3>1 DEF Cas, Goto
    <3>2. CASE updatedAt[Doc(h)] = seen[h]
      <4>1. PICK t \in Stamps :
               LET at == IF t > seen[h] THEN t ELSE seen[h] + 1
               IN /\ bumped' = [bumped EXCEPT ![h] = at]
                  /\ updatedAt' = [updatedAt EXCEPT ![Doc(h)] = at]
        BY <2>7, <3>2 DEF Cas
      <4>2. t \in Nat
        BY <4>1, StampsAreNat
      <4>3. (IF t > seen[h] THEN t ELSE seen[h] + 1) \in Nat
        BY <4>2
      <4>4. /\ bumped' \in [Handlers -> Nat]
            /\ updatedAt' \in [Docs -> Nat]
        BY <2>1, <4>1, <4>2, <4>3
      <4> QED
        BY <2>7, <3>2, <4>4 DEF Cas, Goto
    <3> QED
      BY <3>1, <3>2
  <2>8. CASE Fresh(h)
    BY <2>1, <2>8 DEF Fresh, Outcome, Goto, docVars
  <2>9. CASE Reload(h)
    BY <2>1, <2>9 DEF Reload, Outcome, Goto, docVars
  <2>10. CASE Save(h)
    <3>1. PICK t \in Stamps : /\ StampAt(Doc(h), t)
                             /\ seen' = [seen EXCEPT ![h] = t]
      BY <2>10 DEF Save
    <3>2. t \in Nat
      BY <3>1, StampsAreNat
    <3>3. landed' \in [Ops -> 0..2]
      BY <2>1, <2>10, LandType DEF Save
    <3>4. updatedAt' \in [Docs -> Nat] /\ rewound' \subseteq Docs
      BY <2>1, <3>1, StampType
    <3> QED
      BY <2>1, <2>10, <3>1, <3>2, <3>3, <3>4 DEF Save, Goto
  <2>11. CASE Raise(h)
    BY <2>1, <2>11 DEF Raise, Outcome, Goto
  <2>12. CASE ReadForDelete(h)
    BY <2>1, <2>12 DEF ReadForDelete, Outcome, Goto, docVars
  <2>13. CASE Remove(h)
    <3>1. landed' \in [Ops -> 0..2]
      BY <2>1, <2>13, LandType DEF Remove
    <3>2. updatedAt' \in [Docs -> Nat] /\ rewound' \subseteq Docs
      <4>1. CASE UNCHANGED <<updatedAt, rewound>>
        BY <4>1
      <4>2. CASE \E t \in Stamps : StampAt(Doc(h), t)
        BY <2>1, <4>2, StampType
      <4> QED
        BY <2>13, <4>1, <4>2 DEF Remove
    <3>3. removed' \in [Docs -> BOOLEAN]
      BY <2>1, <2>13, Zenon DEF Remove
    <3> QED
      BY <2>1, <2>13, <3>1, <3>2, <3>3 DEF Remove, Outcome, Goto
  <2>14. CASE Settle(h)
    BY <2>1, <2>14 DEF Answered, AnsweredAt, Success, Settle, Report, Forget, Goto, docVars
  <2>15. CASE Release(h)
    BY <2>1, <2>15 DEF Release, Report, Forget, Goto, docVars
  <2> QED
    BY <1>8, <2>2, <2>3, <2>4, <2>5, <2>6, <2>7, <2>8, <2>9, <2>10, <2>11,
       <2>12, <2>13, <2>14, <2>15 DEF Step
<1> QED
  BY <1>1, <1>2, <1>3, <1>4, <1>5, <1>6, <1>7, <1>8 DEF Next
-----------------------------------------------------------------------------
(* What moves the handler h, and only h. *)
Turn(h) == \/ \E batch \in Batches : Receive(h, batch)
           \/ Step(h) \/ Fail(h) \/ Crash(h)

(* A step stutters, is of the client or the clock, or is of one handler.   *)
LEMMA NextCases ==
    ASSUME [Next]_vars
    PROVE  \/ UNCHANGED vars
           \/ \E op \in Ops : Compose(op) \/ Expire(op)
           \/ \E h \in Handlers : Turn(h)
PROOF
  BY DEF Next, Turn

(* The locals of the other requests stay as they are. *)
LEMMA OthersKeep ==
    ASSUME TypeOK, NEW h \in Handlers, Turn(h), NEW g \in Handlers, g # h
    PROVE  /\ pc'[g] = pc[g] /\ todo'[g] = todo[g]
           /\ seen'[g] = seen[g] /\ bumped'[g] = bumped[g]
           /\ outcome'[g] = outcome[g]
           /\ results'[g] = results[g]
PROOF
<1> USE DEF TypeOK, Goto, Outcome, Report, Forget
<1>1. CASE \E batch \in Batches : Receive(h, batch)
  BY <1>1 DEF Receive
<1>2. CASE Fail(h)
  BY <1>2 DEF Fail
<1>3. CASE Crash(h)
  BY <1>3 DEF Crash
<1>4. CASE Claim(h) \/ Poll(h) \/ Settle(h) \/ Release(h) \/ Respond(h)
  BY <1>4 DEF Claim, Poll, Settle, Release, Respond
<1>5. CASE ReadForCreate(h) \/ Insert(h) \/ ReadForDelete(h) \/ Remove(h)
  BY <1>5 DEF ReadForCreate, Insert, ReadForDelete, Remove
<1>6. CASE ReadForUpdate(h) \/ Fresh(h) \/ Reload(h) \/ Raise(h)
  BY <1>6 DEF ReadForUpdate, Fresh, Reload, Raise
<1>7. CASE Cas(h) \/ Save(h)
  BY <1>7 DEF Cas, Save
<1> QED
  BY <1>1, <1>2, <1>3, <1>4, <1>5, <1>6, <1>7 DEF Turn, Step
(* An update keeps the version it was captured against. *)
LEMMA BaseStable ==
    ASSUME TypeOK, [Next]_vars, NEW op \in Ops, base[op] # Unset
    PROVE  base'[op] = base[op]
PROOF
<1>1. CASE UNCHANGED base
  BY <1>1
<1>2. CASE \E o \in Ops : Compose(o)
  BY <1>2 DEF Compose, TypeOK
<1>3. (\A o \in Ops : ~Compose(o)) => UNCHANGED base
  BY DEF Next, vars, Expire, Receive, Fail, Crash, Step, Claim, Poll,
         ReadForCreate, Insert, ReadForUpdate, Cas, Fresh, Reload, Save, Raise,
         ReadForDelete, Remove, Settle, Release, Respond
<1> QED
  BY <1>1, <1>2, <1>3

(* What is left of the list of ops consists of its elements. *)
LEMMA TailElements ==
    ASSUME NEW s \in Seq(Ops), s # <<>>, NEW i \in DOMAIN Tail(s)
    PROVE  i + 1 \in DOMAIN s /\ Tail(s)[i] = s[i + 1]
PROOF
  BY HeadTailProperties

(* What a handler has to do shrinks, is dropped, or is a new batch.        *)
LEMMA TodoStep ==
    ASSUME TypeOK, Staged, NEW h \in Handlers, Turn(h)
    PROVE  \/ todo'[h] = todo[h]
           \/ todo'[h] = Tail(todo[h]) /\ todo[h] # <<>>
           \/ todo'[h] = <<>>
           \/ todo'[h] \in Batches /\ \A i \in DOMAIN todo'[h] : Sendable(todo'[h][i])
PROOF
<1> USE DEF TypeOK
<1>1. CASE \E batch \in Batches : Receive(h, batch)
  BY <1>1 DEF Receive
<1>2. CASE Fail(h)
  BY <1>2 DEF Fail
<1>3. CASE Crash(h)
  BY <1>3 DEF Crash
<1>4. CASE Poll(h) \/ Settle(h) \/ Release(h)
  BY <1>4 DEF Staged, Working, Poll, Settle, Release, Report
<1>5. CASE Step(h) /\ ~Poll(h) /\ ~Settle(h) /\ ~Release(h)
  BY <1>5 DEF Step, Claim, Respond, ReadForCreate, Insert, ReadForUpdate, Cas,
      Fresh, Reload, Save, Raise, ReadForDelete, Remove
<1> QED
  BY <1>1, <1>2, <1>3, <1>4, <1>5 DEF Turn

(* Where a step of h may take it. *)
LEMMA PcStep ==
    ASSUME TypeOK, Staged, NEW h \in Handlers, Turn(h)
    PROVE  /\ pc'[h] \in Working \cup {"claim", "poll"} => todo'[h] # <<>>
           /\ pc'[h] \in Working =>
                 /\ todo'[h] = todo[h]
                 /\ pc[h] \in Working \/ (pc[h] = "claim" /\ pc'[h] = "apply")
           /\ pc'[h] = "insert" => Kind[Op(h)] = "create"
           /\ pc'[h] \in EditStages => Kind[Op(h)] = "update"
           /\ pc'[h] = "remove" => Kind[Op(h)] = "delete"
PROOF
<1> USE DEF TypeOK, Goto, Outcome, Report, Working, EditStages, Staged
<1>1. CASE \E batch \in Batches : Receive(h, batch)
  BY <1>1, BatchAssumption DEF Receive
<1>2. CASE Fail(h)
  BY <1>2 DEF Fail
<1>3. CASE Crash(h)
  BY <1>3 DEF Crash
<1>4. CASE Claim(h) \/ Respond(h)
  BY <1>4 DEF Claim, Respond
<1>5. CASE Poll(h) \/ Settle(h) \/ Release(h)
  BY <1>5 DEF Poll, Settle, Release
<1>6. CASE ReadForCreate(h) \/ Insert(h) \/ ReadForDelete(h) \/ Remove(h)
  BY <1>6 DEF ReadForCreate, Insert, ReadForDelete, Remove
<1>7. CASE ReadForUpdate(h) \/ Fresh(h) \/ Reload(h) \/ Raise(h)
  BY <1>7 DEF ReadForUpdate, Fresh, Reload, Raise
<1>8. CASE Cas(h) \/ Save(h)
  BY <1>8 DEF Cas, Save
<1> QED
  BY <1>1, <1>2, <1>3, <1>4, <1>5, <1>6, <1>7, <1>8 DEF Turn, Step

(* What a handler holds fits its place in the code, and stays so.          *)
LEMMA StagedStep ==
    ASSUME TypeOK, Staged, [Next]_vars
    PROVE  Staged'
PROOF
<1>1. CASE UNCHANGED vars
  BY <1>1 DEF Staged, vars, runVars, Sendable, Op
<1>2. CASE \E op \in Ops : Compose(op) \/ Expire(op)
  <2>1. /\ UNCHANGED <<pc, todo>>
        /\ \A op \in Ops : base[op] # Unset => base'[op] # Unset
    BY <1>2, BaseStable DEF Compose, Expire, runVars
  <2>2. \A h \in Handlers : todo[h] \in Seq(Ops)
    BY DEF TypeOK
  <2> QED
    BY <2>1, <2>2 DEF Staged, Sendable, Op
<1>3. ASSUME NEW h \in Handlers, Turn(h) PROVE Staged'
  <2>1. UNCHANGED base
    BY <1>3 DEF Turn, Receive, Fail, Crash, Step, Claim, Poll, ReadForCreate,
        Insert, ReadForUpdate, Cas, Fresh, Reload, Save, Raise, ReadForDelete,
        Remove, Settle, Release, Respond
  <2>2. SUFFICES ASSUME NEW g \in Handlers
                 PROVE  /\ pc'[g] \in Working \cup {"claim", "poll"} => todo'[g] # <<>>
                        /\ \A i \in DOMAIN todo'[g] : Sendable(todo'[g][i])
                        /\ pc'[g] = "insert" => Kind[Op(g)'] = "create"
                        /\ pc'[g] \in EditStages => Kind[Op(g)'] = "update"
                        /\ pc'[g] = "remove" => Kind[Op(g)'] = "delete"
    BY <2>1 DEF Staged, Sendable
  <2>3. CASE g # h
    BY <1>3, <2>3, OthersKeep DEF Staged, Op
  <2>4. CASE g = h
    <3>1. \A i \in DOMAIN todo'[h] : Sendable(todo'[h][i])
      <4>1. CASE todo'[h] = todo[h]
        BY <4>1 DEF Staged
      <4>2. CASE todo'[h] = Tail(todo[h]) /\ todo[h] # <<>>
        <5>1. todo[h] \in Seq(Ops)
          BY DEF TypeOK
        <5> QED
          BY <4>2, <5>1, TailElements DEF Staged
      <4>3. CASE todo'[h] = <<>>
        BY <4>3
      <4> QED
        BY <1>3, <4>1, <4>2, <4>3, TodoStep
    <3>2. pc'[h] \in Working => todo'[h] = todo[h]
      BY <1>3, PcStep
    <3>3. pc'[h] \in {"insert", "remove"} \cup EditStages => Op(h)' = Op(h)
      BY <3>2 DEF Working, EditStages, Op
    <3> QED
      BY <1>3, <2>4, <3>1, <3>3, PcStep
  <2> QED
    BY <2>3, <2>4
<1> QED
  BY <1>1, <1>2, <1>3, NextCases

(* A row is only ever inserted by a claim that found none, and only        *)
(* removed by the handler that owns it or when nobody does.                *)
LEMMA ExclusiveStep ==
    ASSUME TypeOK, Staged, Exclusive, [Next]_vars
    PROVE  Exclusive'
PROOF
<1>1. CASE UNCHANGED vars
  BY <1>1 DEF Exclusive, vars, runVars, Op
<1>2. CASE \E op \in Ops : Compose(op)
  BY <1>2 DEF Exclusive, Compose, runVars, Op
<1>3. ASSUME NEW op \in Ops, Expire(op) PROVE Exclusive'
  <2>1. UNCHANGED <<pc, todo>>
    BY <1>3 DEF Expire, runVars
  <2>2. \A h \in Handlers : pc[h] \in Working => ledger'[Op(h)] = ledger[Op(h)]
    BY <1>3 DEF Expire, TypeOK
  <2> QED
    BY <2>1, <2>2 DEF Exclusive, Op
<1>4. ASSUME NEW h \in Handlers, Turn(h) PROVE Exclusive'
  <2>1. \A g \in Handlers : g # h => pc'[g] = pc[g] /\ Op(g)' = Op(g)
    BY <1>4, OthersKeep DEF Op
  <2>2. pc'[h] \in Working =>
           /\ Op(h)' = Op(h)
           /\ pc[h] \in Working \/ (pc[h] = "claim" /\ pc'[h] = "apply")
    BY <1>4, PcStep DEF Op
  <2>3. CASE Claim(h) /\ pc'[h] = "apply"
    <3>1. /\ ledger[Op(h)] = "absent"
          /\ ledger' = [ledger EXCEPT ![Op(h)] = "pending"]
          /\ Op(h)' = Op(h) /\ pc[h] = "claim" /\ todo[h] # <<>>
      BY <2>3 DEF Claim, Goto, TypeOK, Op, Staged
    <3>2. Op(h) \in Ops
      BY <3>1, CurrentOp
    <3>3. \A g \in Handlers : g # h /\ pc[g] \in Working =>
             Op(g) # Op(h) /\ Op(g) \in Ops
      BY <3>1, CurrentOp DEF Exclusive, Staged
    <3>4. /\ ledger'[Op(h)] = "pending"
          /\ \A op \in Ops : op # Op(h) => ledger'[op] = ledger[op]
      BY <3>1, <3>2 DEF TypeOK
    <3> QED
      BY <2>1, <3>1, <3>3, <3>4 DEF Exclusive
  <2>4. CASE Settle(h) \/ Release(h)
    <3>1. pc[h] \in Working /\ pc'[h] \notin Working /\ todo[h] # <<>>
      BY <2>4 DEF Settle, Release, Report, Goto, Working, TypeOK, Staged
    <3>2. \A op \in Ops : op # Op(h) => ledger'[op] = ledger[op]
      BY <2>4 DEF Settle, Release, TypeOK
    <3>3. \A g \in Handlers : pc'[g] \in Working =>
             Op(g) # Op(h) /\ pc[g] \in Working /\ todo[g] # <<>>
      BY <2>1, <3>1 DEF Exclusive, Staged
    <3> QED
      BY <2>1, <3>1, <3>2, <3>3, CurrentOp DEF Exclusive
  <2>5. CASE /\ UNCHANGED ledger
             /\ pc'[h] \in Working => pc[h] \in Working
    BY <2>1, <2>2, <2>5 DEF Exclusive
  <2>6. \/ Claim(h) /\ pc'[h] = "apply"
        \/ Settle(h) \/ Release(h)
        \/ UNCHANGED ledger /\ (pc'[h] \in Working => pc[h] \in Working)
    <3>1. CASE Claim(h)
      BY <3>1 DEF Claim, Goto, TypeOK, Working
    <3>2. CASE ~Claim(h) /\ ~Settle(h) /\ ~Release(h)
      <4>1. UNCHANGED ledger
        BY <1>4, <3>2 DEF Turn, Receive, Fail, Crash, Step, Poll, ReadForCreate,
            Insert, ReadForUpdate, Cas, Fresh, Reload, Save, Raise,
            ReadForDelete, Remove, Respond
      <4>2. pc[h] = "claim" => pc'[h] # "apply"
        BY <1>4, <3>2 DEF Turn, Receive, Fail, Crash, Step, Poll, ReadForCreate,
            Insert, ReadForUpdate, Cas, Fresh, Reload, Save, Raise,
            ReadForDelete, Remove, Respond, Working, Goto, TypeOK
      <4> QED
        BY <2>2, <4>1, <4>2
    <3> QED
      BY <3>1, <3>2
  <2> QED
    BY <2>3, <2>4, <2>5, <2>6
<1> QED
  BY <1>1, <1>2, <1>3, <1>4, NextCases
-----------------------------------------------------------------------------
(* Versions.  A step leaves the versions alone, moves one forward, or puts *)
(* one back and says so in rewound.                                        *)
LEMMA VersionTurn ==
    ASSUME TypeOK, Staged, Versioned, NEW h \in Handlers, Turn(h)
    PROVE  \/ UNCHANGED <<updatedAt, rewound>>
           \/ \E t \in Nat :
                 /\ Doc(h) \in Docs
                 /\ updatedAt' = [updatedAt EXCEPT ![Doc(h)] = t]
                 /\ \/ updatedAt[Doc(h)] <= t /\ rewound' = rewound
                    \/ rewound' = rewound \cup {Doc(h)}
PROOF
<1>1. ASSUME Doc(h) \in Docs, NEW t \in Stamps, StampAt(Doc(h), t)
      PROVE  /\ t \in Nat
             /\ updatedAt' = [updatedAt EXCEPT ![Doc(h)] = t]
             /\ \/ updatedAt[Doc(h)] <= t /\ rewound' = rewound
                \/ rewound' = rewound \cup {Doc(h)}
  <2>1. t \in Nat /\ updatedAt[Doc(h)] \in Nat
    BY <1>1, StampsAreNat DEF TypeOK
  <2> QED
    BY <1>1, <2>1 DEF StampAt
<1>2. CASE Insert(h) \/ Remove(h) \/ Save(h)
  <2>1. todo[h] # <<>>
    BY <1>2 DEF Insert, Remove, Save, Staged, Working
  <2>2. Doc(h) \in Docs
    BY <2>1, CurrentOp
  <2>3. \/ UNCHANGED <<updatedAt, rewound>>
        \/ \E t \in Stamps : StampAt(Doc(h), t)
    BY <1>2 DEF Insert, Remove, Save
  <2> QED
    BY <1>1, <2>2, <2>3
<1>3. CASE Cas(h)
  <2>1. Doc(h) \in Docs /\ rewound' = rewound
    BY <1>3, CurrentOp DEF Cas, Staged, Working
  <2>2. CASE updatedAt[Doc(h)] # seen[h]
    BY <1>3, <2>1, <2>2 DEF Cas
  <2>3. CASE updatedAt[Doc(h)] = seen[h]
    <3>1. PICK t \in Stamps :
             LET at == IF t > seen[h] THEN t ELSE seen[h] + 1
             IN /\ bumped' = [bumped EXCEPT ![h] = at]
                /\ updatedAt' = [updatedAt EXCEPT ![Doc(h)] = at]
      BY <1>3, <2>3 DEF Cas
    <3>2. t \in Nat /\ seen[h] \in Nat
      BY StampsAreNat DEF TypeOK
    <3> DEFINE at == IF t > seen[h] THEN t ELSE seen[h] + 1
    <3>3. at \in Nat /\ seen[h] <= at
      BY <3>2
    <3>4. updatedAt' = [updatedAt EXCEPT ![Doc(h)] = at]
      BY <3>1
    <3> HIDE DEF at
    <3> QED
      BY <2>1, <2>3, <3>3, <3>4
  <2> QED
    BY <2>2, <2>3
<1>4. CASE Raise(h)
  <2>1. Doc(h) \in Docs /\ rewound' = rewound
    BY <1>4, CurrentOp DEF Raise, Staged, Working
  <2>2. bumped[h] \in Nat /\ seen[h] \in Nat
    BY DEF TypeOK
  <2>3. CASE seen[h] < bumped[h] /\ updatedAt[Doc(h)] = seen[h]
    <3>1. updatedAt' = [updatedAt EXCEPT ![Doc(h)] = bumped[h]]
      BY <1>4, <2>3 DEF Raise
    <3>2. updatedAt[Doc(h)] <= bumped[h]
      BY <2>2, <2>3
    <3> QED
      BY <2>1, <2>2, <3>1, <3>2
  <2>4. CASE ~(seen[h] < bumped[h] /\ updatedAt[Doc(h)] = seen[h])
    BY <1>4, <2>1, <2>4 DEF Raise
  <2> QED
    BY <2>3, <2>4
<1>5. CASE ~Insert(h) /\ ~Remove(h) /\ ~Save(h) /\ ~Cas(h) /\ ~Raise(h)
  BY <1>5 DEF Turn, Receive, Fail, Crash, Step, Claim, Poll, ReadForCreate,
      ReadForUpdate, Fresh, Reload, ReadForDelete, Settle, Release, Respond,
      docVars
<1> QED
  BY <1>2, <1>3, <1>4, <1>5

(* Only the version of a rewound document ever goes back.                  *)
LEMMA VersionStep ==
    ASSUME TypeOK, Staged, Versioned, [Next]_vars
    PROVE  /\ rewound \subseteq rewound'
           /\ \A d \in Docs :
                 /\ updatedAt[d] \in Nat /\ updatedAt'[d] \in Nat
                 /\ d \notin rewound' => updatedAt[d] <= updatedAt'[d]
PROOF
<1>0. updatedAt \in [Docs -> Nat]
  BY DEF TypeOK
<1>1. CASE UNCHANGED <<updatedAt, rewound>>
  BY <1>0, <1>1
<1>2. ASSUME NEW h \in Handlers, Turn(h), ~UNCHANGED <<updatedAt, rewound>>
      PROVE  /\ rewound \subseteq rewound'
             /\ \A d \in Docs :
                   /\ updatedAt'[d] \in Nat
                   /\ d \notin rewound' => updatedAt[d] <= updatedAt'[d]
  <2>1. PICK t \in Nat :
           /\ Doc(h) \in Docs
           /\ updatedAt' = [updatedAt EXCEPT ![Doc(h)] = t]
           /\ \/ updatedAt[Doc(h)] <= t /\ rewound' = rewound
              \/ rewound' = rewound \cup {Doc(h)}
    BY <1>2, VersionTurn
  <2>2. rewound \subseteq rewound'
    BY <2>1
  <2>3. ASSUME NEW d \in Docs
        PROVE  /\ updatedAt'[d] \in Nat
               /\ d \notin rewound' => updatedAt[d] <= updatedAt'[d]
    <3>1. updatedAt[d] \in Nat
      BY <1>0
    <3>2. CASE d = Doc(h)
      <4>1. updatedAt'[d] = t
        BY <1>0, <2>1, <3>2
      <4> QED
        BY <2>1, <3>2, <4>1
    <3>3. CASE d # Doc(h)
      BY <1>0, <2>1, <3>1, <3>3
    <3> QED
      BY <3>2, <3>3
  <2> QED
    BY <2>2, <2>3
<1>3. (\A h \in Handlers : ~Turn(h)) => UNCHANGED <<updatedAt, rewound>>
  BY NextCases DEF Compose, Expire, docVars, vars
<1> QED
  BY <1>0, <1>1, <1>2, <1>3

(* Documents are neither dropped nor revived. *)
LEMMA DocsStable ==
    ASSUME TypeOK, Staged, [Next]_vars, NEW d \in Docs
    PROVE  (exists[d] => exists'[d]) /\ (removed[d] => removed'[d])
PROOF
<1> USE DEF TypeOK
<1>1. CASE UNCHANGED <<exists, removed>>
  BY <1>1
<1>2. ASSUME NEW h \in Handlers, Insert(h) PROVE exists[d] => exists'[d]
  BY <1>2 DEF Insert
<1>3. ASSUME NEW h \in Handlers, Insert(h) PROVE removed[d] => removed'[d]
  BY <1>3 DEF Insert
<1>4. ASSUME NEW h \in Handlers, Remove(h) PROVE exists[d] => exists'[d]
  BY <1>4 DEF Remove
<1>5. ASSUME NEW h \in Handlers, Remove(h) PROVE removed[d] => removed'[d]
  BY <1>5 DEF Remove
<1>6. (\A h \in Handlers : ~Insert(h) /\ ~Remove(h)) => UNCHANGED <<exists, removed>>
  BY DEF Next, vars, docVars, Compose, Expire, Receive, Fail, Crash, Step, Claim,
      Poll, ReadForCreate, ReadForUpdate, Cas, Fresh, Reload, Save, Raise,
      ReadForDelete, Settle, Release, Respond
<1> QED
  BY <1>1, <1>2, <1>3, <1>4, <1>5, <1>6

(* An op takes effect at one of three stages, in the hands of its handler. *)
LEMMA LandTurn ==
    ASSUME TypeOK, Staged, NEW h \in Handlers, Turn(h),
           NEW op \in Ops, landed'[op] # landed[op]
    PROVE  /\ op = Op(h)
           /\ landed'[op] = IF landed[op] = 0 THEN 1 ELSE 2
           /\ \/ pc[h] = "insert" /\ ~exists[Doc(h)] /\ exists'[Doc(h)]
              \/ pc[h] = "save" /\ pc'[h] = "raise"
              \/ pc[h] = "remove" /\ removed'[Doc(h)]
PROOF
<1> USE DEF TypeOK, Land
<1>1. Insert(h) \/ Save(h) \/ Remove(h)
  BY DEF Turn, Receive, Fail, Crash, Step, Claim, Poll, ReadForCreate,
      ReadForUpdate, Cas, Fresh, Reload, Raise, ReadForDelete, Settle, Release,
      Respond
<1>2. Op(h) \in Ops /\ Doc(h) \in Docs
  BY <1>1, CurrentOp DEF Insert, Save, Remove, Staged, Working
<1>3. CASE Insert(h)
  <2>1. ~exists[Doc(h)]
    BY <1>3 DEF Insert
  <2>2. exists'[Doc(h)]
    BY <1>2, <1>3, <2>1 DEF Insert
  <2> QED
    BY <1>2, <1>3, <2>1, <2>2 DEF Insert
<1>4. CASE Save(h)
  BY <1>2, <1>4 DEF Save, Goto
<1>5. CASE Remove(h)
  <2>1. removed'[Doc(h)]
    BY <1>2, <1>5 DEF Remove
  <2> QED
    BY <1>2, <1>5, <2>1 DEF Remove
<1> QED
  BY <1>1, <1>3, <1>4, <1>5
(* Each stage of an update, of a removal and of the end is entered by one  *)
(* step.                                                                   *)
LEMMA Entry ==
    ASSUME TypeOK, NEW h \in Handlers, Turn(h)
    PROVE  /\ pc'[h] = "cas" => ReadForUpdate(h)
           /\ pc'[h] = "fresh" => Cas(h)
           /\ pc'[h] = "reload" => Cas(h)
           /\ pc'[h] = "save" => Reload(h)
           /\ pc'[h] = "raise" => Save(h)
           /\ pc'[h] = "remove" => ReadForDelete(h)
PROOF
<1> USE DEF TypeOK, Goto, Outcome, Report
<1>1. CASE \E batch \in Batches : Receive(h, batch)
  BY <1>1 DEF Receive
<1>2. CASE Fail(h) \/ Crash(h)
  BY <1>2 DEF Fail, Crash
<1>3. CASE Claim(h) \/ Poll(h) \/ Settle(h) \/ Release(h) \/ Respond(h)
  BY <1>3 DEF Claim, Poll, Settle, Release, Respond
<1>4. CASE ReadForCreate(h) \/ Insert(h) \/ ReadForDelete(h) \/ Remove(h)
  BY <1>4 DEF ReadForCreate, Insert, ReadForDelete, Remove
<1>5. CASE ReadForUpdate(h) \/ Fresh(h) \/ Reload(h) \/ Raise(h)
  BY <1>5 DEF ReadForUpdate, Fresh, Reload, Raise
<1>6. CASE Cas(h) \/ Save(h)
  BY <1>6 DEF Cas, Save
<1> QED
  BY <1>1, <1>2, <1>3, <1>4, <1>5, <1>6 DEF Turn, Step

(* While a handler is at an update, that update has its base. *)
LEMMA EditBase ==
    ASSUME TypeOK, Staged, NEW h \in Handlers,
           pc[h] \in EditStages \/ (pc[h] = "apply" /\ Kind[Op(h)] = "update")
    PROVE  /\ Op(h) \in Ops /\ Doc(h) \in Docs
           /\ Kind[Op(h)] = "update"
           /\ base[Op(h)] \in Nat \cup {Foreign}
PROOF
<1>1. todo[h] # <<>> /\ Kind[Op(h)] = "update"
  BY DEF Staged, EditStages, Working
<1>2. Op(h) \in Ops /\ Doc(h) \in Docs
  BY <1>1, CurrentOp
<1>3. 1 \in DOMAIN todo[h] /\ todo[h][1] = Op(h)
  BY <1>1 DEF TypeOK, Op
<1>4. Sendable(Op(h))
  BY <1>3 DEF Staged
<1>5. base[Op(h)] # Unset
  BY <1>1, <1>4 DEF Sendable
<1> QED
  BY <1>1, <1>2, <1>5 DEF TypeOK

(* The bases of the ops are the client's: a handler never changes them.    *)
LEMMA BaseTurn ==
    ASSUME NEW h \in Handlers, Turn(h)
    PROVE  UNCHANGED base
PROOF
  BY DEF Turn, Receive, Fail, Crash, Step, Claim, Poll, ReadForCreate,
      Insert, ReadForUpdate, Cas, Fresh, Reload, Save, Raise, ReadForDelete,
      Remove, Settle, Release, Respond

(* A handler that does not move keeps its part: versions only grew.        *)
LEMMA VersionedElsewhere ==
    ASSUME TypeOK, Staged, Versioned, [Next]_vars, NEW g \in Handlers,
           pc'[g] = pc[g], todo'[g] = todo[g], seen'[g] = seen[g],
           bumped'[g] = bumped[g]
    PROVE  VersionedAt(g)'
PROOF
<1>1. VersionedAt(g)
  BY DEF Versioned
<1>2. Op(g)' = Op(g) /\ Doc(g)' = Doc(g)
  BY DEF Op, Doc
<1>3. CASE pc[g] \notin EditStages
  BY <1>3 DEF EditStages, VersionedAt
<1>4. CASE pc[g] \in EditStages
  <2>1. /\ Op(g) \in Ops /\ Doc(g) \in Docs
        /\ base[Op(g)] \in Nat \cup {Foreign}
    BY <1>4, EditBase
  <2>2. base'[Op(g)] = base[Op(g)]
    BY <2>1, BaseStable DEF Unset, Foreign
  <2>3. /\ updatedAt[Doc(g)] \in Nat /\ updatedAt'[Doc(g)] \in Nat
        /\ Doc(g) \notin rewound' => updatedAt[Doc(g)] <= updatedAt'[Doc(g)]
        /\ Doc(g) \in rewound => Doc(g) \in rewound'
    BY <2>1, VersionStep
  <2>4. bumped[g] \in Nat /\ seen[g] \in Nat
    BY DEF TypeOK
  <2>5. base[Op(g)] \in Int
    BY <2>1 DEF Foreign
  <2> HIDE DEF Op, Doc
  <2> QED
    BY <1>1, <1>2, <2>2, <2>3, <2>4, <2>5 DEF VersionedAt
<1> QED
  BY <1>3, <1>4
(* A handler that moves enters its next stage with what the stage needs.   *)
LEMMA VersionedHere ==
    ASSUME TypeOK, Staged, Versioned, NEW h \in Handlers, Turn(h)
    PROVE  VersionedAt(h)'
PROOF
<1> USE DEF TypeOK
<1>0. UNCHANGED base
  BY BaseTurn
<1>1. CASE pc'[h] = "cas"
  <2>1. ReadForUpdate(h)
    BY <1>1, Entry
  <2>2. updatedAt[Doc(h)] = base[Op(h)] /\ seen' = [seen EXCEPT ![h] = updatedAt[Doc(h)]]
    BY <1>1, <2>1 DEF ReadForUpdate, Outcome, Goto
  <2>3. Op(h)' = Op(h)
    BY <2>1 DEF ReadForUpdate, Op
  <2> QED
    BY <1>0, <1>1, <2>2, <2>3 DEF VersionedAt
<1>2. CASE pc'[h] \in {"fresh", "reload"}
  <2>1. Cas(h)
    BY <1>2, Entry
  <2>2. /\ Op(h) \in Ops /\ Doc(h) \in Docs
        /\ base[Op(h)] \in Nat \cup {Foreign}
    BY <2>1, EditBase DEF Cas, EditStages
  <2>3. seen[h] = base[Op(h)] /\ base[Op(h)] \in Nat
    BY <2>1 DEF Cas, Versioned, VersionedAt
  <2>4. Op(h)' = Op(h) /\ Doc(h)' = Doc(h)
    BY <2>1 DEF Cas, Op, Doc
  <2>5. CASE updatedAt[Doc(h)] # seen[h]
    <3>1. UNCHANGED updatedAt /\ pc'[h] = "fresh"
      BY <2>1, <2>5 DEF Cas, Goto
    <3>2. base[Op(h)] <= updatedAt[Doc(h)] \/ Doc(h) \in rewound
      BY <2>2 DEF Versioned, VersionedOp, Doc
    <3>3. base[Op(h)] < updatedAt[Doc(h)] \/ Doc(h) \in rewound
      BY <2>2, <2>3, <2>5, <3>2
    <3>4. rewound' = rewound
      BY <2>1 DEF Cas
    <3> HIDE DEF Op, Doc
    <3> QED
      BY <1>0, <2>4, <3>1, <3>3, <3>4 DEF VersionedAt
  <2>6. CASE updatedAt[Doc(h)] = seen[h]
    <3>1. PICK t \in Stamps :
             LET at == IF t > seen[h] THEN t ELSE seen[h] + 1
             IN /\ bumped' = [bumped EXCEPT ![h] = at]
                /\ updatedAt' = [updatedAt EXCEPT ![Doc(h)] = at]
      BY <2>1, <2>6 DEF Cas
    <3>2. t \in Nat /\ seen[h] \in Nat
      BY StampsAreNat
    <3> DEFINE at == IF t > seen[h] THEN t ELSE seen[h] + 1
    <3>3. at \in Nat /\ seen[h] < at
      BY <3>2
    <3>4. bumped'[h] = at /\ updatedAt'[Doc(h)] = at
      BY <2>2, <3>1
    <3>5. pc'[h] = "reload"
      BY <2>1, <2>6 DEF Cas, Goto
    <3> HIDE DEF at, Op, Doc
    <3> QED
      BY <1>0, <2>3, <2>4, <3>3, <3>4, <3>5 DEF VersionedAt
  <2> QED
    BY <2>5, <2>6
<1>3. CASE pc'[h] = "save"
  <2>1. Reload(h)
    BY <1>3, Entry
  <2>2. /\ pc[h] = "reload"
        /\ UNCHANGED <<updatedAt, rewound, bumped, todo>>
    BY <2>1 DEF Reload, docVars
  <2>3. VersionedAt(h)
    BY DEF Versioned
  <2> QED
    BY <1>0, <1>3, <2>2, <2>3 DEF VersionedAt, Op, Doc
<1>4. CASE pc'[h] = "raise"
  <2>1. Save(h)
    BY <1>4, Entry
  <2>2. /\ UNCHANGED <<bumped, todo>>
        /\ base[Op(h)] \in Nat /\ base[Op(h)] < bumped[h]
    BY <2>1 DEF Save, Versioned, VersionedAt
  <2> QED
    BY <1>0, <1>4, <2>2 DEF VersionedAt, Op
<1> QED
  BY <1>1, <1>2, <1>3, <1>4 DEF VersionedAt

(* What is true of an op stays true of it. *)
LEMMA VersionedOpStep ==
    ASSUME TypeOK, Staged, Versioned, [Next]_vars, NEW op \in Ops
    PROVE  VersionedOp(op)'
PROOF
<1>0. SUFFICES ASSUME Target[op] \notin rewound' PROVE VersionedOp(op)'
  BY DEF VersionedOp
<1>1. VersionedOp(op) /\ Target[op] \in Docs
  BY OpsAssumption DEF Versioned
<1>2. /\ updatedAt[Target[op]] \in Nat /\ updatedAt'[Target[op]] \in Nat
      /\ updatedAt[Target[op]] <= updatedAt'[Target[op]]
      /\ Target[op] \notin rewound
  BY <1>0, <1>1, VersionStep
<1>3. base[op] \in Int
  <2>1. base[op] \in Nat \cup {Unset, Foreign}
    BY DEF TypeOK
  <2> QED
    BY <2>1 DEF Unset, Foreign
<1>4. CASE base'[op] # base[op]
  <2>1. base[op] = Unset
    BY <1>4, BaseStable
  <2>2. PICK o \in Ops : Compose(o)
    BY <1>4, NextCases, BaseTurn DEF Expire, vars
  <2>3. base'[op] \in {updatedAt[Target[op]], Foreign} /\ UNCHANGED <<updatedAt, landed>>
    BY <1>4, <2>2 DEF Compose, TypeOK, docVars
  <2>4. ~(Kind[op] = "update" /\ landed[op] > 0)
    BY <1>1, <1>2, <2>1 DEF VersionedOp, Unset
  <2> QED
    BY <1>2, <2>3, <2>4 DEF VersionedOp, Foreign
<1>5. CASE base'[op] = base[op] /\ landed'[op] = landed[op]
  BY <1>1, <1>2, <1>3, <1>5 DEF VersionedOp
<1>6. CASE base'[op] = base[op] /\ landed'[op] # landed[op]
  <2>1. PICK h \in Handlers : Turn(h)
    BY <1>6, NextCases DEF Compose, Expire, vars
  <2>2. /\ op = Op(h)
        /\ pc[h] = "save" \/ pc[h] = "insert" \/ pc[h] = "remove"
    BY <1>6, <2>1, LandTurn
  <2>3. CASE pc[h] = "save"
    <3>1. base[op] \in Nat /\ base[op] < updatedAt[Target[op]]
      BY <1>2, <2>2, <2>3 DEF Versioned, VersionedAt, Doc
    <3> QED
      BY <1>2, <1>6, <3>1 DEF VersionedOp
  <2>4. CASE pc[h] \in {"insert", "remove"}
    <3>1. Kind[op] # "update"
      BY <2>2, <2>4 DEF Staged
    <3> QED
      BY <1>1, <1>2, <1>3, <1>6, <3>1 DEF VersionedOp
  <2> QED
    BY <2>2, <2>3, <2>4
<1> QED
  BY <1>4, <1>5, <1>6

(* Every version known anywhere was given by the clock, and stays so.      *)
LEMMA VersionedStep ==
    ASSUME TypeOK, Staged, Versioned, [Next]_vars
    PROVE  Versioned'
PROOF
<1>2. \A op \in Ops : VersionedOp(op)'
  BY VersionedOpStep
<1>3. ASSUME NEW g \in Handlers PROVE VersionedAt(g)'
  <2>1. CASE \E h \in Handlers : Turn(h)
    <3>1. PICK h \in Handlers : Turn(h)
      BY <2>1
    <3>2. CASE g = h
      BY <3>1, <3>2, VersionedHere
    <3>3. CASE g # h
      BY <3>1, <3>3, OthersKeep, VersionedElsewhere
    <3> QED
      BY <3>2, <3>3
  <2>2. CASE UNCHANGED <<pc, todo, seen, bumped>>
    BY <2>2, VersionedElsewhere
  <2> QED
    BY <2>1, <2>2, NextCases DEF Compose, Expire, vars, runVars
<1> QED
  BY <1>2, <1>3 DEF Versioned
-----------------------------------------------------------------------------
(* A handler at a stage that works on an op has that op to itself: no step *)
(* of another handler lands it.                                            *)
LEMMA LandElsewhere ==
    ASSUME TypeOK, Staged, Exclusive, NEW h \in Handlers, Turn(h),
           NEW g \in Handlers, g # h, pc[g] \in Working
    PROVE  Op(g) \in Ops /\ landed'[Op(g)] = landed[Op(g)]
PROOF
<1>1. Op(g) \in Ops
  BY CurrentOp DEF Staged
<1>2. SUFFICES ASSUME landed'[Op(g)] # landed[Op(g)] PROVE FALSE
  BY <1>1
<1>3. Op(g) = Op(h) /\ pc[h] \in {"insert", "save", "remove"}
  BY <1>1, <1>2, LandTurn
<1> QED
  BY <1>3 DEF Exclusive, Working

(* What the ledger says of one op stays true of the documents.             *)
LEMMA GroundedOpStep ==
    ASSUME TypeOK, Staged, Versioned, Grounded, [Next]_vars, NEW op \in Ops
    PROVE  GroundedOp(op)'
PROOF
<1>1. GroundedOp(op) /\ Target[op] \in Docs /\ landed[op] \in 0..2
  BY OpsAssumption DEF Grounded, TypeOK
<1>2. /\ exists[Target[op]] => exists'[Target[op]]
      /\ removed[Target[op]] => removed'[Target[op]]
  BY <1>1, DocsStable
<1>0. Rewound(op) => Rewound(op)'
  BY VersionStep DEF Rewound
<1>3. CASE landed'[op] = landed[op]
  BY <1>0, <1>1, <1>2, <1>3 DEF GroundedOp
<1>4. CASE landed'[op] # landed[op]
  <2>1. PICK h \in Handlers : Turn(h)
    BY <1>4, NextCases DEF Compose, Expire, vars
  <2>2. /\ op = Op(h)
        /\ landed'[op] = IF landed[op] = 0 THEN 1 ELSE 2
        /\ \/ pc[h] = "insert" /\ ~exists[Doc(h)] /\ exists'[Doc(h)]
           \/ pc[h] = "save" /\ pc'[h] = "raise"
           \/ pc[h] = "remove" /\ removed'[Doc(h)]
    BY <1>4, <2>1, LandTurn
  <2>3. /\ pc[h] = "insert" => Kind[op] = "create"
        /\ pc[h] = "save" => Kind[op] = "update"
        /\ pc[h] = "remove" => Kind[op] = "delete"
    BY <2>2 DEF Staged, EditStages
  <2>4. Doc(h) = Target[op]
    BY <2>2 DEF Doc
  <2>5. landed[op] = 0 \/ (Kind[op] = "update" /\ Rewound(op))
    <3>1. CASE pc[h] = "insert"
      BY <1>1, <2>2, <2>3, <2>4, <3>1 DEF GroundedOp
    <3>2. CASE pc[h] = "remove"
      BY <2>2, <3>2 DEF Grounded, GroundedAt
    <3>3. CASE pc[h] = "save"
      BY <2>2, <2>3, <2>4, <3>3 DEF Grounded, GroundedAt, Rewound
    <3> QED
      BY <2>2, <3>1, <3>2, <3>3
  <2>6. CASE landed[op] = 0
    BY <2>2, <2>3, <2>4, <2>6 DEF GroundedOp
  <2>7. CASE Kind[op] = "update" /\ Rewound(op)
    BY <1>0, <2>7 DEF GroundedOp
  <2> QED
    BY <2>5, <2>6, <2>7
<1> QED
  BY <1>3, <1>4

(* What the handler that moves has read is still grounded.                 *)
LEMMA GroundedHere ==
    ASSUME TypeOK, Staged, Versioned, Grounded, NEW h \in Handlers, Turn(h)
    PROVE  GroundedAt(h)'
PROOF
<1>0. landed \in [Ops -> 0..2]
  BY DEF TypeOK
<1>5. Next
  BY DEF Next, Turn
<1>6. rewound \subseteq rewound'
  BY <1>5, VersionStep
<1>1. CASE pc'[h] = "cas"
  <2>1. ReadForUpdate(h)
    BY <1>1, Entry
  <2>2. exists[Doc(h)] /\ updatedAt[Doc(h)] = base[Op(h)]
    BY <1>1, <2>1 DEF ReadForUpdate, Outcome, Goto, TypeOK
  <2>3. UNCHANGED <<exists, landed, todo>>
    BY <2>1 DEF ReadForUpdate, docVars
  <2>4. Op(h) \in Ops /\ Kind[Op(h)] = "update" /\ Doc(h) \in Docs
    BY <2>1, EditBase DEF ReadForUpdate
  <2>5. ~(landed[Op(h)] > 0) \/ Doc(h) \in rewound
    BY <2>2, <2>4 DEF Versioned, VersionedOp, Doc
  <2>6. landed[Op(h)] = 0 \/ Doc(h) \in rewound
    <3>1. landed[Op(h)] \in 0..2
      BY <1>0, <2>4
    <3> QED
      BY <2>5, <3>1
  <2> QED
    BY <1>1, <1>6, <2>2, <2>3, <2>6 DEF GroundedAt, Op, Doc
<1>2. CASE pc'[h] \in {"fresh", "reload", "save"}
  <2>1. Cas(h) \/ Reload(h)
    BY <1>2, Entry
  <2>2. UNCHANGED <<exists, landed, todo>>
    BY <2>1 DEF Cas, Reload, docVars
  <2>3. pc[h] \in {"cas", "reload"}
    BY <2>1 DEF Cas, Reload
  <2>4. exists[Doc(h)] /\ (landed[Op(h)] = 0 \/ Doc(h) \in rewound)
    BY <2>3 DEF Grounded, GroundedAt, EditStages
  <2> QED
    BY <1>2, <1>6, <2>2, <2>4 DEF GroundedAt, Op, Doc
<1>3. CASE pc'[h] = "raise"
  <2>1. Save(h)
    BY <1>3, Entry
  <2>2. exists[Doc(h)] /\ Op(h) \in Ops
    BY <2>1, EditBase DEF Save, Grounded, GroundedAt, EditStages
  <2>3. UNCHANGED <<exists, todo>> /\ landed'[Op(h)] \in {1, 2}
    BY <1>0, <2>1, <2>2 DEF Save, Land
  <2> QED
    BY <1>3, <2>2, <2>3 DEF GroundedAt, Op, Doc
<1>4. CASE pc'[h] = "remove"
  <2>1. ReadForDelete(h)
    BY <1>4, Entry
  <2>2. exists[Doc(h)] /\ ~removed[Doc(h)]
    BY <1>4, <2>1 DEF ReadForDelete, Outcome, Goto, TypeOK
  <2>3. UNCHANGED <<exists, landed, todo>> /\ Kind[Op(h)] = "delete"
    BY <2>1 DEF ReadForDelete, docVars
  <2>4. Op(h) \in Ops
    BY <2>1, CurrentOp DEF ReadForDelete, Staged, Working
  <2>5. ~(landed[Op(h)] > 0)
    BY <2>2, <2>3, <2>4 DEF Grounded, GroundedOp, Doc
  <2>6. landed[Op(h)] = 0
    <3>1. landed[Op(h)] \in 0..2
      BY <1>0, <2>4
    <3> QED
      BY <2>5, <3>1
  <2> QED
    BY <1>4, <2>2, <2>3, <2>6 DEF GroundedAt, Op, Doc
<1> QED
  BY <1>1, <1>2, <1>3, <1>4 DEF GroundedAt, EditStages

(* The answers in the ledger and on their way remain grounded.             *)
LEMMA GroundedStep ==
    ASSUME TypeOK, Staged, Exclusive, Versioned, Grounded, [Next]_vars
    PROVE  Grounded'
PROOF
<1>1. \A op \in Ops : GroundedOp(op)'
  BY GroundedOpStep
<1>2. ASSUME NEW g \in Handlers PROVE GroundedAt(g)'
  <2>1. CASE \E h \in Handlers : Turn(h)
    <3>1. PICK h \in Handlers : Turn(h)
      BY <2>1
    <3>2. CASE g = h
      BY <3>1, <3>2, GroundedHere
    <3>3. CASE g # h
      <4>1. /\ pc'[g] = pc[g] /\ Op(g)' = Op(g) /\ Doc(g)' = Doc(g)
        BY <3>1, <3>3, OthersKeep DEF Op, Doc
      <4>2. CASE pc[g] \in EditStages \cup {"remove"}
        <5>1. pc[g] \in Working
          BY <4>2 DEF EditStages, Working
        <5>2. landed'[Op(g)] = landed[Op(g)]
          BY <3>1, <3>3, <5>1, LandElsewhere
        <5>3. Doc(g) \in Docs
          BY <5>1, CurrentOp DEF Staged
        <5>4. exists[Doc(g)] => exists'[Doc(g)]
          BY <5>3, DocsStable
        <5> HIDE DEF Op, Doc
        <5> QED
          BY <4>1, <5>2, <5>4, VersionStep DEF Grounded, GroundedAt
      <4>3. CASE pc[g] \notin EditStages \cup {"remove"}
        BY <4>1, <4>3 DEF GroundedAt, EditStages
      <4> QED
        BY <4>2, <4>3
    <3> QED
      BY <3>2, <3>3
  <2>2. CASE UNCHANGED <<pc, todo, exists, landed, rewound>>
    BY <2>2 DEF Grounded, GroundedAt, Op, Doc
  <2> QED
    BY <2>1, <2>2, NextCases DEF Compose, Expire, vars, runVars, docVars
<1> QED
  BY <1>1, <1>2 DEF Grounded
-----------------------------------------------------------------------------
(* An update that has won its version has moved the document past it.      *)
LEMMA WonBehind ==
    ASSUME TypeOK, Versioned, NEW op \in Ops, Kind[op] = "update", Won(op),
           ~Rewound(op)
    PROVE  base[op] \in Nat /\ base[op] < updatedAt[Target[op]]
PROOF
<1>1. CASE landed[op] > 0
  BY <1>1 DEF Versioned, VersionedOp, Rewound
<1>2. CASE \E h \in Handlers : pc[h] \in {"reload", "save"} /\ Op(h) = op
  BY <1>2 DEF Versioned, VersionedAt, Doc, Rewound
<1> QED
  BY <1>1, <1>2 DEF Won

(* It wins by claiming a version nobody has moved since it was captured.   *)
LEMMA NewlyWon ==
    ASSUME TypeOK, Staged, Versioned, NEW h \in Handlers, Turn(h),
           NEW op \in Ops, Kind[op] = "update", Won(op)', ~Won(op)
    PROVE  op = Op(h) /\ base[op] = updatedAt[Target[op]]
PROOF
<1>1. landed[op] = 0
  <2>1. landed[op] \in 0..2
    BY DEF TypeOK
  <2>2. ~(landed[op] > 0)
    BY DEF Won
  <2> QED
    BY <2>1, <2>2
<1>2. landed'[op] = 0
  <2>1. SUFFICES ASSUME landed'[op] # landed[op] PROVE FALSE
    BY <1>1
  <2>2. op = Op(h) /\ pc[h] \in {"insert", "save", "remove"}
    BY <2>1, LandTurn
  <2>3. pc[h] = "save"
    BY <2>2 DEF Staged
  <2> QED
    BY <2>2, <2>3 DEF Won
<1>3. PICK g \in Handlers : pc'[g] \in {"reload", "save"} /\ Op(g)' = op
  BY <1>2 DEF Won
<1>4. g = h
  <2>1. SUFFICES ASSUME g # h PROVE FALSE
    OBVIOUS
  <2>2. pc'[g] = pc[g] /\ Op(g)' = Op(g)
    BY <2>1, OthersKeep DEF Op
  <2> QED
    BY <1>3, <2>2 DEF Won
<1>5. CASE pc'[h] = "save"
  <2>1. Reload(h)
    BY <1>5, Entry
  <2>2. pc[h] = "reload" /\ Op(h)' = Op(h)
    BY <2>1 DEF Reload, Op
  <2> QED
    BY <1>3, <1>4, <2>2 DEF Won
<1>6. CASE pc'[h] = "reload"
  <2>1. Cas(h)
    BY <1>6, Entry
  <2>2. Op(h)' = Op(h) /\ pc[h] = "cas"
    BY <2>1 DEF Cas, Op
  <2>3. updatedAt[Doc(h)] = seen[h]
    BY <1>6, <2>1 DEF Cas, Goto, TypeOK
  <2>4. seen[h] = base[Op(h)]
    BY <2>2 DEF Versioned, VersionedAt
  <2> QED
    BY <1>3, <1>4, <2>2, <2>3, <2>4 DEF Doc
<1> QED
  BY <1>3, <1>4, <1>5, <1>6

(* Two updates from one base are never both applied.                       *)
LEMMA SingleWinnerStep ==
    ASSUME TypeOK, Staged, Versioned, SingleWinner, [Next]_vars
    PROVE  SingleWinner'
PROOF
<1>1. SUFFICES ASSUME NEW a \in Ops, NEW b \in Ops,
                      a # b, Target[a] = Target[b],
                      Kind[a] = "update", Kind[b] = "update",
                      base'[a] = base'[b], base'[a] # Unset,
                      Won(a)', Won(b)', ~Rewound(a)'
               PROVE  FALSE
  BY DEF SingleWinner
<1>0. ~Rewound(a) /\ ~Rewound(b)
  BY <1>1, VersionStep DEF Rewound
<1>2. CASE \E h \in Handlers : Turn(h)
  <2>1. PICK h \in Handlers : Turn(h)
    BY <1>2
  <2>2. base[a] = base[b] /\ base[a] # Unset
    BY <1>1, <2>1, BaseTurn
  <2>3. CASE Won(a) /\ Won(b)
    BY <1>0, <1>1, <2>2, <2>3 DEF SingleWinner
  <2>4. CASE Won(a) /\ ~Won(b)
    <3>1. base[a] \in Nat /\ base[a] < updatedAt[Target[a]]
      BY <1>0, <1>1, <2>4, WonBehind
    <3>2. base[b] = updatedAt[Target[b]]
      BY <1>1, <2>1, <2>4, NewlyWon
    <3> QED
      BY <1>1, <2>2, <3>1, <3>2
  <2>5. CASE ~Won(a) /\ Won(b)
    <3>1. base[b] \in Nat /\ base[b] < updatedAt[Target[b]]
      BY <1>0, <1>1, <2>5, WonBehind
    <3>2. base[a] = updatedAt[Target[a]]
      BY <1>1, <2>1, <2>5, NewlyWon
    <3> QED
      BY <1>1, <2>2, <3>1, <3>2
  <2>6. CASE ~Won(a) /\ ~Won(b)
    <3>1. a = Op(h)
      BY <1>1, <2>1, <2>6, NewlyWon
    <3>2. b = Op(h)
      BY <1>1, <2>1, <2>6, NewlyWon
    <3> QED
      BY <1>1, <3>1, <3>2
  <2> QED
    BY <2>3, <2>4, <2>5, <2>6
<1>3. CASE UNCHANGED <<pc, todo, landed>>
  <2>1. Won(a) /\ Won(b)
    BY <1>1, <1>3 DEF Won, Op
  <2>2. base[a] \in Nat /\ base[b] \in Nat
    BY <1>0, <1>1, <2>1, WonBehind
  <2>3. base'[a] = base[a] /\ base'[b] = base[b]
    BY <2>2, BaseStable DEF Unset
  <2> QED
    BY <1>0, <1>1, <2>1, <2>3 DEF SingleWinner
<1> QED
  BY <1>2, <1>3, NextCases DEF Compose, Expire, vars, runVars
-----------------------------------------------------------------------------
(* A request ends in "settle" or "release" with what its step found.       *)
LEMMA ConflictEntry ==
    ASSUME TypeOK, NEW h \in Handlers, Turn(h),
           pc'[h] = "release", outcome'[h] = "conflict"
    PROVE  ReadForUpdate(h) \/ Fresh(h)
PROOF
<1> USE DEF TypeOK, Goto, Outcome, Report, Statuses
<1>1. CASE \E batch \in Batches : Receive(h, batch)
  BY <1>1 DEF Receive
<1>2. CASE Fail(h) \/ Crash(h)
  BY <1>2 DEF Fail, Crash
<1>3. CASE Claim(h) \/ Poll(h) \/ Settle(h) \/ Release(h) \/ Respond(h)
  BY <1>3 DEF Claim, Poll, Settle, Release, Respond
<1>4. CASE ReadForCreate(h) \/ Insert(h) \/ ReadForDelete(h) \/ Remove(h)
  BY <1>4 DEF ReadForCreate, Insert, ReadForDelete, Remove
<1>5. CASE Reload(h) \/ Raise(h)
  BY <1>5 DEF Reload, Raise
<1>6. CASE Cas(h) \/ Save(h)
  BY <1>6 DEF Cas, Save
<1> QED
  BY <1>1, <1>2, <1>3, <1>4, <1>5, <1>6 DEF Turn, Step

(* The results of a request grow by the status of its current op.          *)
LEMMA ResultsTurn ==
    ASSUME TypeOK, NEW h \in Handlers, Turn(h), NEW g \in Handlers,
           NEW op \in Ops, NEW s \in Statuses,
           <<op, s>> \in results'[g], <<op, s>> \notin results[g]
    PROVE  /\ g = h /\ op = Op(h)
           /\ \/ Poll(h) /\ s = IF ledger[op] \in {"applied", "noop"}
                                THEN ledger[op] ELSE "rejected"
              \/ (Settle(h) \/ Release(h)) /\ s = outcome[h]
PROOF
<1> USE DEF TypeOK, Report
<1>1. g = h
  BY OthersKeep
<1>2. CASE Poll(h)
  BY <1>1, <1>2 DEF Poll
<1>3. CASE Settle(h) \/ Release(h)
  <2>1. results' = [results EXCEPT ![h] = @ \cup {<<Op(h), outcome[h]>>}]
    BY <1>3 DEF Settle, Release
  <2>2. results'[h] = results[h] \cup {<<Op(h), outcome[h]>>}
    BY <2>1
  <2>3. <<op, s>> = <<Op(h), outcome[h]>>
    BY <1>1, <2>2
  <2>4. op = Op(h) /\ s = outcome[h]
    BY <2>3
  <2> QED
    BY <1>1, <1>3, <2>4
<1>4. CASE ~Poll(h) /\ ~Settle(h) /\ ~Release(h)
  <2>1. results'[h] = {} \/ results'[h] = results[h]
    BY <1>4 DEF Turn, Step, Receive, Fail, Crash, Claim, ReadForCreate, Insert,
        ReadForUpdate, Cas, Fresh, Reload, Save, Raise, ReadForDelete, Remove,
        Respond
  <2> QED
    BY <1>1, <2>1
<1> QED
  BY <1>2, <1>3, <1>4

(* Devices are told only what a request has in its results.                *)
LEMMA ToldTurn ==
    ASSUME TypeOK, [Next]_vars, NEW op \in Ops, NEW s, s \in told'[op],
           s \notin told[op]
    PROVE  s \in Final /\ \E h \in Handlers : <<op, s>> \in results[h]
PROOF
<1>1. CASE \E h \in Handlers : Respond(h)
  <2>1. PICK h \in Handlers : Respond(h)
    BY <1>1
  <2>2. told'[op] = told[op] \cup {t \in Final : <<op, t>> \in results[h]}
    BY <2>1 DEF Respond
  <2> QED
    BY <2>2
<1>2. CASE \A h \in Handlers : ~Respond(h)
  <2>1. UNCHANGED told
    BY <1>2 DEF Next, vars, Compose, Expire, Receive, Fail, Crash, Step, Claim,
        Poll, ReadForCreate, Insert, ReadForUpdate, Cas, Fresh, Reload, Save,
        Raise, ReadForDelete, Remove, Settle, Release
  <2> QED
    BY <2>1
<1> QED
  BY <1>1, <1>2

(* An op becomes a conflict only by a handler that releases it.            *)
LEMMA JudgedTurn ==
    ASSUME TypeOK, Answered, NEW h \in Handlers, Turn(h), NEW op \in Ops,
           Judged(op)', ~Judged(op)
    PROVE  op = Op(h) /\ Release(h) /\ outcome[h] = "conflict"
PROOF
<1>0. Next
  BY DEF Next, Turn
<1>1. "conflict" \notin told'[op]
  <2>1. SUFFICES ASSUME "conflict" \in told'[op] PROVE FALSE
    OBVIOUS
  <2>2. "conflict" \notin told[op]
    BY DEF Judged
  <2>3. \E g \in Handlers : <<op, "conflict">> \in results[g]
    BY <1>0, <2>1, <2>2, ToldTurn
  <2> QED
    BY <2>3 DEF Judged
<1>2. PICK g \in Handlers : <<op, "conflict">> \in results'[g]
  BY <1>1 DEF Judged
<1>3. <<op, "conflict">> \notin results[g]
  BY DEF Judged
<1>4. "conflict" \in Statuses
  BY DEF Statuses
<1>5. /\ op = Op(h)
      /\ \/ Poll(h) /\ "conflict" = IF ledger[op] \in {"applied", "noop"}
                                    THEN ledger[op] ELSE "rejected"
         \/ (Settle(h) \/ Release(h)) /\ "conflict" = outcome[h]
  BY <1>2, <1>3, <1>4, ResultsTurn
<1>6. Settle(h) => outcome[h] # "conflict"
  BY DEF Settle, Answered, AnsweredAt, Success
<1> QED
  BY <1>5, <1>6

(* An op that cannot pass the version check never will.                    *)
LEMMA DeadStep ==
    ASSUME TypeOK, Staged, Versioned, [Next]_vars, NEW op \in Ops, Dead(op)
    PROVE  Dead(op)'
PROOF
<1>1. Target[op] \in Docs
  BY OpsAssumption
<1>2. base'[op] = base[op]
  BY BaseStable DEF Dead
<1>3. removed[Target[op]] => removed'[Target[op]]
  BY <1>1, DocsStable
<1>4. /\ updatedAt[Target[op]] \in Nat /\ updatedAt'[Target[op]] \in Nat
      /\ Target[op] \notin rewound' => updatedAt[Target[op]] <= updatedAt'[Target[op]]
      /\ Target[op] \in rewound => Target[op] \in rewound'
  BY <1>1, VersionStep
<1>5. base[op] \in Int
  <2>1. base[op] \in Nat \cup {Unset, Foreign}
    BY DEF TypeOK
  <2> QED
    BY <2>1 DEF Unset, Foreign
<1> QED
  BY <1>2, <1>3, <1>4, <1>5 DEF Dead, Rewound

(* What h finds at a document it gives up on, or goes on with, decides.    *)
LEMMA BuriedHere ==
    ASSUME TypeOK, Staged, Versioned, Buried, NEW h \in Handlers, Turn(h)
    PROVE  BuriedAt(h)'
PROOF
<1>0. Next
  BY DEF Next, Turn
<1>1. ASSUME pc'[h] = "release", outcome'[h] = "conflict" PROVE Dead(Op(h))'
  <2>1. ReadForUpdate(h) \/ Fresh(h)
    BY <1>1, ConflictEntry
  <2>2. Op(h)' = Op(h)
    BY <2>1 DEF ReadForUpdate, Fresh, Op
  <2>3. /\ Op(h) \in Ops /\ Doc(h) \in Docs /\ Kind[Op(h)] = "update"
        /\ base[Op(h)] \in Nat \cup {Foreign}
    BY <2>1, EditBase DEF ReadForUpdate, Fresh, EditStages
  <2>4. base[Op(h)] # Unset /\ base[Op(h)] \in Int
    BY <2>3 DEF Unset, Foreign
  <2>5. /\ base[Op(h)] <= updatedAt[Doc(h)] \/ Doc(h) \in rewound
        /\ updatedAt[Doc(h)] \in Nat
    BY <2>3 DEF Versioned, VersionedOp, Doc, TypeOK
  <2>6. CASE ReadForUpdate(h)
    <3>1. \/ removed[Doc(h)] /\ Family[Doc(h)] # "archive"
          \/ updatedAt[Doc(h)] # base[Op(h)]
      BY <1>1, <2>6 DEF ReadForUpdate, Outcome, Goto, TypeOK
    <3>2. Dead(Op(h))
      BY <2>3, <2>4, <2>5, <3>1 DEF Dead, Doc, Rewound
    <3> QED
      BY <1>0, <2>2, <2>3, <3>2, DeadStep
  <2>7. CASE Fresh(h)
    <3>1. base[Op(h)] < updatedAt[Doc(h)] \/ Doc(h) \in rewound
      BY <2>7 DEF Fresh, Versioned, VersionedAt
    <3>2. Dead(Op(h))
      BY <2>3, <2>4, <3>1 DEF Dead, Doc, Rewound
    <3> QED
      BY <1>0, <2>2, <2>3, <3>2, DeadStep
  <2> QED
    BY <2>1, <2>6, <2>7
<1>2. ASSUME pc'[h] \in {"cas", "reload", "save"} 
      PROVE  ~Judged(Op(h))' \/ Rewound(Op(h))'
  <2>1. ReadForUpdate(h) \/ Cas(h) \/ Reload(h)
    BY <1>2, Entry
  <2>2. Op(h)' = Op(h) /\ UNCHANGED <<results, told, rewound>>
    BY <2>1 DEF ReadForUpdate, Cas, Reload, Op, docVars
  <2>3. /\ Judged(Op(h))' <=> Judged(Op(h))
        /\ Rewound(Op(h))' <=> Rewound(Op(h))
    BY <2>2 DEF Judged, Rewound
  <2>4. CASE Cas(h) \/ Reload(h)
    BY <2>3, <2>4 DEF Cas, Reload, Buried, BuriedAt
  <2>5. CASE ReadForUpdate(h)
    <3>1. /\ Op(h) \in Ops /\ Doc(h) \in Docs
          /\ base[Op(h)] \in Nat \cup {Foreign}
      BY <2>5, EditBase DEF ReadForUpdate
    <3>2. /\ ~(removed[Doc(h)] /\ Family[Doc(h)] # "archive")
          /\ updatedAt[Doc(h)] = base[Op(h)]
      BY <1>2, <2>5 DEF ReadForUpdate, Outcome, Goto, TypeOK
    <3>3. updatedAt[Doc(h)] \in Nat
      BY <3>1 DEF TypeOK
    <3>4. ~Dead(Op(h)) \/ Rewound(Op(h))
      BY <3>2, <3>3 DEF Dead, Doc
    <3> QED
      BY <2>3, <3>1, <3>4 DEF Buried
  <2> QED
    BY <2>1, <2>4, <2>5
<1> QED
  BY <1>1, <1>2 DEF BuriedAt

(* What a delete has buried stays buried.                                  *)
LEMMA BuriedStep ==
    ASSUME TypeOK, Staged, Exclusive, Versioned, Answered, Buried,
           [Next]_vars
    PROVE  Buried'
PROOF
<1>1. CASE \E h \in Handlers : Turn(h)
  <2>1. PICK h \in Handlers : Turn(h)
    BY <1>1
  <2>2. ASSUME NEW op \in Ops, Judged(op)' PROVE Dead(op)'
    <3>1. CASE Judged(op)
      BY <3>1, DeadStep DEF Buried
    <3>2. CASE ~Judged(op)
      <4>1. op = Op(h) /\ Release(h) /\ outcome[h] = "conflict"
        BY <2>1, <2>2, <3>2, JudgedTurn
      <4>2. Dead(op)
        BY <4>1 DEF Release, Buried, BuriedAt
      <4> QED
        BY <4>2, DeadStep
    <3> QED
      BY <3>1, <3>2
  <2>3. ASSUME NEW g \in Handlers PROVE BuriedAt(g)'
    <3>1. CASE g = h
      BY <2>1, <3>1, BuriedHere
    <3>2. CASE g # h
      <4>1. /\ pc'[g] = pc[g] /\ outcome'[g] = outcome[g]
            /\ Op(g)' = Op(g)
        BY <2>1, <3>2, OthersKeep DEF Op
      <4>2. pc[g] \in Working => Op(g) \in Ops
        BY CurrentOp DEF Staged
      <4>3. (pc[g] = "release" /\ outcome[g] = "conflict") => Dead(Op(g))'
        BY <4>1, <4>2, DeadStep DEF Buried, BuriedAt, Working
      <4>4. ASSUME pc[g] \in {"cas", "reload", "save"}, ~Rewound(Op(g))
            PROVE  ~Judged(Op(g))'
        <5>1. pc[g] \in Working /\ ~Judged(Op(g))
          BY <4>4 DEF Working, Buried, BuriedAt
        <5>2. Release(h) => Op(h) # Op(g)
          BY <3>2, <5>1 DEF Release, Exclusive, Working
        <5>3. ASSUME NEW op \in Ops, op = Op(g), Judged(op)' PROVE FALSE
          BY <2>1, <5>1, <5>2, <5>3, JudgedTurn
        <5> QED
          BY <4>1, <4>2, <5>1, <5>3 DEF Judged
      <4>5. Rewound(Op(g)) => Rewound(Op(g))'
        BY <4>1, VersionStep DEF Rewound
      <4> QED
        BY <4>1, <4>3, <4>4, <4>5 DEF BuriedAt
    <3> QED
      BY <3>1, <3>2
  <2> QED
    BY <2>2, <2>3 DEF Buried
<1>2. CASE UNCHANGED <<pc, todo, outcome, results, told>>
  <2>1. \A op \in Ops : Judged(op)' <=> Judged(op)
    BY <1>2 DEF Judged
  <2>2. \A h \in Handlers : pc[h] \in Working => Op(h) \in Ops
    BY CurrentOp DEF Staged
  <2>3. \A h \in Handlers : Op(h)' = Op(h)
    BY <1>2 DEF Op
  <2>4. \A h \in Handlers : Rewound(Op(h)) => Rewound(Op(h))'
    BY <2>3, VersionStep DEF Rewound
  <2> QED
    BY <1>2, <2>1, <2>2, <2>3, <2>4, DeadStep DEF Buried, BuriedAt, Working
<1> QED
  BY <1>1, <1>2, NextCases DEF Compose, Expire, vars, runVars
-----------------------------------------------------------------------------
(* What is done stays done. *)
LEMMA DoneStep ==
    ASSUME TypeOK, Staged, Grounded, [Next]_vars, NEW op \in Ops,
           Contract!Done(op)
    PROVE  Contract!Done(op)'
PROOF
<1>1. Target[op] \in Docs /\ Kind[op] \in {"create", "update", "delete"}
  BY OpsAssumption DEF Kinds
<1>2. CASE Kind[op] = "create"
  <2>1. exists[Target[op]]
    BY <1>2 DEF Contract!Done
  <2>2. exists'[Target[op]]
    BY <1>1, <2>1, DocsStable
  <2> QED
    BY <1>2, <2>2 DEF Contract!Done
<1>3. CASE Kind[op] = "update"
  <2>1. landed[op] > 0
    BY <1>3 DEF Contract!Done
  <2>2. landed'[op] > 0
    <3>1. SUFFICES ASSUME landed'[op] # landed[op] PROVE landed'[op] > 0
      BY <2>1
    <3>2. PICK h \in Handlers : Turn(h)
      BY <3>1, NextCases DEF Compose, Expire, vars
    <3> QED
      BY <3>1, <3>2, LandTurn
  <2> QED
    BY <1>3, <2>2 DEF Contract!Done
<1>4. CASE Kind[op] = "delete"
  <2>1. removed[Target[op]]
    BY <1>4 DEF Contract!Done
  <2>2. removed'[Target[op]]
    BY <1>1, <2>1, DocsStable
  <2> QED
    BY <1>4, <2>2 DEF Contract!Done
<1> QED
  BY <1>1, <1>2, <1>3, <1>4

(* Only a settled op gains an answer of success.                           *)
LEMMA AttestedTurn ==
    ASSUME TypeOK, Staged, Answered, NEW h \in Handlers, Turn(h), NEW op \in Ops,
           Attested(op)', ~Attested(op)
    PROVE  op = Op(h) /\ Settle(h)
PROOF
<1>0. Next
  BY DEF Next, Turn
<1>1. CASE ledger'[op] # ledger[op] /\ ledger'[op] \in Success
  <2>1. CASE Settle(h)
    BY <1>1, <2>1 DEF Settle, TypeOK
  <2>2. CASE Claim(h)
    BY <1>1, <2>2 DEF Claim, TypeOK, Success
  <2>3. CASE Release(h)
    BY <1>1, <2>3 DEF Release, TypeOK, Success
  <2>4. CASE ~Settle(h) /\ ~Claim(h) /\ ~Release(h)
    BY <1>1, <2>4 DEF Turn, Step, Receive, Fail, Crash, Poll, ReadForCreate,
        Insert, ReadForUpdate, Cas, Fresh, Reload, Save, Raise, ReadForDelete,
        Remove, Respond
  <2> QED
    BY <2>1, <2>2, <2>3, <2>4
<1>2. \A s \in Success : s \in told'[op] => FALSE
  <2>1. SUFFICES ASSUME NEW s \in Success, s \in told'[op] PROVE FALSE
    OBVIOUS
  <2>2. s \notin told[op]
    BY DEF Attested
  <2>3. \E g \in Handlers : <<op, s>> \in results[g]
    BY <1>0, <2>1, <2>2, ToldTurn
  <2> QED
    BY <2>3 DEF Attested
<1>3. CASE \E g \in Handlers, s \in Success : <<op, s>> \in results'[g]
  <2>1. PICK g \in Handlers, s \in Success : <<op, s>> \in results'[g]
    BY <1>3
  <2>2. <<op, s>> \notin results[g]
    BY DEF Attested
  <2>3. s \in Statuses /\ s # "rejected"
    BY DEF Success, Statuses
  <2>4. /\ op = Op(h)
        /\ \/ Poll(h) /\ s = IF ledger[op] \in {"applied", "noop"}
                             THEN ledger[op] ELSE "rejected"
           \/ (Settle(h) \/ Release(h)) /\ s = outcome[h]
    BY <2>1, <2>2, <2>3, ResultsTurn
  <2>5. ledger[op] \notin {"applied", "noop"}
    BY DEF Attested, Success
  <2>6. ~Release(h) \/ s # outcome[h]
    BY DEF Release, Answered, AnsweredAt
  <2> QED
    BY <2>3, <2>4, <2>5, <2>6
<1> QED
  BY <1>1, <1>2, <1>3 DEF Attested

(* A request comes to "settle" only from a document that shows the effect. *)
LEMMA SettleEntry ==
    ASSUME TypeOK, Staged, Grounded, NEW h \in Handlers, Turn(h),
           pc'[h] = "settle"
    PROVE  /\ pc[h] \in Working /\ todo'[h] = todo[h]
           /\ \/ Kind[Op(h)] = "create" /\ exists'[Doc(h)]
              \/ Kind[Op(h)] = "update" /\ landed'[Op(h)] > 0
              \/ Kind[Op(h)] = "delete" /\ removed'[Doc(h)]
PROOF
<1>1. pc[h] \in Working /\ todo'[h] = todo[h]
  BY PcStep DEF Working
<1>2. Op(h) \in Ops /\ Doc(h) \in Docs
  BY <1>1, CurrentOp DEF Staged
<1>3. ReadForCreate(h) \/ Insert(h) \/ Raise(h) \/ ReadForDelete(h) \/ Remove(h)
  <2> USE DEF TypeOK, Goto, Outcome, Report
  <2>1. CASE \E batch \in Batches : Receive(h, batch)
    BY <2>1 DEF Receive
  <2>2. CASE Fail(h) \/ Crash(h)
    BY <2>2 DEF Fail, Crash
  <2>3. CASE Claim(h) \/ Poll(h) \/ Settle(h) \/ Release(h) \/ Respond(h)
    BY <2>3 DEF Claim, Poll, Settle, Release, Respond
  <2>4. CASE ReadForUpdate(h) \/ Fresh(h) \/ Reload(h)
    BY <2>4 DEF ReadForUpdate, Fresh, Reload
  <2>5. CASE Cas(h) \/ Save(h)
    BY <2>5 DEF Cas, Save
  <2> QED
    BY <2>1, <2>2, <2>3, <2>4, <2>5 DEF Turn, Step
<1>4. CASE ReadForCreate(h)
  BY <1>1, <1>4 DEF ReadForCreate, Goto, TypeOK, docVars
<1>5. CASE Insert(h)
  <2>1. CASE exists[Doc(h)]
    BY <1>5, <2>1 DEF Insert, Outcome, Goto, TypeOK
  <2>2. CASE ~exists[Doc(h)]
    <3>1. exists' = [exists EXCEPT ![Doc(h)] = TRUE]
      BY <1>5, <2>2 DEF Insert
    <3>2. exists'[Doc(h)]
      BY <1>2, <3>1 DEF TypeOK
    <3> QED
      BY <1>1, <1>5, <3>2 DEF Insert, Staged
  <2> QED
    BY <2>1, <2>2
<1>6. CASE Raise(h)
  <2>1. Kind[Op(h)] = "update" /\ landed[Op(h)] > 0 /\ UNCHANGED landed
    BY <1>6 DEF Raise, Staged, EditStages, Grounded, GroundedAt
  <2> QED
    BY <1>1, <2>1
<1>7. CASE ReadForDelete(h)
  <2>1. removed[Doc(h)]
    BY <1>7 DEF ReadForDelete, Goto, Outcome, TypeOK
  <2> QED
    BY <1>1, <1>7, <2>1 DEF ReadForDelete, docVars
<1>8. CASE Remove(h)
  <2>1. removed'[Doc(h)]
    <3>1. CASE removed[Doc(h)] /\ UNCHANGED removed
      BY <3>1
    <3>2. CASE removed' = [removed EXCEPT ![Doc(h)] = TRUE]
      BY <1>2, <3>2 DEF TypeOK
    <3> QED
      BY <1>8, <3>1, <3>2 DEF Remove
  <2> QED
    BY <1>1, <1>8, <2>1 DEF Remove, Staged
<1> QED
  BY <1>3, <1>4, <1>5, <1>6, <1>7, <1>8

(* The answers of the handler that moves are those of its ops.             *)
LEMMA AnsweredHere ==
    ASSUME TypeOK, Staged, Grounded, NEW h \in Handlers, Turn(h)
    PROVE  AnsweredAt(h)'
PROOF
<1>1. ASSUME pc'[h] = "settle"
      PROVE  outcome'[h] \in Success /\ Contract!Done(Op(h))'
  <2>1. /\ pc[h] \in Working /\ todo'[h] = todo[h]
        /\ \/ Kind[Op(h)] = "create" /\ exists'[Doc(h)]
           \/ Kind[Op(h)] = "update" /\ landed'[Op(h)] > 0
           \/ Kind[Op(h)] = "delete" /\ removed'[Doc(h)]
    BY <1>1, SettleEntry
  <2>2. Op(h)' = Op(h)
    BY <2>1 DEF Op
  <2>3. Contract!Done(Op(h))'
    BY <2>1, <2>2 DEF Contract!Done, Doc
  <2>4. outcome'[h] \in Success
    <3> USE DEF TypeOK, Goto, Outcome, Report, Success, Statuses
    <3>1. CASE \E batch \in Batches : Receive(h, batch)
      BY <1>1, <3>1 DEF Receive
    <3>2. CASE Fail(h) \/ Crash(h)
      BY <1>1, <3>2 DEF Fail, Crash
    <3>3. CASE Claim(h) \/ Poll(h) \/ Settle(h) \/ Release(h) \/ Respond(h)
      BY <1>1, <3>3 DEF Claim, Poll, Settle, Release, Respond
    <3>4. CASE ReadForCreate(h) \/ Insert(h) \/ ReadForDelete(h) \/ Remove(h)
      BY <1>1, <3>4 DEF ReadForCreate, Insert, ReadForDelete, Remove
    <3>5. CASE ReadForUpdate(h) \/ Fresh(h) \/ Reload(h) \/ Raise(h)
      BY <1>1, <3>5 DEF ReadForUpdate, Fresh, Reload, Raise
    <3>6. CASE Cas(h) \/ Save(h)
      BY <1>1, <3>6 DEF Cas, Save
    <3> QED
      BY <3>1, <3>2, <3>3, <3>4, <3>5, <3>6 DEF Turn, Step
  <2> QED
    BY <2>3, <2>4
<1>2. ASSUME pc'[h] = "release" PROVE outcome'[h] \notin Success
  <2> USE DEF TypeOK, Goto, Outcome, Report, Success, Statuses
  <2>1. CASE \E batch \in Batches : Receive(h, batch)
    BY <1>2, <2>1 DEF Receive
  <2>2. CASE Fail(h) \/ Crash(h)
    BY <1>2, <2>2 DEF Fail, Crash
  <2>3. CASE Claim(h) \/ Poll(h) \/ Settle(h) \/ Release(h) \/ Respond(h)
    BY <1>2, <2>3 DEF Claim, Poll, Settle, Release, Respond
  <2>4. CASE ReadForCreate(h) \/ Insert(h) \/ ReadForDelete(h) \/ Remove(h)
    BY <1>2, <2>4 DEF ReadForCreate, Insert, ReadForDelete, Remove
  <2>5. CASE ReadForUpdate(h) \/ Fresh(h) \/ Reload(h) \/ Raise(h)
    BY <1>2, <2>5 DEF ReadForUpdate, Fresh, Reload, Raise
  <2>6. CASE Cas(h) \/ Save(h)
    BY <1>2, <2>6 DEF Cas, Save
  <2> QED
    BY <2>1, <2>2, <2>3, <2>4, <2>5, <2>6 DEF Turn, Step
<1> QED
  BY <1>1, <1>2 DEF AnsweredAt

(* Every answer given stays the answer of its op.                          *)
LEMMA AnsweredStep ==
    ASSUME TypeOK, Staged, Grounded, Answered, [Next]_vars
    PROVE  Answered'
PROOF
<1>0. ASSUME NEW op \in Ops, Contract!Done(op) PROVE Contract!Done(op)'
  BY <1>0, DoneStep
<1>1. CASE \E h \in Handlers : Turn(h)
  <2>1. PICK h \in Handlers : Turn(h)
    BY <1>1
  <2>2. ASSUME NEW op \in Ops, Attested(op)' PROVE Contract!Done(op)'
    <3>1. CASE Attested(op)
      BY <1>0, <3>1 DEF Answered, AnsweredOp
    <3>2. CASE ~Attested(op)
      <4>1. op = Op(h) /\ Settle(h)
        BY <2>1, <2>2, <3>2, AttestedTurn
      <4>2. Contract!Done(op)
        BY <4>1 DEF Settle, Answered, AnsweredAt
      <4> QED
        BY <1>0, <4>2
    <3> QED
      BY <3>1, <3>2
  <2>3. ASSUME NEW g \in Handlers PROVE AnsweredAt(g)'
    <3>1. CASE g = h
      BY <2>1, <3>1, AnsweredHere
    <3>2. CASE g # h
      <4>1. /\ pc'[g] = pc[g] /\ outcome'[g] = outcome[g]
            /\ Op(g)' = Op(g)
        BY <2>1, <3>2, OthersKeep DEF Op
      <4>2. AnsweredAt(g)
        BY DEF Answered
      <4>3. ASSUME pc[g] = "settle" PROVE Contract!Done(Op(g))'
        <5>1. Op(g) \in Ops /\ Contract!Done(Op(g))
          BY <4>2, <4>3, CurrentOp DEF Staged, AnsweredAt, Working
        <5> QED
          BY <1>0, <4>1, <5>1
      <4> QED
        BY <4>1, <4>2, <4>3 DEF AnsweredAt
    <3> QED
      BY <3>1, <3>2
  <2> QED
    BY <2>2, <2>3 DEF Answered, AnsweredOp
<1>2. CASE UNCHANGED <<pc, todo, outcome, results, told>> /\
           \A op \in Ops : ledger'[op] \in Success => ledger[op] \in Success
  <2>1. \A op \in Ops : Attested(op)' => Attested(op)
    BY <1>2 DEF Attested
  <2>2. \A h \in Handlers : pc[h] = "settle" => Op(h) \in Ops
    BY CurrentOp DEF Staged, Working
  <2>3. \A h \in Handlers : Op(h)' = Op(h)
    BY <1>2 DEF Op
  <2>4. \A op \in Ops : AnsweredOp(op)'
    BY <1>0, <2>1 DEF Answered, AnsweredOp
  <2>5. ASSUME NEW h \in Handlers PROVE AnsweredAt(h)'
    <3>1. AnsweredAt(h)
      BY DEF Answered
    <3> QED
      BY <1>0, <1>2, <2>2, <2>3, <3>1 DEF AnsweredAt
  <2> QED
    BY <2>4, <2>5 DEF Answered
<1>3. ASSUME NEW op \in Ops, Expire(op)
      PROVE  \A o \in Ops : ledger'[o] \in Success => ledger[o] \in Success
  BY <1>3 DEF Expire, TypeOK, Success
<1> QED
  BY <1>1, <1>2, <1>3, NextCases DEF Compose, Expire, vars, runVars
-----------------------------------------------------------------------------
(* The invariant as a whole. *)
LEMMA InvInit == Init => Inv
PROOF
<1> SUFFICES ASSUME Init PROVE Inv
  OBVIOUS
<1>1. \A h \in Handlers : /\ pc[h] = "idle" /\ todo[h] = <<>>
                          /\ results[h] = {}
  BY DEF Init
<1>2. \A op \in Ops : /\ landed[op] = 0 /\ told[op] = {} /\ base[op] = Unset
                      /\ ledger[op] = "absent"
  BY DEF Init
<1>3. Staged /\ Exclusive
  BY <1>1 DEF Staged, Exclusive, Working, EditStages
<1>4. Versioned
  <2>1. \A d \in Docs : updatedAt[d] = 0
    BY DEF Init
  <2>2. \A op \in Ops : VersionedOp(op)
    BY <1>2, <2>1, OpsAssumption DEF VersionedOp, Unset
  <2>3. \A h \in Handlers : VersionedAt(h)
    BY <1>1 DEF VersionedAt
  <2> QED
    BY <2>2, <2>3 DEF Versioned
<1>5. Grounded
  BY <1>1, <1>2 DEF Grounded, GroundedOp, GroundedAt, EditStages
<1>6. SingleWinner
  BY <1>1, <1>2 DEF SingleWinner, Won
<1>7. Buried
  BY <1>1, <1>2 DEF Buried, BuriedAt, Judged
<1>8. Answered
  <2>1. \A op \in Ops : ~Attested(op)
    BY <1>1, <1>2 DEF Attested, Success
  <2> QED
    BY <1>1, <2>1 DEF Answered, AnsweredOp, AnsweredAt
<1> QED
  BY <1>3, <1>4, <1>5, <1>6, <1>7, <1>8, TypeInit DEF Inv

(* All the parts of the invariant are kept by a step together.             *)
LEMMA InvStep ==
    ASSUME Inv, [Next]_vars
    PROVE  Inv'
PROOF
<1> USE DEF Inv
<1>1. TypeOK' /\ Staged' /\ Exclusive'
  BY TypeStep, StagedStep, ExclusiveStep
<1>2. Versioned' /\ Grounded'
  BY VersionedStep, GroundedStep
<1>3. SingleWinner' /\ Buried' /\ Answered'
  BY SingleWinnerStep, BuriedStep, AnsweredStep
<1> QED
  BY <1>1, <1>2, <1>3

(* Every request, retry, error, crash and expiry keeps the parts of Inv,   *)
(* whatever the clock gives: claims exclude each other, an answer of       *)
(* success is a fact, and until a save stamps a document behind its        *)
(* version that only grows, an update has one winner and a conflict is     *)
(* buried.                                                                 *)
THEOREM InvHolds == Spec => []Inv
PROOF
  BY InvInit, InvStep, PTL DEF Spec

LEMMA TypedInv == Spec => [](TypeOK /\ Inv)
PROOF
<1>1. Inv => TypeOK
  BY DEF Inv
<1> QED
  BY <1>1, InvHolds, PTL

(* The variables of the server keep their types. *)
THEOREM TypeCorrect == Spec => []TypeOK
PROOF
  BY TypedInv, PTL

(* No op of any number of devices takes effect twice, however often it is  *)
(* sent, retried after an error or a crash, or sent after its row expired, *)
(* under any clock; the one exception is an update of a document that some *)
(* save has stamped behind its version.                                    *)
THEOREM AppliedOnce == Spec => []AppliedAtMostOnce
PROOF
<1>1. Inv => AppliedAtMostOnce
  BY DEF Inv, Grounded, GroundedOp, AppliedAtMostOnce
<1> QED
  BY <1>1, TypedInv, PTL

(* What a device was told is applied or a no-op is in the database.        *)
THEOREM AckedDone == Spec => []AckedOpsAreDone
PROOF
<1>1. Inv => AckedOpsAreDone
  BY DEF Inv, Answered, AnsweredOp, Attested, Success, AckedOpsAreDone
<1> QED
  BY <1>1, TypedInv, PTL

(* Of all updates captured against one version at most one takes effect,   *)
(* also when the clock stands still between their compare-and-sets: a      *)
(* second one needs a save that stamped the document behind its version.   *)
THEOREM OneWinner == Spec => []OneWinnerPerVersion
PROOF
<1>1. TypeOK /\ Inv => OneWinnerPerVersion
  <2> SUFFICES ASSUME TypeOK, Inv, NEW a \in Ops, NEW b \in Ops,
                      a # b, Target[a] = Target[b],
                      Kind[a] = "update", Kind[b] = "update",
                      base[a] = base[b], base[a] # Unset
               PROVE  landed[a] = 0 \/ landed[b] = 0 \/ Rewound(a)
    BY DEF OneWinnerPerVersion
  <2>1. ~Won(a) \/ ~Won(b) \/ Rewound(a)
    BY DEF Inv, SingleWinner
  <2>2. ~(landed[a] > 0) \/ ~(landed[b] > 0) \/ Rewound(a)
    BY <2>1 DEF Won
  <2>3. landed[a] \in 0..2 /\ landed[b] \in 0..2
    BY DEF TypeOK
  <2> QED
    BY <2>2, <2>3
<1> QED
  BY <1>1, TypedInv, PTL

(* Who reaches a stage that lands an op has not judged it a conflict,      *)
(* unless its document was rewound.                                        *)
LEMMA LandsUnjudged ==
    ASSUME TypeOK, Inv, NEW h \in Handlers, Turn(h),
           NEW op \in Ops, landed'[op] # landed[op]
    PROVE  ~Judged(op) \/ (Kind[op] = "update" /\ Rewound(op))
PROOF
<1>1. op = Op(h) /\ pc[h] \in {"insert", "save", "remove"}
  BY LandTurn DEF Inv
<1>2. CASE pc[h] = "save"
  BY <1>1, <1>2 DEF Inv, Buried, BuriedAt, Staged, EditStages
<1>3. CASE pc[h] \in {"insert", "remove"}
  <2>1. Kind[op] # "update"
    BY <1>1, <1>3 DEF Inv, Staged
  <2>2. ~Dead(op)
    BY <2>1 DEF Dead
  <2> QED
    BY <2>2 DEF Inv, Buried
<1> QED
  BY <1>1, <1>2, <1>3

(* An op a device was told is in conflict never takes effect afterwards,   *)
(* except on a document that a save has stamped behind its version.        *)
THEOREM ConflictFinal == Spec => ConflictIsFinal
PROOF
<1>1. TypeOK /\ Inv /\ [Next]_vars =>
         [\A op \in Ops : landed'[op] # landed[op]
             => "conflict" \notin told[op] \/ Rewound(op)]_vars
  <2> SUFFICES ASSUME TypeOK, Inv, [Next]_vars, NEW op \in Ops,
                      landed'[op] # landed[op]
               PROVE  "conflict" \notin told[op] \/ Rewound(op)
    OBVIOUS
  <2>1. PICK h \in Handlers : Turn(h)
    BY NextCases DEF Compose, Expire, vars
  <2>2. ~Judged(op) \/ Rewound(op)
    BY <2>1, LandsUnjudged
  <2> QED
    BY <2>2 DEF Judged
<1> QED
  BY <1>1, TypedInv, PTL DEF Spec, ConflictIsFinal

(* A save racing a delete never brings the document back.                  *)
THEOREM DeletesWin == Spec => DeleteWins
PROOF
<1>1. TypeOK /\ Inv /\ [Next]_vars =>
         [\A d \in Docs : removed[d] => removed'[d]]_vars
  BY DocsStable DEF Inv
<1> QED
  BY <1>1, TypedInv, PTL DEF Spec, DeleteWins

(* An update that ends as applied has moved its document strictly past the *)
(* version it was made against, by its claim, its save or its lift, under  *)
(* a clock that stands still as well: nobody's later change can be taken   *)
(* for one made against that version.                                      *)
THEOREM PastItsBase == Spec => LandsPastItsBase
PROOF
<1>1. TypeOK /\ Inv /\ [Next]_vars =>
         [\A h \in Handlers :
            (pc[h] = "raise" /\ pc'[h] = "settle" /\ updatedAt[Doc(h)] = seen[h])
            => updatedAt'[Doc(h)] > base[Op(h)]]_vars
  <2> SUFFICES ASSUME TypeOK, Inv, [Next]_vars, NEW h \in Handlers,
                      pc[h] = "raise", pc'[h] = "settle",
                      updatedAt[Doc(h)] = seen[h]
               PROVE  updatedAt'[Doc(h)] > base[Op(h)]
    OBVIOUS
  <2>1. PICK g \in Handlers : Turn(g)
    BY NextCases DEF Compose, Expire, vars, runVars
  <2>2. g = h
    BY <2>1, OthersKeep
  <2>3. Raise(h)
    BY <2>1, <2>2 DEF Turn, Receive, Fail, Crash, Step, Claim, Poll,
        ReadForCreate, Insert, ReadForUpdate, Cas, Fresh, Reload, Save,
        ReadForDelete, Remove, Settle, Release, Respond, Outcome, Goto, TypeOK
  <2>4. Doc(h) \in Docs
    BY EditBase DEF Inv, EditStages
  <2>5. /\ base[Op(h)] \in Nat /\ base[Op(h)] < bumped[h]
        /\ bumped[h] \in Nat /\ seen[h] \in Nat
        /\ updatedAt \in [Docs -> Nat]
    BY DEF Inv, Versioned, VersionedAt, TypeOK
  <2>6. CASE seen[h] < bumped[h]
    <3>1. updatedAt'[Doc(h)] = bumped[h]
      BY <2>3, <2>4, <2>5, <2>6 DEF Raise
    <3> QED
      BY <2>5, <3>1
  <2>7. CASE ~(seen[h] < bumped[h])
    <3>1. updatedAt'[Doc(h)] = seen[h]
      BY <2>3, <2>7 DEF Raise
    <3> QED
      BY <2>5, <2>7, <3>1
  <2> QED
    BY <2>6, <2>7
<1> QED
  BY <1>1, TypedInv, PTL DEF Spec, LandsPastItsBase
-----------------------------------------------------------------------------
(* The refinement. *)
LEMMA ContractInit == Init => Contract!Init
PROOF
  BY DEF Init, Contract!Init

(* A response tells devices facts only. *)
LEMMA TellStep ==
    ASSUME TypeOK, Inv, NEW h \in Handlers, Respond(h)
    PROVE  Contract!Tell
PROOF
<1>1. UNCHANGED <<exists, removed, landed, base, rewound>>
  BY DEF Respond, docVars
<1>2. told' = [op \in Ops |-> told[op] \cup
                  {s \in Final : <<op, s>> \in results[h]}]
  BY DEF Respond
<1>3. told' \in [Ops -> SUBSET Final]
  BY <1>2 DEF TypeOK
<1>4. ASSUME NEW op \in Ops, told'[op] \cap {"applied", "noop"} # {}
      PROVE  Contract!Done(op)
  <2>1. Attested(op)
    BY <1>2, <1>4 DEF Attested, Success
  <2> QED
    BY <2>1 DEF Inv, Answered, AnsweredOp
<1> QED
  BY <1>1, <1>2, <1>3, <1>4 DEF Contract!Tell

(* An effect is the effect of one op, at a time when it is still allowed.  *)
LEMMA LandStep ==
    ASSUME TypeOK, Inv, NEW h \in Handlers, Turn(h),
           NEW op \in Ops, landed'[op] # landed[op]
    PROVE  Contract!Land(op)
PROOF
<1>0. Next
  BY DEF Next, Turn
<1>1. /\ op = Op(h)
      /\ landed'[op] = IF landed[op] = 0 THEN 1 ELSE 2
      /\ \/ pc[h] = "insert" /\ ~exists[Doc(h)] /\ exists'[Doc(h)]
         \/ pc[h] = "save" /\ pc'[h] = "raise"
         \/ pc[h] = "remove" /\ removed'[Doc(h)]
  BY LandTurn DEF Inv
<1>2. landed[op] = 0 \/ (Kind[op] = "update" /\ Rewound(op))
  <2>1. CASE pc[h] = "save"
    BY <1>1, <2>1 DEF Inv, Grounded, GroundedAt, Staged, EditStages, Rewound, Doc
  <2>2. CASE pc[h] = "remove"
    BY <1>1, <2>2 DEF Inv, Grounded, GroundedAt
  <2>3. CASE pc[h] = "insert"
    <3>1. ~(landed[op] > 0)
      BY <1>1, <2>3 DEF Inv, Grounded, GroundedOp, Staged, Doc
    <3>2. landed[op] \in 0..2
      BY DEF TypeOK
    <3> QED
      BY <3>1, <3>2
  <2> QED
    BY <1>1, <2>1, <2>2, <2>3
<1>3. "conflict" \notin told[op] \/ (Kind[op] = "update" /\ Rewound(op))
  BY LandsUnjudged DEF Judged
<1>4. Doc(h) = Target[op] /\ Target[op] \in Docs
  BY <1>1, OpsAssumption DEF Doc
<1>5. Insert(h) \/ Save(h) \/ Remove(h)
  BY <1>1 DEF Turn, Receive, Fail, Crash, Step, Claim, Poll, ReadForCreate,
      ReadForUpdate, Cas, Fresh, Reload, Raise, ReadForDelete, Settle, Release,
      Respond
<1>6. landed' = [landed EXCEPT ![op] = IF @ = 0 THEN 1 ELSE 2]
  <2>1. Land(op)
    BY <1>1, <1>5 DEF Insert, Save, Remove
  <2> QED
    BY <2>1 DEF Land
<1>11. rewound' \in {rewound, rewound \cup {Target[op]}}
  <2>1. \/ \E t \in Stamps : StampAt(Doc(h), t)
        \/ UNCHANGED rewound
    BY <1>5 DEF Insert, Save, Remove
  <2> QED
    BY <1>4, <2>1 DEF StampAt
<1>12. ASSUME \A rival \in Ops : Contract!Rivals(op, rival) =>
                landed[rival] = 0 \/ Rewound(op)
       PROVE  Contract!Allowed(op) \/ (Kind[op] = "update" /\ Target[op] \in rewound)
  <2>1. CASE Kind[op] = "update" /\ Rewound(op)
    BY <2>1 DEF Rewound
  <2>2. CASE ~(Kind[op] = "update" /\ Rewound(op))
    <3>1. landed[op] = 0 /\ "conflict" \notin told[op]
      BY <1>2, <1>3, <2>2
    <3>2. \A rival \in Ops : Contract!Rivals(op, rival) => landed[rival] = 0
      BY <1>12, <2>2 DEF Contract!Rivals
    <3> QED
      BY <3>1, <3>2 DEF Contract!Allowed
  <2> QED
    BY <2>1, <2>2
<1>7. UNCHANGED <<base, told>>
  BY <1>5 DEF Insert, Save, Remove
<1>8. CASE Insert(h)
  <2>1. Kind[op] = "create" /\ ~exists[Target[op]] /\ UNCHANGED removed
    BY <1>1, <1>4, <1>8 DEF Insert, Inv, Staged
  <2>2. exists' = [exists EXCEPT ![Target[op]] = TRUE]
    BY <1>4, <1>8, <2>1 DEF Insert
  <2>3. \A rival \in Ops : ~Contract!Rivals(op, rival)
    BY <2>1 DEF Contract!Rivals
  <2> QED
    BY <1>6, <1>7, <1>11, <1>12, <2>1, <2>2, <2>3 DEF Contract!Land
<1>9. CASE Save(h)
  <2>1. Kind[op] = "update" /\ UNCHANGED <<exists, removed>>
    BY <1>1, <1>9 DEF Save, Inv, Staged, EditStages
  <2>2. base[op] \in Nat
    BY <1>1, <1>9 DEF Save, Inv, Versioned, VersionedAt
  <2>3. ASSUME NEW rival \in Ops, Contract!Rivals(op, rival)
        PROVE  landed[rival] = 0 \/ Rewound(op)
    <3>1. Won(op)
      BY <1>1, <1>9 DEF Save, Won
    <3>2. ~Won(rival) \/ Rewound(op)
      BY <2>2, <2>3, <3>1 DEF Contract!Rivals, Inv, SingleWinner, Unset
    <3>3. ~(landed[rival] > 0) \/ Rewound(op)
      BY <3>2 DEF Won
    <3>4. landed[rival] \in 0..2
      BY DEF TypeOK
    <3> QED
      BY <3>3, <3>4
  <2>4. base[op] \notin {Unset, Foreign}
    BY <2>2 DEF Unset, Foreign
  <2> QED
    BY <1>6, <1>7, <1>11, <1>12, <2>1, <2>3, <2>4 DEF Contract!Land
<1>10. CASE Remove(h)
  <2>1. Kind[op] = "delete" /\ exists[Target[op]] /\ UNCHANGED exists
    BY <1>1, <1>4, <1>10 DEF Remove, Inv, Staged, Grounded, GroundedAt
  <2>2. removed' = [removed EXCEPT ![Target[op]] = TRUE]
    BY <1>4, <1>10 DEF Remove
  <2>3. \A rival \in Ops : ~Contract!Rivals(op, rival)
    BY <2>1 DEF Contract!Rivals
  <2> QED
    BY <1>6, <1>7, <1>11, <1>12, <2>1, <2>2, <2>3 DEF Contract!Land
<1> QED
  BY <1>5, <1>8, <1>9, <1>10

(* Whatever else a request does is none of the contract's concern.         *)
LEMMA ContractStep ==
    ASSUME TypeOK, Inv, [Next]_vars
    PROVE  [Contract!Next]_(Contract!vars)
PROOF
<1>1. CASE UNCHANGED vars
  BY <1>1 DEF vars, docVars, Contract!vars
<1>2. ASSUME NEW op \in Ops, Compose(op) PROVE Contract!Compose(op)
  <2>1. \/ base' = [base EXCEPT ![op] = updatedAt[Target[op]]]
        \/ base' = [base EXCEPT ![op] = Foreign]
    BY <1>2 DEF Compose
  <2>2. updatedAt[Target[op]] \in Nat
    BY OpsAssumption DEF TypeOK
  <2>3. base'[op] \in Nat \cup {Foreign} /\ base' = [base EXCEPT ![op] = base'[op]]
    BY <2>1, <2>2 DEF TypeOK
  <2> QED
    BY <1>2, <2>3 DEF Compose, Contract!Compose, docVars
<1>3. ASSUME NEW op \in Ops, Expire(op) PROVE UNCHANGED Contract!vars
  BY <1>3 DEF Expire, Contract!vars, docVars
<1>4. ASSUME NEW h \in Handlers, Turn(h) PROVE [Contract!Next]_(Contract!vars)
  <2>1. CASE Respond(h)
    BY <2>1, TellStep DEF Contract!Next
  <2>2. CASE \E op \in Ops : landed'[op] # landed[op]
    BY <1>4, <2>2, LandStep DEF Contract!Next
  <2>3. CASE ~Respond(h) /\ \A op \in Ops : landed'[op] = landed[op]
    <3>1. UNCHANGED <<base, told>>
      BY <1>4, <2>3 DEF Turn, Receive, Fail, Crash, Step, Claim, Poll,
          ReadForCreate, Insert, ReadForUpdate, Cas, Fresh, Reload, Save,
          Raise, ReadForDelete, Remove, Settle, Release
    <3>2. UNCHANGED landed
      <4>1. landed \in [Ops -> 0..2] /\ landed' \in [Ops -> 0..2]
        BY InvStep DEF Inv, TypeOK
      <4> QED
        BY <2>3, <4>1
    <3>3. UNCHANGED <<exists, removed, rewound>>
      <4>1. CASE ~Insert(h) /\ ~Remove(h) /\ ~Save(h)
        BY <1>4, <2>3, <4>1 DEF Turn, Receive, Fail, Crash, Step, Claim, Poll,
            ReadForCreate, ReadForUpdate, Cas, Fresh, Reload, Raise,
            ReadForDelete, Settle, Release, docVars
      <4>2. CASE Insert(h) \/ Remove(h) \/ Save(h)
        <5>1. Op(h) \in Ops /\ Doc(h) \in Docs
          BY <4>2, CurrentOp DEF Insert, Remove, Save, Inv, Staged, Working
        <5>2. Land(Op(h)) => landed[Op(h)] = 2
          <6>1. SUFFICES ASSUME Land(Op(h)) PROVE landed[Op(h)] = 2
            OBVIOUS
          <6>2. landed[Op(h)] \in 0..2 /\ landed'[Op(h)] =
                   IF landed[Op(h)] = 0 THEN 1 ELSE 2
            BY <5>1, <6>1 DEF Land, TypeOK
          <6> QED
            BY <2>3, <5>1, <6>2
        <5>3. CASE Insert(h)
          <6>1. landed[Op(h)] = 2 => exists[Doc(h)]
            BY <5>1, <5>3 DEF Insert, Inv, Grounded, GroundedOp, Staged, Doc
          <6>2. exists[Doc(h)]
            BY <5>2, <5>3, <6>1 DEF Insert
          <6> QED
            BY <5>3, <6>2 DEF Insert
        <5>4. CASE Remove(h)
          <6>1. landed[Op(h)] # 2
            BY <5>4 DEF Remove, Inv, Grounded, GroundedAt
          <6> QED
            BY <5>2, <5>4, <6>1 DEF Remove
        <5>5. CASE Save(h)
          <6>1. landed[Op(h)] = 2
            BY <5>2, <5>5 DEF Save
          <6>2. Doc(h) \in rewound
            BY <5>5, <6>1 DEF Save, Inv, Grounded, GroundedAt
          <6> QED
            BY <5>5, <6>2 DEF Save, StampAt
        <5> QED
          BY <4>2, <5>3, <5>4, <5>5
      <4> QED
        BY <4>1, <4>2
    <3> QED
      BY <3>1, <3>2, <3>3 DEF Contract!vars
  <2> QED
    BY <2>1, <2>2, <2>3
<1> QED
  BY <1>1, <1>2, <1>3, <1>4, NextCases DEF Contract!Next

(* The server implements the contract: each of its steps is the effect of  *)
(* one op, a true answer, an edit on a device, or no step of the contract, *)
(* for every clock.                                                        *)
THEOREM Implements == Spec => ImplementsContract
PROOF
<1>1. TypeOK /\ Inv /\ [Next]_vars => [Contract!Next]_(Contract!vars)
  BY ContractStep
<1> QED
  BY <1>1, ContractInit, TypedInv, PTL
     DEF Spec, ImplementsContract, Contract!Spec
=============================================================================
