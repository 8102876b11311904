--------------------------- MODULE Savings_proofs ---------------------------
(* What holds of goal and saver for any number of requests, failures and   *)
(* ticks, and any amounts and plans.                                       *)
EXTENDS Savings, TLAPS

USE AmountsAssumption

Savers == [amount : Int, pushed : Nat]
Edits == {"update", "archive", "pause", "resume", "complete"}
SaverOps == {"deposit", "withdraw", "pushover"}

EditStage == [op : Edits, at : {"save"}, copy : Goals, next : Goals]
GivingStage == [op : Giving, at : {"row", "save"}, copy : Goals, amount : Nat \ {0}]
TellingStage == [op : Giving, at : {"tell"}, tell : SUBSET Milestones]
SaverStage == [op : SaverOps, at : {"row", "write"}, copy : Savers, amount : Nat \ {0}]
Stages == {Idle} \cup EditStage \cup GivingStage \cup TellingStage \cup SaverStage

(* Every request is at a place of its handler, with what it has there.     *)
Typed == TypeOK /\ request \in [Requests -> Stages]

(* Two requests that run beside each other were noted.                     *)
Noted == \A r, p \in Requests :
    r # p /\ Busy(r) /\ Busy(p) => {request[r].op, request[p].op} \in overlaps
-----------------------------------------------------------------------------
(* The goal that an edit wants is one, and what it leaves alone.           *)
LEMMA CompletedGoal ==
    ASSUME NEW g \in Goals
    PROVE  /\ Completed(g) \in Goals
           /\ Completed(g).target = g.target /\ Completed(g).amount = g.amount
           /\ Completed(g).enabled = g.enabled /\ Completed(g).last = g.last
           /\ Completed(g).status = "active" =>
                g.status = "active" /\ g.amount < g.target
           /\ Completed(g).status \in {g.status, "completed"}
           /\ g.status \notin {"active", "completed"} => Completed(g).status # "completed"
BY DEF Completed, Goals

LEMMA RetargetedGoal ==
    ASSUME NEW g \in Goals, NEW t \in Nat \ {0}
    PROVE  /\ Retargeted(g, t) \in Goals
           /\ Retargeted(g, t).amount = g.amount /\ Retargeted(g, t).last = g.last
           /\ Retargeted(g, t).status = "active" => g.amount < Retargeted(g, t).target
           /\ g.status # "none" => Retargeted(g, t).status # "none"
<1> DEFINE h == [g EXCEPT !.target = t,
                  !.status = IF @ = "completed" /\ g.amount < t THEN "active" ELSE @]
<1>1. /\ h \in Goals /\ h.amount = g.amount /\ h.last = g.last
      /\ g.status # "none" => h.status # "none"
    BY DEF Goals
<1> HIDE DEF h
<1>2. Retargeted(g, t) = Completed(h)
    BY DEF Retargeted, h
<1> QED BY <1>1, <1>2, CompletedGoal

(* What a save of the modified paths makes of the goal, field by field.    *)
LEMMA MergedGoal ==
    ASSUME TypeOK, NEW c \in Goals, NEW n \in Goals
    PROVE  /\ Merged(c, n) \in Goals
           /\ Merged(c, n).status = IF n.status # c.status THEN n.status ELSE goal.status
           /\ Merged(c, n).target = IF n.target # c.target THEN n.target ELSE goal.target
           /\ Merged(c, n).amount = IF n.amount # c.amount THEN n.amount ELSE goal.amount
           /\ Merged(c, n).last = IF n.last # c.last \/ n.enabled # c.enabled
                                  THEN n.last ELSE goal.last
<1> DEFINE F(f) == IF n[f] # c[f] \/ (f = "last" /\ n.enabled # c.enabled) THEN n[f] ELSE goal[f]
<1>1. goal \in Goals /\ DOMAIN goal = {"status", "target", "amount", "enabled", "last"}
    BY DEF TypeOK, Goals
<1>2. Merged(c, n) = [f \in {"status", "target", "amount", "enabled", "last"} |-> F(f)]
    BY <1>1 DEF Merged
<1>3. Merged(c, n) = [status |-> F("status"), target |-> F("target"), amount |-> F("amount"),
                      enabled |-> F("enabled"), last |-> F("last")]
    BY <1>2
<1>4. /\ F("status") = IF n.status # c.status THEN n.status ELSE goal.status
      /\ F("target") = IF n.target # c.target THEN n.target ELSE goal.target
      /\ F("amount") = IF n.amount # c.amount THEN n.amount ELSE goal.amount
      /\ F("last") = IF n.last # c.last \/ n.enabled # c.enabled THEN n.last ELSE goal.last
    OBVIOUS
<1>5. /\ F("enabled") \in {n.enabled, goal.enabled}
      /\ F("last") \in {n.last, goal.last}
    OBVIOUS
<1> HIDE DEF F
<1> QED BY <1>1, <1>3, <1>4, <1>5 DEF Goals
-----------------------------------------------------------------------------
(* What a new request is asked: an edit, a contribution, or a move of the  *)
(* saver, on a copy of what there is.                                      *)
Planned(q) ==
    /\ q \in EditStage /\ q.copy = goal /\ goal.status # "none"
    /\ q.next.amount = goal.amount /\ q.next.status # "none"
    /\ q.next.last = goal.last /\ (q.op # "update" => q.next.enabled = goal.enabled)
    /\ q.op \in {"archive", "pause", "complete"} =>
          /\ q.next.target = goal.target
          /\ q.next.status # "active" /\ q.next.status # goal.status
    /\ q.op \in {"update", "resume"} /\ q.next.status = "active" =>
          \/ q.next.amount < q.next.target
          \/ goal.status = "active" /\ q.next.target = goal.target
Given(q) ==
    /\ q \in GivingStage /\ q.at = "row" /\ q.copy = goal /\ goal.status = "active"
    /\ q.op = "auto" => Due(goal)
Moved(q) ==
    /\ q \in SaverStage /\ q.copy = saver
    /\ q.op = "deposit" => q.at = "write" /\ q.amount <= Funds - saver.amount
    /\ q.op = "withdraw" => q.at = "write"
    /\ q.op = "pushover" => q.at = "row" /\ q.amount = saver.amount

LEMMA Asked ==
    ASSUME TypeOK, NEW r \in Requests, Ask(r)
    PROVE  \E q : Starts(r, q) /\ (Planned(q) \/ Given(q) \/ Moved(q))
<1> USE DEF TypeOK
<1>1. ASSUME NEW t \in Targets, Update(r, t)
      PROVE  \E q : Starts(r, q) /\ Planned(q)
  <2> DEFINE q == [op |-> "update", at |-> "save", copy |-> goal, next |-> Retargeted(goal, t)]
  <2>1. t \in Nat \ {0}
      OBVIOUS
  <2>2. Starts(r, q) /\ goal.status # "none"
      BY <1>1 DEF Update, Edit
  <2>3. Planned(q)
      BY <2>1, <2>2, RetargetedGoal DEF Planned, EditStage, Edits
  <2> QED BY <2>2, <2>3
<1>2. ASSUME Toggle(r)
      PROVE  \E q : Starts(r, q) /\ Planned(q)
  <2> DEFINE q == [op |-> "update", at |-> "save", copy |-> goal,
                   next |-> [goal EXCEPT !.enabled = ~@]]
  <2>1. Starts(r, q) /\ goal.status # "none"
      BY <1>2 DEF Toggle, Edit
  <2>2. [goal EXCEPT !.enabled = ~@] \in Goals
      BY DEF Goals
  <2>3. /\ q.next.amount = goal.amount /\ q.next.status = goal.status
        /\ q.next.target = goal.target /\ q.next.last = goal.last
      BY DEF Goals
  <2>4. goal.status = "active" \/ q.next.status # "active"
      BY <2>3
  <2>5. Planned(q)
      BY <2>1, <2>2, <2>3, <2>4 DEF Planned, EditStage, Edits
  <2> QED BY <2>1, <2>5
<1>3. ASSUME NEW op \in {"archive", "pause", "complete"},
             NEW s \in {"archived", "paused", "completed"}, s # goal.status,
             Edit(r, op, [goal EXCEPT !.status = s])
      PROVE  \E q : Starts(r, q) /\ Planned(q)
  <2> DEFINE q == [op |-> op, at |-> "save", copy |-> goal, next |-> [goal EXCEPT !.status = s]]
  <2>1. Starts(r, q) /\ goal.status # "none"
      BY <1>3 DEF Edit
  <2>2. /\ [goal EXCEPT !.status = s] \in Goals
        /\ q.next.amount = goal.amount /\ q.next.status = s /\ q.next.target = goal.target
        /\ q.next.last = goal.last /\ q.next.enabled = goal.enabled
      BY DEF Goals
  <2>3. Planned(q)
      BY <1>3, <2>1, <2>2 DEF Planned, EditStage, Edits
  <2> QED BY <2>1, <2>3
<1>4. ASSUME Archive(r) \/ Pause(r) \/ Complete(r)
      PROVE  \E q : Starts(r, q) /\ Planned(q)
  <2>1. CASE Archive(r)
      BY <1>3, <2>1 DEF Archive, Edit
  <2>2. CASE Pause(r)
      BY <1>3, <2>2 DEF Pause
  <2>3. CASE Complete(r)
      BY <1>3, <2>3 DEF Complete
  <2> QED BY <1>4, <2>1, <2>2, <2>3
<1>5. ASSUME Resume(r)
      PROVE  \E q : Starts(r, q) /\ Planned(q)
  <2> DEFINE g == [goal EXCEPT !.status = "active"]
             q == [op |-> "resume", at |-> "save", copy |-> goal, next |-> Completed(g)]
  <2>1. Starts(r, q) /\ goal.status # "none"
      BY <1>5 DEF Resume, Edit, Resumed
  <2>2. /\ g \in Goals /\ g.amount = goal.amount /\ g.status = "active"
        /\ g.last = goal.last /\ g.enabled = goal.enabled
      BY DEF Goals
  <2> HIDE DEF g
  <2>3. Planned(q)
      BY <2>1, <2>2, CompletedGoal DEF Planned, EditStage, Edits
  <2> QED BY <2>1, <2>3
<1>6. ASSUME NEW a \in Nat \ {0}, NEW op \in Giving, Gives(r, op, a), op = "auto" => Due(goal)
      PROVE  \E q : Starts(r, q) /\ Given(q)
    BY <1>6 DEF Gives, Given, GivingStage
<1>7. ASSUME (\E a \in Amounts : Contribute(r, a)) \/ AutoContribute(r)
      PROVE  \E q : Starts(r, q) /\ Given(q)
    BY <1>6, <1>7 DEF Contribute, AutoContribute, Giving
<1>8. ASSUME NEW a \in Deposits, Deposit(r, a) \/ Withdraw(r, a)
      PROVE  \E q : Starts(r, q) /\ Moved(q)
  <2>1. a \in Nat \ {0}
      OBVIOUS
  <2> QED BY <1>8, <2>1 DEF Deposit, Withdraw, Saver, Moved, SaverStage, SaverOps, Savers
<1>9. ASSUME Pushover(r)
      PROVE  \E q : Starts(r, q) /\ Moved(q)
  <2>1. saver.amount \in Nat \ {0}
      BY <1>9 DEF Pushover
  <2> QED BY <1>9, <2>1 DEF Pushover, Saver, Moved, SaverStage, SaverOps, Savers
<1> QED BY <1>1, <1>2, <1>4, <1>5, <1>7, <1>8, <1>9 DEF Ask

LEMMA NewStage ==
    ASSUME NEW q, Planned(q) \/ Given(q) \/ Moved(q)
    PROVE  q \in Stages /\ q # Idle
BY DEF Planned, Given, Moved, Stages, EditStage, GivingStage, SaverStage, Edits, Giving,
       SaverOps, Idle
-----------------------------------------------------------------------------
LEMMA InitTyped == Init => Typed /\ Noted
<1> SUFFICES ASSUME Init PROVE Typed /\ Noted
    OBVIOUS
<1>1. TypeOK
    BY DEF Init, TypeOK, Goals, Giving, Never
<1>2. request \in [Requests -> Stages]
    BY DEF Init, Stages
<1> QED BY <1>1, <1>2 DEF Init, Typed, Noted, Busy

(* A request that is at one of its steps, and the stage this means.        *)
LEMMA AtStage ==
    ASSUME Typed, NEW r \in Requests
    PROVE  /\ \A at : At(r, Edits, at) => request[r] \in EditStage
           /\ At(r, Giving, "row") \/ At(r, Giving, "save") => request[r] \in GivingStage
           /\ At(r, Giving, "tell") => request[r] \in TellingStage
           /\ \A ops \in SUBSET SaverOps : \A at : At(r, ops, at) => request[r] \in SaverStage
           /\ request[r].op = "none" <=> request[r] = Idle
BY DEF Typed, Stages, At, EditStage, GivingStage, TellingStage, SaverStage, Edits, Giving,
       SaverOps, Idle

(* The types survive every step, and a request keeps its operation.        *)
LEMMA TypedStep == Typed /\ [Next]_vars => Typed'
<1> SUFFICES ASSUME Typed, [Next]_vars PROVE Typed'
    OBVIOUS
<1>0. TypeOK /\ request \in [Requests -> Stages] /\ Idle \in Stages
    BY DEF Typed, Stages
<1>1. CASE UNCHANGED vars
    BY <1>0, <1>1 DEF Typed, TypeOK, vars, goalVars, saverVars
<1>2. ASSUME NEW r \in Requests, Ask(r)
      PROVE  Typed'
  <2>1. PICK q : Starts(r, q) /\ (Planned(q) \/ Given(q) \/ Moved(q))
      BY <1>0, <1>2, Asked
  <2>2. request' \in [Requests -> Stages]
      BY <1>0, <2>1, NewStage DEF Starts
  <2> QED BY <1>0, <2>1, <2>2 DEF Starts, Typed, TypeOK, goalVars, saverVars
<1>3. ASSUME NEW r \in Requests, Save(r)
      PROVE  Typed'
  <2>1. request[r] \in EditStage
      BY <1>3, AtStage DEF Save, Edits
  <2>2. goal' \in Goals
      BY <1>0, <1>3, <2>1, MergedGoal DEF Save, EditStage
  <2> QED BY <1>0, <1>3, <2>2 DEF Save, Ends, Typed, TypeOK, rowVars, saverVars
<1>4. ASSUME NEW r \in Requests, CreateRow(r)
      PROVE  Typed'
  <2>1. request[r] \in GivingStage
      BY <1>4, AtStage DEF CreateRow
  <2>2. /\ [amount |-> request[r].amount, op |-> request[r].op, at |-> now]
              \in [amount : Nat \ {0}, op : Giving, at : Nat]
        /\ [request[r] EXCEPT !.at = "save"] \in Stages
      BY <1>0, <2>1 DEF GivingStage, TypeOK, Stages
  <2>3. rows' \in Seq([amount : Nat \ {0}, op : Giving, at : Nat])
      BY <1>0, <1>4, <2>2 DEF CreateRow, TypeOK
  <2> QED BY <1>0, <1>4, <2>2, <2>3 DEF CreateRow, Typed, TypeOK, saverVars
<1>5. ASSUME NEW r \in Requests, NEW t \in SUBSET Milestones, Tells(r, t),
             At(r, Giving, "save") \/ At(r, Giving, "tell")
      PROVE  request' \in [Requests -> Stages]
  <2>1. request[r].op \in Giving
      BY <1>5 DEF At
  <2>2. [op |-> request[r].op, at |-> "tell", tell |-> t] \in Stages
      BY <2>1 DEF Stages, TellingStage
  <2> QED BY <1>0, <1>5, <2>2 DEF Tells, Ends
<1>6. ASSUME NEW r \in Requests, SaveAmount(r)
      PROVE  Typed'
  <2> DEFINE n == Completed([request[r].copy EXCEPT
                      !.amount = @ + request[r].amount,
                      !.last = IF request[r].op = "auto" THEN now ELSE @])
  <2>1. request[r] \in GivingStage
      BY <1>6, AtStage DEF SaveAmount
  <2>2. n \in Goals
    <3>1. [request[r].copy EXCEPT !.amount = @ + request[r].amount,
                                  !.last = IF request[r].op = "auto" THEN now ELSE @] \in Goals
      <4>1. request[r].copy \in Goals /\ request[r].amount \in Nat
          BY <2>1 DEF GivingStage
      <4>2. ASSUME NEW c \in Goals, NEW a \in Nat, NEW l \in Nat \cup {Never}
            PROVE  [c EXCEPT !.amount = a, !.last = l] \in Goals
          BY <4>2 DEF Goals
      <4>3. (IF request[r].op = "auto" THEN now ELSE request[r].copy.last) \in Nat \cup {Never}
          BY <1>0, <4>1 DEF Goals, TypeOK
      <4>4. request[r].copy.amount + request[r].amount \in Nat
          BY <4>1 DEF Goals
      <4> QED BY <4>1, <4>2, <4>3, <4>4
    <3> QED BY <3>1, CompletedGoal
  <2>3. goal' = Merged(request[r].copy, n)
      BY <1>6 DEF SaveAmount
  <2>4. Crossed(request[r].copy.amount, n.amount, request[r].copy.target) \in SUBSET Milestones
      BY DEF Crossed
  <2>5. request' \in [Requests -> Stages]
      BY <1>5, <1>6, <2>4 DEF SaveAmount
  <2> HIDE DEF n
  <2>6. goal' \in Goals
      BY <1>0, <2>1, <2>2, <2>3, MergedGoal DEF GivingStage
  <2> QED BY <1>0, <1>6, <2>5, <2>6 DEF SaveAmount, Typed, TypeOK, rowVars, saverVars
<1>7. ASSUME NEW r \in Requests, Tell(r)
      PROVE  Typed'
  <2>1. request[r] \in TellingStage
      BY <1>7, AtStage DEF Tell
  <2>2. PICK m \in request[r].tell : told' = told \cup {m} /\ Tells(r, request[r].tell \ {m})
      BY <1>7 DEF Tell
  <2>3. told' \subseteq Milestones /\ request[r].tell \ {m} \in SUBSET Milestones
      BY <1>0, <2>1, <2>2 DEF TellingStage, TypeOK
  <2>4. request' \in [Requests -> Stages]
      BY <1>5, <1>7, <2>2, <2>3 DEF Tell
  <2> QED BY <1>0, <1>7, <2>3, <2>4 DEF Tell, Typed, TypeOK, rowVars, saverVars
<1>8. ASSUME NEW r \in Requests, Inc(r) \/ Take(r) \/ InsertPushover(r) \/ Empty(r)
      PROVE  Typed'
  <2>1. request[r] \in SaverStage
      BY <1>8, AtStage DEF Inc, Take, InsertPushover, Empty, SaverOps
  <2>2. [request[r] EXCEPT !.at = "write"] \in Stages
      BY <2>1 DEF SaverStage, Stages
  <2>3. request' \in [Requests -> Stages]
      BY <1>0, <1>8, <2>2 DEF Inc, Take, InsertPushover, Empty, Ends
  <2>4. /\ saver' \in [amount : Int, pushed : Nat]
        /\ pushovers' \in Nat /\ put' \in Nat /\ taken' \in Nat
      BY <1>0, <1>8, <2>1 DEF Inc, Take, InsertPushover, Empty, SaverStage, Savers, TypeOK
  <2>5. UNCHANGED <<goalVars, now>>
      BY <1>8 DEF Inc, Take, InsertPushover, Empty
  <2> QED BY <1>0, <2>3, <2>4, <2>5 DEF Typed, TypeOK, goalVars
<1>9. ASSUME NEW r \in Requests, Fail(r)
      PROVE  Typed'
    BY <1>0, <1>9 DEF Fail, Ends, Typed, TypeOK, goalVars, saverVars
<1>10. ASSUME NEW t \in Targets, Create(t)
       PROVE  Typed'
  <2>1. New(t) \in Goals
      BY DEF New, Goals
  <2> QED BY <1>0, <1>10, <2>1 DEF Create, Typed, TypeOK, rowVars, saverVars
<1>11. CASE Tick
    BY <1>0, <1>11 DEF Tick, Typed, TypeOK, goalVars, saverVars
<1> QED BY <1>1, <1>2, <1>3, <1>4, <1>6, <1>7, <1>8, <1>9, <1>10, <1>11 DEF Next, Step
-----------------------------------------------------------------------------
(* A step of a request that is not its first changes that request only,    *)
(* and not what it was asked.                                              *)
LEMMA StepOfOne ==
    ASSUME Typed, NEW r \in Requests, Step(r) \/ Fail(r)
    PROVE  /\ overlaps' = overlaps
           /\ \A p \in Requests : p # r => request'[p] = request[p]
           /\ request'[r] = Idle \/ request'[r].op = request[r].op
           /\ Busy(r)
<1>1. request \in [Requests -> Stages]
    BY DEF Typed
<1>2. CASE Fail(r)
    BY <1>1, <1>2 DEF Fail, Ends
<1>3. CASE Save(r) \/ Inc(r) \/ Take(r) \/ Empty(r)
    BY <1>1, <1>3 DEF Save, Inc, Take, Empty, Ends, At, Busy, Idle
<1>4. CASE CreateRow(r)
  <2>1. request[r] \in GivingStage
      BY <1>4, AtStage DEF CreateRow
  <2> QED BY <1>1, <1>4, <2>1 DEF CreateRow, At, Busy, Idle, GivingStage, Giving
<1>5. CASE InsertPushover(r)
  <2>1. request[r] \in SaverStage
      BY <1>5, AtStage DEF InsertPushover, SaverOps
  <2> QED BY <1>1, <1>5, <2>1 DEF InsertPushover, At, Busy, Idle, SaverStage
<1>6. CASE SaveAmount(r) \/ Tell(r)
  <2>1. request[r] # Idle /\ overlaps' = overlaps
      BY <1>6 DEF SaveAmount, Tell, At, Giving, Idle
  <2>2. PICK t : Tells(r, t)
      BY <1>6 DEF SaveAmount, Tell
  <2> QED BY <1>1, <2>1, <2>2 DEF Tells, Ends, Busy
<1> QED BY <1>2, <1>3, <1>4, <1>5, <1>6 DEF Step

LEMMA NotedStep == Typed /\ Noted /\ [Next]_vars => Noted'
<1> SUFFICES ASSUME Typed, Noted, [Next]_vars PROVE Noted'
    OBVIOUS
<1>0. TypeOK /\ request \in [Requests -> Stages]
    BY DEF Typed
<1>1. CASE UNCHANGED <<request, overlaps>>
    BY <1>1 DEF Noted, Busy
<1>2. ASSUME NEW r \in Requests, Ask(r)
      PROVE  Noted'
  <2>1. PICK q : Starts(r, q)
      BY <1>0, <1>2, Asked
  <2>2. \A p \in Requests \ {r} : request'[p] = request[p]
      BY <1>0, <2>1 DEF Starts
  <2>3. request'[r] = q
      BY <1>0, <2>1 DEF Starts
  <2>4. \A p \in Requests \ {r} : Busy(p) => {q.op, request[p].op} \in overlaps'
      BY <2>1 DEF Starts
  <2>5. overlaps \subseteq overlaps'
      BY <2>1 DEF Starts
  <2> QED BY <2>2, <2>3, <2>4, <2>5 DEF Noted, Busy
<1>3. ASSUME NEW r \in Requests, Step(r) \/ Fail(r)
      PROVE  Noted'
    BY <1>3, StepOfOne DEF Noted, Busy
<1>4. ASSUME NEW t \in Targets, Create(t)
      PROVE  UNCHANGED <<request, overlaps>>
    BY <1>4 DEF Create
<1>5. UNCHANGED vars \/ Tick => UNCHANGED <<request, overlaps>>
    BY DEF vars, Tick
<1> QED BY <1>1, <1>2, <1>3, <1>4, <1>5 DEF Next
-----------------------------------------------------------------------------
(* The saver.  Unless a withdrawal or a pushover ran beside another        *)
(* request, or a pushover was cut off between its writes: who takes from   *)
(* the saver has read what there is (AsRead), the sum holds before and     *)
(* after a pushover, and between its writes all but for its amount         *)
(* (Balanced), and there is room for every deposit that runs alone (Room). *)
Taking == {"withdraw", "pushover"}
Disturbed == Beside(Taking, SaverOps) \/ Cut({"pushover"}, {"write"})
TwoDeposits == Beside({"deposit"}, {"deposit"})
Pushing(r) == At(r, {"pushover"}, "write")

AsRead == \A r \in Requests :
    /\ request[r].op \in Taking => request[r].copy = saver
    /\ request[r].op = "pushover" => request[r].amount = saver.amount
    /\ request[r].op = "withdraw" => request[r].at = "write"
Balanced ==
    /\ (\A r \in Requests : ~Pushing(r)) =>
          saver.amount + pushovers + taken = put /\ saver.pushed = pushovers
    /\ \A r \in Requests : Pushing(r) =>
          /\ saver.amount + pushovers + taken = put + request[r].amount
          /\ saver.pushed + request[r].amount = pushovers
Room == TwoDeposits \/
    /\ saver.amount <= Funds
    /\ \A r \in Requests : request[r].op = "deposit" => request[r].amount <= Funds - saver.amount
SaverInv == Disturbed \/ (AsRead /\ Balanced /\ Room)

LEMMA HistoryGrows ==
    ASSUME overlaps \subseteq overlaps', cut \subseteq cut'
    PROVE  (Disturbed => Disturbed') /\ (TwoDeposits => TwoDeposits')
BY DEF Disturbed, TwoDeposits, Beside, Cut

(* Nothing runs beside a request that takes from the saver, and nothing    *)
(* but a deposit beside a deposit, unless it was noted.                    *)
LEMMA TakesAlone ==
    ASSUME Typed, Noted, ~Disturbed, NEW r \in Requests, NEW p \in Requests, r # p,
           request[r].op \in SaverOps, request[p].op \in SaverOps
    PROVE  request[r].op = "deposit" /\ request[p].op = "deposit" /\ TwoDeposits
<1>1. Busy(r) /\ Busy(p)
    BY DEF Busy, Idle, SaverOps
<1>2. {request[r].op, request[p].op} \in overlaps
    BY <1>1 DEF Noted
<1>3. {request[r].op, request[p].op} = {request[p].op, request[r].op}
    OBVIOUS
<1>4. request[r].op \notin Taking /\ request[p].op \notin Taking
    BY <1>2, <1>3 DEF Disturbed, Beside
<1>5. request[r].op = "deposit" /\ request[p].op = "deposit"
    BY <1>4 DEF Taking, SaverOps
<1> QED BY <1>2, <1>5 DEF TwoDeposits, Beside

(* A step that leaves the saver alone, and its requests, but for one that  *)
(* ends before it has written.                                             *)
LEMMA SaverUntouched ==
    ASSUME Typed, SaverInv, UNCHANGED saverVars, overlaps \subseteq overlaps', cut \subseteq cut',
           \A p \in Requests : request'[p] = request[p] \/
               (request'[p].op \notin SaverOps /\ ~Pushing(p))
    PROVE  SaverInv'
<1>1. CASE Disturbed
    BY <1>1, HistoryGrows DEF SaverInv
<1>2. CASE AsRead /\ Balanced /\ Room
  <2>1. AsRead'
      BY <1>2 DEF AsRead, saverVars, SaverOps, Taking
  <2>2. \A p \in Requests : Pushing(p)' <=> Pushing(p)
      BY DEF Pushing, At, SaverOps
  <2>3. \A p \in Requests : Pushing(p) => request'[p] = request[p]
      OBVIOUS
  <2>4. Balanced'
      BY <1>2, <2>2, <2>3 DEF Balanced, saverVars
  <2>5. Room'
      BY <1>2, HistoryGrows DEF Room, saverVars, SaverOps
  <2> QED BY <2>1, <2>4, <2>5 DEF SaverInv
<1> QED BY <1>1, <1>2 DEF SaverInv

LEMMA SaverStep == Typed /\ Noted /\ SaverInv /\ [Next]_vars => SaverInv'
<1> SUFFICES ASSUME Typed, Noted, SaverInv, [Next]_vars PROVE SaverInv'
    OBVIOUS
<1>0. TypeOK /\ request \in [Requests -> Stages]
    BY DEF Typed
<1>1. CASE UNCHANGED vars
    BY <1>1, SaverUntouched DEF vars
<1>2. ASSUME NEW r \in Requests, Ask(r)
      PROVE  SaverInv'
  <2>1. PICK q : Starts(r, q) /\ (Planned(q) \/ Given(q) \/ Moved(q))
      BY <1>0, <1>2, Asked
  <2>2. /\ UNCHANGED saverVars /\ cut' = cut /\ overlaps \subseteq overlaps'
        /\ request'[r] = q /\ request[r] = Idle
        /\ \A p \in Requests \ {r} : request'[p] = request[p]
        /\ \A p \in Requests \ {r} : Busy(p) => {q.op, request[p].op} \in overlaps'
      BY <1>0, <2>1 DEF Starts, Busy
  <2>3. ~Pushing(r)
      BY <2>2 DEF Pushing, At, Idle
  <2>4. CASE Planned(q) \/ Given(q)
    <3>1. q.op \notin SaverOps
        BY <2>4 DEF Planned, Given, EditStage, GivingStage, Edits, Giving, SaverOps
    <3> QED BY <2>2, <2>3, <3>1, SaverUntouched
  <2>5. CASE Moved(q) /\ ~Disturbed'
    <3>1. AsRead /\ Balanced /\ Room
        BY <2>2, <2>5, HistoryGrows DEF SaverInv
    <3>2. saver' = saver /\ pushovers' = pushovers /\ put' = put /\ taken' = taken
        BY <2>2 DEF saverVars
    <3>3. AsRead'
      <4>1. /\ q.op \in Taking => q.copy = saver
            /\ q.op = "pushover" => q.amount = saver.amount
            /\ q.op = "withdraw" => q.at = "write"
          BY <2>5 DEF Moved
      <4> QED BY <2>2, <3>1, <3>2, <4>1 DEF AsRead
    <3>4. ~Pushing(r)'
        BY <2>2, <2>5 DEF Pushing, At, Moved
    <3>5. \A p \in Requests :
            (Pushing(p)' <=> Pushing(p)) /\ (Pushing(p) => request'[p] = request[p])
        BY <2>2, <2>3, <3>4 DEF Pushing, At
    <3>6. Balanced'
        BY <3>1, <3>2, <3>5 DEF Balanced
    <3>7. Room'
        BY <2>2, <2>5, <3>1, <3>2, HistoryGrows DEF Room, Moved
    <3> QED BY <3>3, <3>6, <3>7 DEF SaverInv
  <2> QED BY <2>1, <2>4, <2>5 DEF SaverInv
<1>3. ASSUME NEW r \in Requests, Save(r) \/ CreateRow(r) \/ SaveAmount(r) \/ Tell(r)
      PROVE  SaverInv'
  <2>1. /\ UNCHANGED saverVars /\ cut' = cut /\ request[r].op \in Edits \cup Giving
      BY <1>3 DEF Save, CreateRow, SaveAmount, Tell, At, Edits
  <2>2. /\ overlaps' = overlaps
        /\ \A p \in Requests : p # r => request'[p] = request[p]
        /\ request'[r] = Idle \/ request'[r].op = request[r].op
      BY <1>3, StepOfOne DEF Step
  <2>3. request'[r].op \notin SaverOps /\ ~Pushing(r)
      BY <2>1, <2>2 DEF Edits, Giving, SaverOps, Idle, Pushing, At
  <2> QED BY <2>1, <2>2, <2>3, SaverUntouched
<1>4. ASSUME NEW r \in Requests, Inc(r) \/ Take(r) \/ InsertPushover(r) \/ Empty(r), ~Disturbed
      PROVE  SaverInv'
  <2>1. request[r] \in SaverStage
      BY <1>4, AtStage DEF Inc, Take, InsertPushover, Empty, SaverOps
  <2>2. /\ overlaps' = overlaps
        /\ \A p \in Requests : p # r => request'[p] = request[p]
        /\ request'[r] = Idle \/ request'[r].op = request[r].op
      BY <1>4, StepOfOne DEF Step
  <2>3. cut' = cut
      BY <1>4 DEF Inc, Take, InsertPushover, Empty
  <2>4. (TwoDeposits' <=> TwoDeposits) /\ (Disturbed' <=> Disturbed)
      BY <2>2, <2>3 DEF TwoDeposits, Disturbed, Beside, Cut
  <2>5. AsRead /\ Balanced /\ Room
      BY <1>4 DEF SaverInv
  <2>6. request[r].op \in SaverOps /\ request[r].amount \in Nat
      BY <2>1 DEF SaverStage
  <2>7. /\ saver \in Savers /\ pushovers \in Nat /\ put \in Nat /\ taken \in Nat
      BY <1>0 DEF TypeOK, Savers
  <2>8. \A p \in Requests \ {r} : request[p].op \in SaverOps =>
            request[r].op = "deposit" /\ request[p].op = "deposit" /\ TwoDeposits
      BY <1>4, <2>6, TakesAlone
  <2>9. \A p \in Requests \ {r} : ~Pushing(p) /\ ~Pushing(p)'
      BY <2>2, <2>8 DEF Pushing, At, SaverOps
  <2>10. CASE Inc(r)
    <3>1. /\ saver'.amount = saver.amount + request[r].amount /\ saver'.pushed = saver.pushed
          /\ put' = put + request[r].amount /\ UNCHANGED <<pushovers, taken>>
          /\ request'[r] = Idle /\ request[r].op = "deposit"
        BY <1>0, <2>7, <2>10 DEF Inc, Ends, At, Savers
    <3>2. AsRead'
        BY <2>2, <2>8, <3>1 DEF AsRead, SaverOps, Taking, Idle
    <3>3. \A p \in Requests : ~Pushing(p) /\ ~Pushing(p)'
        BY <2>9, <3>1 DEF Pushing, At, Idle
    <3>4. Balanced'
        BY <2>5, <2>6, <2>7, <3>1, <3>3 DEF Balanced, Savers
    <3>5. Room'
        BY <2>2, <2>4, <2>5, <2>6, <2>7, <2>8, <3>1 DEF Room, Savers, SaverOps, Idle
    <3> QED BY <3>2, <3>4, <3>5 DEF SaverInv
  <2>11. CASE Take(r)
    <3>1. /\ saver'.amount = saver.amount - request[r].amount /\ saver'.pushed = saver.pushed
          /\ taken' = taken + request[r].amount /\ UNCHANGED <<pushovers, put>>
          /\ request'[r] = Idle /\ request[r].op = "withdraw"
        BY <1>0, <2>5, <2>7, <2>11 DEF Take, Ends, At, Savers, AsRead, Taking
    <3>2. AsRead'
        BY <2>2, <2>8, <3>1 DEF AsRead, SaverOps, Taking, Idle
    <3>3. \A p \in Requests : ~Pushing(p) /\ ~Pushing(p)'
        BY <2>9, <3>1 DEF Pushing, At, Idle
    <3>4. Balanced'
        BY <2>5, <2>6, <2>7, <3>1, <3>3 DEF Balanced, Savers
    <3>5. Room'
        BY <2>2, <2>4, <2>5, <2>6, <2>7, <2>8, <3>1 DEF Room, Savers, SaverOps, Idle
    <3> QED BY <3>2, <3>4, <3>5 DEF SaverInv
  <2>12. CASE InsertPushover(r)
    <3>1. /\ pushovers' = pushovers + request[r].amount /\ UNCHANGED <<saver, put, taken>>
          /\ request'[r] = [request[r] EXCEPT !.at = "write"]
          /\ request[r].op = "pushover" /\ request[r].at = "row"
        BY <1>0, <2>12 DEF InsertPushover, At
    <3>2. /\ request'[r].op = "pushover" /\ request'[r].at = "write"
          /\ request'[r].copy = request[r].copy /\ request'[r].amount = request[r].amount
        BY <2>1, <3>1 DEF SaverStage
    <3>3. AsRead'
        BY <2>2, <2>5, <3>1, <3>2 DEF AsRead, Taking
    <3>4. Pushing(r)' /\ ~Pushing(r)
        BY <3>1, <3>2 DEF Pushing, At
    <3>5. saver.amount + pushovers + taken = put /\ saver.pushed = pushovers
        BY <2>5, <2>9, <3>4 DEF Balanced
    <3>6. /\ saver'.amount + pushovers' + taken' = put' + request'[r].amount
          /\ saver'.pushed + request'[r].amount = pushovers'
        BY <2>6, <2>7, <3>1, <3>2, <3>5 DEF Savers
    <3>7. Balanced'
        BY <2>9, <3>4, <3>6 DEF Balanced
    <3>8. Room'
        BY <2>2, <2>4, <2>5, <3>1, <3>2 DEF Room
    <3> QED BY <3>3, <3>7, <3>8 DEF SaverInv
  <2>13. CASE Empty(r)
    <3>1. /\ saver'.amount = 0 /\ saver'.pushed = saver.pushed + request[r].amount
          /\ UNCHANGED <<pushovers, put, taken>> /\ request'[r] = Idle
          /\ request[r].op = "pushover" /\ Pushing(r) /\ request[r].amount = saver.amount
        BY <1>0, <2>5, <2>13 DEF Empty, Ends, At, AsRead, Taking, Pushing
    <3>2. AsRead'
        BY <2>2, <2>8, <3>1 DEF AsRead, SaverOps, Taking, Idle
    <3>3. \A p \in Requests : ~Pushing(p)'
        BY <2>9, <3>1 DEF Pushing, At, Idle
    <3>4. /\ saver.amount + pushovers + taken = put + saver.amount
          /\ saver.pushed + request[r].amount = pushovers
        BY <2>5, <3>1 DEF Balanced
    <3>5. saver'.amount + pushovers' + taken' = put' /\ saver'.pushed = pushovers'
        BY <2>7, <3>1, <3>4 DEF Savers
    <3>6. Balanced'
        BY <3>3, <3>5 DEF Balanced
    <3>7. Room'
        BY <2>2, <2>4, <2>5, <2>8, <3>1 DEF Room, SaverOps, Idle
    <3> QED BY <3>2, <3>6, <3>7 DEF SaverInv
  <2> QED BY <1>4, <2>10, <2>11, <2>12, <2>13
<1>5. ASSUME NEW r \in Requests, Inc(r) \/ Take(r) \/ InsertPushover(r) \/ Empty(r), Disturbed
      PROVE  SaverInv'
  <2>1. cut' = cut /\ overlaps' = overlaps
      BY <1>5 DEF Inc, Take, InsertPushover, Empty
  <2> QED BY <1>5, <2>1, HistoryGrows DEF SaverInv
<1>6. ASSUME NEW r \in Requests, Fail(r)
      PROVE  SaverInv'
  <2>1. /\ UNCHANGED saverVars /\ cut' = cut \cup {<<request[r].op, request[r].at>>}
        /\ request'[r] = Idle
      BY <1>0, <1>6 DEF Fail, Ends
  <2>2. /\ overlaps' = overlaps
        /\ \A p \in Requests : p # r => request'[p] = request[p]
      BY <1>6, StepOfOne
  <2>3. CASE Pushing(r)
      BY <2>1, <2>3 DEF Pushing, At, SaverInv, Disturbed, Cut
  <2>4. CASE ~Pushing(r)
      BY <2>1, <2>2, <2>4, SaverUntouched DEF SaverOps, Idle
  <2> QED BY <2>3, <2>4
<1>7. ASSUME NEW t \in Targets, Create(t)
      PROVE  SaverInv'
    BY <1>7, SaverUntouched DEF Create
<1>8. CASE Tick
    BY <1>8, SaverUntouched DEF Tick, saverVars
<1> QED BY <1>1, <1>2, <1>3, <1>4, <1>5, <1>6, <1>7, <1>8 DEF Next, Step
-----------------------------------------------------------------------------
(* The goal.  A request about it has found one, and nothing makes it go    *)
(* away; an edit leaves the amount alone.                                  *)
Present == \A r \in Requests :
    /\ request[r] \in EditStage \cup GivingStage => goal.status # "none"
    /\ request[r] \in EditStage =>
          request[r].next.amount = request[r].copy.amount /\ request[r].next.status # "none"
    /\ request[r] \in GivingStage => request[r].copy.status = "active"

(* The two writes to a goal, as the later lemmas use them.                 *)
LEMMA SavedEdit ==
    ASSUME Typed, Present, NEW r \in Requests, Save(r)
    PROVE  LET q == request[r] IN
           /\ q \in EditStage /\ request'[r] = Idle
           /\ goal'.amount = goal.amount
           /\ goal'.status = IF q.next.status # q.copy.status THEN q.next.status ELSE goal.status
           /\ goal'.target = IF q.next.target # q.copy.target THEN q.next.target ELSE goal.target
           /\ goal'.last = IF q.next.last # q.copy.last \/ q.next.enabled # q.copy.enabled
                           THEN q.next.last ELSE goal.last
<1>1. request[r] \in EditStage /\ TypeOK /\ request \in [Requests -> Stages]
    BY AtStage DEF Save, Edits, Typed
<1>2. goal' = Merged(request[r].copy, request[r].next) /\ request'[r] = Idle
    BY <1>1 DEF Save, Ends
<1>3. request[r].next.amount = request[r].copy.amount
    BY <1>1 DEF Present
<1> QED BY <1>1, <1>2, <1>3, MergedGoal DEF EditStage

LEMMA SavedAmount ==
    ASSUME Typed, Present, NEW r \in Requests, SaveAmount(r)
    PROVE  LET q == request[r] IN
           /\ q \in GivingStage /\ goal'.target = goal.target
           /\ goal'.amount = q.copy.amount + q.amount
           /\ goal'.status \in {goal.status, "completed"}
           /\ goal'.status = "active" => goal'.amount < q.copy.target
           /\ q.op = "auto" /\ q.copy.last = goal.last => goal'.last = now
           /\ q.op # "auto" => goal'.last = goal.last
           /\ Tells(r, Crossed(q.copy.amount, goal'.amount, q.copy.target))
<1> DEFINE q == request[r]
           c == [q.copy EXCEPT !.amount = @ + q.amount,
                               !.last = IF q.op = "auto" THEN now ELSE @]
           n == Completed(c)
<1>1. q \in GivingStage /\ TypeOK
    BY AtStage DEF SaveAmount, Typed
<1>2. q.copy \in Goals /\ q.amount \in Nat \ {0} /\ q.copy.status = "active"
    BY <1>1 DEF GivingStage, Present
<1>7. /\ goal' = Merged(q.copy, n)
      /\ Tells(r, Crossed(q.copy.amount, n.amount, q.copy.target))
    BY DEF SaveAmount
<1> HIDE DEF q, n
<1>3. q.copy.amount + q.amount \in Nat /\ q.copy.amount + q.amount # q.copy.amount
  <2>1. q.copy.amount \in Nat
      BY <1>2 DEF Goals
  <2> QED BY <1>2, <2>1
<1>4. (IF q.op = "auto" THEN now ELSE q.copy.last) \in Nat \cup {Never}
    BY <1>1, <1>2 DEF Goals, TypeOK
<1>6. /\ c \in Goals /\ c.amount = q.copy.amount + q.amount
      /\ c.target = q.copy.target /\ c.status = "active"
      /\ c.last = (IF q.op = "auto" THEN now ELSE q.copy.last) /\ c.enabled = q.copy.enabled
  <2> DEFINE a == q.copy.amount + q.amount
             l == IF q.op = "auto" THEN now ELSE q.copy.last
  <2>1. c = [q.copy EXCEPT !.amount = a, !.last = l]
      OBVIOUS
  <2>2. /\ a \in Nat /\ a = q.copy.amount + q.amount
        /\ l \in Nat \cup {Never} /\ l = IF q.op = "auto" THEN now ELSE q.copy.last
      BY <1>3, <1>4
  <2> HIDE DEF c, a, l
  <2> QED BY <1>2, <2>1, <2>2 DEF Goals
<1> HIDE DEF c
<1>8. /\ n \in Goals /\ n.amount = q.copy.amount + q.amount /\ n.target = q.copy.target
      /\ n.status = "active" => n.amount < n.target
      /\ n.status \in {"active", "completed"}
      /\ n.last = (IF q.op = "auto" THEN now ELSE q.copy.last) /\ n.enabled = q.copy.enabled
    BY <1>6, CompletedGoal DEF n
<1>9. /\ goal'.status = IF n.status # q.copy.status THEN n.status ELSE goal.status
      /\ goal'.target = IF n.target # q.copy.target THEN n.target ELSE goal.target
      /\ goal'.amount = IF n.amount # q.copy.amount THEN n.amount ELSE goal.amount
      /\ goal'.last = IF n.last # q.copy.last \/ n.enabled # q.copy.enabled
                      THEN n.last ELSE goal.last
    BY <1>1, <1>2, <1>7, <1>8, MergedGoal
<1>10. goal'.amount = n.amount /\ goal'.target = goal.target
    BY <1>3, <1>8, <1>9
<1>11. goal'.status = "active" => n.status = "active"
    BY <1>2, <1>8, <1>9
<1>12. goal'.status \in {goal.status, "completed"}
    BY <1>2, <1>8, <1>9
<1>13. /\ q.op = "auto" /\ q.copy.last = goal.last => goal'.last = now
       /\ q.op # "auto" => goal'.last = goal.last
    BY <1>8, <1>9
<1> QED BY <1>1, <1>7, <1>8, <1>10, <1>11, <1>12, <1>13 DEF q

(* What a request that goes on becomes: it keeps its copy, or is through   *)
(* with the goal.                                                          *)
LEMMA StageAfter ==
    ASSUME Typed, NEW r \in Requests, Step(r) \/ Fail(r)
    PROVE  \/ request'[r] \notin EditStage \cup GivingStage
           \/ /\ CreateRow(r) /\ request[r] \in GivingStage /\ request'[r] \in GivingStage
              /\ request'[r].copy = request[r].copy
<1>0. request \in [Requests -> Stages]
    BY DEF Typed
<1>1. CASE Fail(r) \/ Save(r) \/ Inc(r) \/ Take(r) \/ Empty(r)
  <2>1. request'[r] = Idle
      BY <1>0, <1>1 DEF Fail, Save, Inc, Take, Empty, Ends
  <2> QED BY <2>1 DEF EditStage, GivingStage, Idle, Edits, Giving
<1>2. CASE CreateRow(r)
  <2>1. request[r] \in GivingStage /\ request'[r] = [request[r] EXCEPT !.at = "save"]
      BY <1>0, <1>2, AtStage DEF CreateRow
  <2> QED BY <1>2, <2>1 DEF GivingStage
<1>3. CASE InsertPushover(r)
  <2>1. request[r] \in SaverStage /\ request'[r] = [request[r] EXCEPT !.at = "write"]
      BY <1>0, <1>3, AtStage DEF InsertPushover, SaverOps
  <2>2. request'[r].op \in SaverOps
      BY <2>1 DEF SaverStage
  <2> QED BY <2>2 DEF EditStage, GivingStage, SaverOps, Edits, Giving
<1>4. CASE SaveAmount(r) \/ Tell(r)
  <2>1. PICK t : Tells(r, t)
      BY <1>4 DEF SaveAmount, Tell
  <2>2. request'[r] = Idle \/ request'[r].at = "tell"
      BY <1>0, <2>1 DEF Tells, Ends
  <2> QED BY <2>2 DEF EditStage, GivingStage, Idle, Edits, Giving
<1> QED BY <1>1, <1>2, <1>3, <1>4 DEF Step

(* A goal that was made is not unmade.                                     *)
LEMMA GoalStays ==
    ASSUME Typed, Present, NEW r \in Requests, Step(r) \/ Fail(r), goal.status # "none"
    PROVE  goal'.status # "none"
<1>1. CASE Save(r)
    BY <1>1, SavedEdit DEF Present
<1>2. CASE SaveAmount(r)
    BY <1>2, SavedAmount
<1>3. CASE ~Save(r) /\ ~SaveAmount(r)
    BY <1>3 DEF Step, Fail, CreateRow, Tell, Inc, Take, InsertPushover, Empty, goalVars
<1> QED BY <1>1, <1>2, <1>3

LEMMA PresentStep == Typed /\ Present /\ [Next]_vars => Present'
<1> SUFFICES ASSUME Typed, Present, [Next]_vars PROVE Present'
    OBVIOUS
<1>0. TypeOK /\ request \in [Requests -> Stages]
    BY DEF Typed
<1>1. CASE UNCHANGED <<goal, request>>
    BY <1>1 DEF Present
<1>2. ASSUME NEW r \in Requests, Ask(r)
      PROVE  Present'
  <2>1. PICK q : Starts(r, q) /\ (Planned(q) \/ Given(q) \/ Moved(q))
      BY <1>0, <1>2, Asked
  <2>2. /\ goal' = goal /\ request'[r] = q
        /\ \A p \in Requests \ {r} : request'[p] = request[p]
      BY <1>0, <2>1 DEF Starts, goalVars
  <2>3. /\ q \in EditStage \cup GivingStage => goal.status # "none"
        /\ q \in EditStage => q.next.amount = q.copy.amount /\ q.next.status # "none"
        /\ q \in GivingStage => q.copy.status = "active"
    <3>1. CASE Planned(q)
        BY <3>1 DEF Planned, EditStage, GivingStage, Edits, Giving
    <3>2. CASE Given(q)
        BY <3>2 DEF Given, EditStage, GivingStage, Edits, Giving
    <3>3. CASE Moved(q)
        BY <3>3 DEF Moved, SaverStage, SaverOps, EditStage, GivingStage, Edits, Giving
    <3> QED BY <2>1, <3>1, <3>2, <3>3
  <2> QED BY <2>2, <2>3 DEF Present
<1>3. ASSUME NEW r \in Requests, Step(r) \/ Fail(r)
      PROVE  Present'
  <2>1. goal.status # "none" => goal'.status # "none"
      BY <1>3, GoalStays
  <2>2. \A p \in Requests \ {r} : request'[p] = request[p]
      BY <1>3, StepOfOne
  <2>3. request[r] \in GivingStage /\ request'[r] \in GivingStage => request'[r] \notin EditStage
      BY DEF GivingStage, EditStage, Giving, Edits
  <2> QED BY <1>3, <2>1, <2>2, <2>3, StageAfter DEF Present
<1>4. ASSUME NEW t \in Targets, Create(t)
      PROVE  Present'
    BY <1>4 DEF Create, Present, New
<1>5. UNCHANGED vars \/ Tick => UNCHANGED <<goal, request>>
    BY DEF vars, goalVars, Tick
<1> QED BY <1>1, <1>2, <1>3, <1>4, <1>5 DEF Next

(* That a goal is met is seen by whoever changes its amount, its target or *)
(* makes it active, from the copy it has, which is the goal itself in all  *)
(* that matters, unless another of these runs beside it.                   *)
Reopening == {"update", "resume"}
Contended == Beside(Reopening, Reopening \cup Giving)

Unmet == goal.status = "active" => goal.amount < goal.target
GivenMet == \A r \in Requests : request[r] \in GivingStage => request[r].copy.target = goal.target
EditMet == \A r \in Requests : request[r] \in EditStage =>
    /\ request[r].op \in Reopening =>
          /\ goal.amount = request[r].copy.amount /\ goal.target = request[r].copy.target
          /\ goal.status = "active" => request[r].copy.status = "active"
          /\ request[r].next.status = "active" => request[r].next.amount < request[r].next.target
    /\ request[r].op \notin Reopening =>
          /\ request[r].next.target = request[r].copy.target
          /\ request[r].next.status \notin {"active", request[r].copy.status}
MetInv == Contended \/ (Unmet /\ GivenMet /\ EditMet)

LEMMA ContendedGrows == overlaps \subseteq overlaps' => (Contended => Contended')
BY DEF Contended, Beside

(* Beside an edit of the target or the end of a pause runs neither another *)
(* one nor a contribution, unless it was noted.                            *)
LEMMA ReopensAlone ==
    ASSUME Typed, Noted, ~Contended, NEW r \in Requests, NEW p \in Requests, r # p,
           request[r].op \in Reopening, request[p].op \in Reopening \cup Giving
    PROVE  FALSE
<1>1. Busy(r) /\ Busy(p)
    BY DEF Busy, Idle, Reopening, Giving
<1> QED BY <1>1 DEF Noted, Contended, Beside

LEMMA MetStep == Typed /\ Noted /\ Present /\ MetInv /\ [Next]_vars => MetInv'
<1> SUFFICES ASSUME Typed, Noted, Present, MetInv, [Next]_vars PROVE MetInv'
    OBVIOUS
<1>0. TypeOK /\ request \in [Requests -> Stages]
    BY DEF Typed
<1>1. CASE UNCHANGED <<goal, request, overlaps>>
    BY <1>1 DEF MetInv, Contended, Beside, Unmet, GivenMet, EditMet
<1>2. ASSUME NEW r \in Requests, Ask(r), ~Contended'
      PROVE  MetInv'
  <2>1. PICK q : Starts(r, q) /\ (Planned(q) \/ Given(q) \/ Moved(q))
      BY <1>0, <1>2, Asked
  <2>2. /\ goal' = goal /\ request'[r] = q /\ overlaps \subseteq overlaps'
        /\ \A p \in Requests \ {r} : request'[p] = request[p]
      BY <1>0, <2>1 DEF Starts, goalVars
  <2>3. Unmet /\ GivenMet /\ EditMet
      BY <1>2, <2>2, ContendedGrows DEF MetInv
  <2>4. CASE Planned(q)
    <3>1. /\ q \in EditStage /\ q \notin GivingStage /\ q.copy = goal
          /\ q.op \in Reopening \cup {"archive", "pause", "complete"}
        BY <2>4 DEF Planned, EditStage, GivingStage, Edits, Giving, Reopening
    <3>2. ASSUME q.op \in Reopening, q.next.status = "active"
          PROVE  q.next.amount < q.next.target
        BY <2>3, <2>4, <3>2 DEF Planned, Unmet, Reopening
    <3>3. q.op \notin Reopening => /\ q.next.target = goal.target
                                  /\ q.next.status \notin {"active", goal.status}
        BY <2>4, <3>1 DEF Planned
    <3> QED BY <2>2, <2>3, <3>1, <3>2, <3>3 DEF MetInv, Unmet, GivenMet, EditMet
  <2>5. CASE Given(q)
    <3>1. q \notin EditStage /\ q.copy = goal
        BY <2>5 DEF Given, EditStage, GivingStage, Edits, Giving
    <3> QED BY <2>2, <2>3, <3>1 DEF MetInv, Unmet, GivenMet, EditMet
  <2>6. CASE Moved(q)
    <3>1. q \notin EditStage /\ q \notin GivingStage
        BY <2>6 DEF Moved, SaverStage, SaverOps, EditStage, GivingStage, Edits, Giving
    <3> QED BY <2>2, <2>3, <3>1 DEF MetInv, Unmet, GivenMet, EditMet
  <2> QED BY <2>1, <2>4, <2>5, <2>6
<1>3. ASSUME NEW r \in Requests, Step(r) \/ Fail(r), ~Contended
      PROVE  MetInv'
  <2>1. Unmet /\ GivenMet /\ EditMet
      BY <1>3 DEF MetInv
  <2>2. /\ \A p \in Requests \ {r} : request'[p] = request[p]
        /\ overlaps' = overlaps
      BY <1>3, StepOfOne
  <2>3. CASE Save(r)
    <3> DEFINE q == request[r]
    <3>1. /\ q \in EditStage /\ request'[r] = Idle
          /\ goal'.amount = goal.amount
          /\ goal'.status = IF q.next.status # q.copy.status THEN q.next.status ELSE goal.status
          /\ goal'.target = IF q.next.target # q.copy.target THEN q.next.target ELSE goal.target
          /\ q.next.amount = q.copy.amount
        BY <2>3, SavedEdit DEF Present
    <3>2. request'[r] \notin EditStage /\ request'[r] \notin GivingStage
        BY <3>1 DEF EditStage, GivingStage, Idle, Edits, Giving
    <3>3. CASE q.op \in Reopening
      <4>1. /\ goal.amount = q.copy.amount /\ goal.target = q.copy.target
            /\ goal.status = "active" => q.copy.status = "active"
            /\ q.next.status = "active" => q.next.amount < q.next.target
          BY <2>1, <3>1, <3>3 DEF EditMet
      <4>2. Unmet'
          BY <3>1, <4>1 DEF Unmet
      <4>3. \A p \in Requests \ {r} : request[p].op \notin Reopening \cup Giving
          BY <1>3, <3>3, ReopensAlone
      <4>4. GivenMet'
          BY <2>2, <3>2, <4>3 DEF GivenMet, GivingStage
      <4>5. EditMet'
          BY <2>1, <2>2, <3>2, <4>3 DEF EditMet
      <4> QED BY <4>2, <4>4, <4>5 DEF MetInv
    <3>4. CASE q.op \notin Reopening
      <4>1. goal'.target = goal.target /\ goal'.status # "active"
          BY <2>1, <3>1, <3>4 DEF EditMet
      <4> QED BY <2>1, <2>2, <3>1, <3>2, <4>1 DEF MetInv, Unmet, GivenMet, EditMet
    <3> QED BY <3>3, <3>4
  <2>4. CASE SaveAmount(r)
    <3>1. /\ request[r] \in GivingStage /\ goal'.target = goal.target
          /\ goal'.status \in {goal.status, "completed"}
          /\ goal'.status = "active" => goal'.amount < request[r].copy.target
        BY <2>4, SavedAmount
    <3>2. request'[r] \notin EditStage /\ request'[r] \notin GivingStage
      <4>1. ~CreateRow(r)
          BY <2>4 DEF SaveAmount, CreateRow, At
      <4> QED BY <1>3, <4>1, StageAfter
    <3>3. Unmet'
        BY <2>1, <3>1 DEF Unmet, GivenMet
    <3>4. request[r].op \in Giving
        BY <3>1 DEF GivingStage
    <3>5. \A p \in Requests \ {r} : request[p].op \notin Reopening
        BY <1>3, <3>4, ReopensAlone
    <3>6. GivenMet' /\ EditMet'
        BY <2>1, <2>2, <3>1, <3>2, <3>5 DEF GivenMet, EditMet
    <3> QED BY <3>3, <3>6 DEF MetInv
  <2>5. CASE ~Save(r) /\ ~SaveAmount(r)
    <3>1. goal' = goal
        BY <1>3, <2>5 DEF Step, Fail, CreateRow, Tell, Inc, Take, InsertPushover, Empty, goalVars
    <3>2. request[r] \in GivingStage /\ request'[r] \in GivingStage => request'[r] \notin EditStage
        BY DEF GivingStage, EditStage, Giving, Edits
    <3> QED BY <1>3, <2>1, <2>2, <3>1, <3>2, StageAfter DEF MetInv, Unmet, GivenMet, EditMet
  <2> QED BY <2>3, <2>4, <2>5
<1>4. ASSUME NEW r \in Requests, Step(r) \/ Fail(r), Contended
      PROVE  MetInv'
    BY <1>4, StepOfOne, ContendedGrows DEF MetInv
<1>5. ASSUME NEW t \in Targets, Create(t)
      PROVE  MetInv'
  <2>1. goal.status = "none" /\ UNCHANGED <<request, overlaps>>
      BY <1>5 DEF Create
  <2>2. goal'.amount < goal'.target
      BY <1>5 DEF Create, New
  <2>3. \A p \in Requests : request[p] \notin EditStage /\ request[p] \notin GivingStage
      BY <2>1 DEF Present
  <2> QED BY <2>1, <2>2, <2>3 DEF MetInv, Unmet, GivenMet, EditMet
<1>6. UNCHANGED vars \/ Tick => UNCHANGED <<goal, request, overlaps>>
    BY DEF vars, goalVars, Tick
<1> QED BY <1>1, <1>2, <1>3, <1>4, <1>5, <1>6 DEF Next, MetInv
-----------------------------------------------------------------------------
(* A milestone that the amount has reached is told, or is among those a    *)
(* contribution is still telling; what a contribution has loaded had       *)
(* reached no other.                                                       *)
Missed == retargeted \/ Cut(Giving, {"tell"})
Telling(m) == m \in told \/
    \E r \in Requests : request[r] \in TellingStage /\ m \in request[r].tell
ToldSoFar(amount, target) == \A m \in Milestones : Reached(m, amount, target) => Telling(m)
CopiesTold == \A r \in Requests : request[r] \in GivingStage =>
    request[r].copy.target = goal.target /\ ToldSoFar(request[r].copy.amount, goal.target)
ToldInv == Missed \/ (ToldSoFar(goal.amount, goal.target) /\ CopiesTold)

LEMMA NothingReached ==
    ASSUME NEW t \in Nat \ {0}, NEW m \in Milestones
    PROVE  ~Reached(m, 0, t)
BY DEF Reached, Milestones

LEMMA MissedGrows ==
    ASSUME retargeted => retargeted', cut \subseteq cut', Missed
    PROVE  Missed'
BY DEF Missed, Cut

(* What is told, or being told, stays so as long as whoever tells it does. *)
LEMMA TellingStays ==
    ASSUME told \subseteq told', NEW m, Telling(m),
           \A p \in Requests : request[p] \in TellingStage => request'[p] = request[p]
    PROVE  Telling(m)'
BY DEF Telling

LEMMA StagesApart ==
    /\ EditStage \cap TellingStage = {} /\ GivingStage \cap TellingStage = {}
    /\ SaverStage \cap TellingStage = {} /\ Idle \notin TellingStage
    /\ EditStage \cap GivingStage = {} /\ SaverStage \cap GivingStage = {}
    /\ Idle \notin GivingStage
BY DEF EditStage, GivingStage, TellingStage, SaverStage, Idle, Edits, Giving, SaverOps

LEMMA ToldStep == Typed /\ Present /\ ToldInv /\ [Next]_vars => ToldInv'
<1> SUFFICES ASSUME Typed, Present, ToldInv, [Next]_vars PROVE ToldInv'
    OBVIOUS
<1>0. TypeOK /\ request \in [Requests -> Stages]
    BY DEF Typed
<1>1. ASSUME goal' = goal, told' = told, request' = request, retargeted' = retargeted, cut' = cut
      PROVE  ToldInv'
    BY <1>1 DEF ToldInv, Missed, Cut, ToldSoFar, Telling, CopiesTold
<1>2. ASSUME NEW r \in Requests, Ask(r)
      PROVE  ToldInv'
  <2>1. PICK q : Starts(r, q) /\ (Planned(q) \/ Given(q) \/ Moved(q))
      BY <1>0, <1>2, Asked
  <2>2. /\ UNCHANGED <<goal, told, retargeted, cut>> /\ request'[r] = q /\ request[r] = Idle
        /\ \A p \in Requests \ {r} : request'[p] = request[p]
      BY <1>0, <2>1 DEF Starts, goalVars, Busy
  <2>3. CASE Missed
      BY <2>2, <2>3, MissedGrows DEF ToldInv
  <2>4. CASE ToldSoFar(goal.amount, goal.target) /\ CopiesTold
    <3>1. \A m : Telling(m) => Telling(m)'
        BY <2>2, StagesApart, TellingStays
    <3>2. q \in GivingStage => q.copy = goal
        BY <2>1, StagesApart DEF Planned, Given, Moved
    <3> QED BY <2>2, <2>4, <3>1, <3>2 DEF ToldInv, ToldSoFar, CopiesTold
  <2> QED BY <2>3, <2>4 DEF ToldInv
<1>3. ASSUME NEW r \in Requests, Step(r) \/ Fail(r), Missed
      PROVE  ToldInv'
  <2>1. cut \subseteq cut' /\ (retargeted => retargeted')
    <3>1. CASE Save(r)
        BY <3>1 DEF Save
    <3>2. CASE Fail(r)
        BY <3>2 DEF Fail
    <3>3. CASE ~Save(r) /\ ~Fail(r)
        BY <1>3, <3>3 DEF Step, CreateRow, SaveAmount, Tell, Inc, Take, InsertPushover, Empty
    <3> QED BY <3>1, <3>2, <3>3
  <2> QED BY <1>3, <2>1, MissedGrows DEF ToldInv
<1>4. ASSUME NEW r \in Requests, Step(r) \/ Fail(r), ~Missed
      PROVE  ToldInv'
  <2>1. ToldSoFar(goal.amount, goal.target) /\ CopiesTold
      BY <1>4 DEF ToldInv
  <2>2. \A p \in Requests \ {r} : request'[p] = request[p]
      BY <1>4, StepOfOne
  <2>3. CASE Fail(r)
    <3>1. CASE request[r] \in TellingStage
      <4>1. request[r].op \in Giving /\ request[r].at = "tell"
          BY <3>1 DEF TellingStage
      <4> QED BY <2>3, <4>1 DEF Fail, ToldInv, Missed, Cut
    <3>2. CASE request[r] \notin TellingStage
      <4>1. /\ UNCHANGED <<goal, told>> /\ request'[r] = Idle
          BY <1>0, <2>3 DEF Fail, Ends, goalVars
      <4>2. \A m : Telling(m) => Telling(m)'
          BY <2>2, <3>2, <4>1, TellingStays
      <4> QED BY <2>1, <2>2, <4>1, <4>2, StagesApart DEF ToldInv, ToldSoFar, CopiesTold
    <3> QED BY <3>1, <3>2
  <2>4. CASE Save(r) /\ ~retargeted'
    <3>1. /\ request[r] \in EditStage /\ request'[r] = Idle /\ goal'.amount = goal.amount
          /\ goal'.target = goal.target /\ told' = told
        BY <2>4, SavedEdit DEF Save
    <3>2. \A m : Telling(m) => Telling(m)'
        BY <2>2, <3>1, StagesApart, TellingStays
    <3> QED BY <2>1, <2>2, <3>1, <3>2, StagesApart DEF ToldInv, ToldSoFar, CopiesTold
  <2>5. CASE CreateRow(r) \/ Inc(r) \/ Take(r) \/ InsertPushover(r) \/ Empty(r)
    <3>1. UNCHANGED <<goal, told>>
        BY <2>5 DEF CreateRow, Inc, Take, InsertPushover, Empty, goalVars
    <3>2. request[r] \in GivingStage \cup SaverStage
        BY <2>5, AtStage DEF CreateRow, Inc, Take, InsertPushover, Empty, SaverOps
    <3>3. \A m : Telling(m) => Telling(m)'
        BY <2>2, <3>1, <3>2, StagesApart, TellingStays
    <3>4. request'[r] \in GivingStage =>
            request[r] \in GivingStage /\ request'[r].copy = request[r].copy
        BY <1>4, StageAfter
    <3> QED BY <2>1, <2>2, <3>1, <3>3, <3>4 DEF ToldInv, ToldSoFar, CopiesTold
  <2>6. CASE SaveAmount(r)
    <3> DEFINE q == request[r]
               new == Crossed(q.copy.amount, goal'.amount, q.copy.target)
    <3>1. /\ q \in GivingStage /\ goal'.target = goal.target /\ Tells(r, new) /\ told' = told
        BY <2>6, SavedAmount DEF SaveAmount
    <3>2. q.copy.target = goal.target /\ ToldSoFar(q.copy.amount, goal.target)
        BY <2>1, <3>1 DEF CopiesTold
    <3>3. \A m : Telling(m) => Telling(m)'
        BY <2>2, <3>1, StagesApart, TellingStays
    <3>4. request'[r] \notin GivingStage
      <4>1. ~CreateRow(r)
          BY <2>6 DEF SaveAmount, CreateRow, At
      <4> QED BY <1>4, <4>1, StageAfter
    <3>5. ASSUME NEW m \in new
          PROVE  Telling(m)'
      <4>1. /\ new # {} /\ new \in SUBSET Milestones
            /\ request'[r] = [op |-> q.op, at |-> "tell", tell |-> new]
          BY <1>0, <3>1, <3>5 DEF Tells, Crossed
      <4> HIDE DEF new
      <4>2. request'[r] \in TellingStage /\ m \in request'[r].tell
          BY <3>1, <3>5, <4>1 DEF TellingStage, GivingStage
      <4> QED BY <4>2 DEF Telling
    <3>6. ASSUME NEW m \in Milestones, Reached(m, goal'.amount, goal'.target)
          PROVE  Telling(m)'
      <4>1. CASE Reached(m, q.copy.amount, goal.target)
          BY <3>2, <3>3, <4>1 DEF ToldSoFar
      <4>2. CASE ~Reached(m, q.copy.amount, goal.target)
        <5>1. m \in new
            BY <3>1, <3>2, <3>6, <4>2 DEF Crossed
        <5> QED BY <3>5, <5>1
      <4> QED BY <4>1, <4>2
    <3>7. ToldSoFar(goal.amount, goal.target)'
        BY <3>6 DEF ToldSoFar
    <3>8. CopiesTold'
        BY <2>1, <2>2, <3>1, <3>3, <3>4 DEF CopiesTold, ToldSoFar
    <3> QED BY <3>7, <3>8 DEF ToldInv
  <2>7. CASE Tell(r)
    <3>1. request[r] \in TellingStage /\ UNCHANGED <<goal, retargeted, cut>>
        BY <2>7, AtStage DEF Tell
    <3>2. PICK k \in request[r].tell :
            told' = told \cup {k} /\ Tells(r, request[r].tell \ {k})
        BY <2>7 DEF Tell
    <3>3. ASSUME NEW m, Telling(m)
          PROVE  Telling(m)'
      <4>1. CASE m \in told'
          BY <4>1 DEF Telling
      <4>2. CASE m \notin told' /\ m \notin request[r].tell
          BY <2>2, <3>2, <3>3, <4>2 DEF Telling
      <4>3. CASE m \notin told' /\ m \in request[r].tell
        <5>1. request[r].tell \ {k} # {} /\ m \in request[r].tell \ {k}
            BY <3>2, <4>3
        <5>2. request'[r] = [op |-> request[r].op, at |-> "tell", tell |-> request[r].tell \ {k}]
            BY <1>0, <3>2, <5>1 DEF Tells
        <5>3. request'[r] \in TellingStage /\ m \in request'[r].tell
            BY <3>1, <5>1, <5>2 DEF TellingStage
        <5> QED BY <5>3 DEF Telling
      <4> QED BY <4>1, <4>2, <4>3
    <3>4. request'[r] \notin GivingStage
      <4>1. ~CreateRow(r)
          BY <2>7 DEF Tell, CreateRow, At
      <4> QED BY <1>4, <4>1, StageAfter
    <3> QED BY <2>1, <2>2, <3>1, <3>3, <3>4 DEF ToldInv, ToldSoFar, CopiesTold
  <2>8. retargeted' => ToldInv'
      BY DEF ToldInv, Missed
  <2> QED BY <1>4, <2>3, <2>4, <2>5, <2>6, <2>7, <2>8 DEF Step
<1>5. ASSUME NEW t \in Targets, Create(t)
      PROVE  ToldInv'
  <2>1. /\ goal.status = "none" /\ UNCHANGED <<request, told, cut, retargeted>>
        /\ goal'.amount = 0 /\ goal'.target \in Nat \ {0}
      BY <1>5 DEF Create, New
  <2>2. \A p \in Requests : request[p] \notin GivingStage
      BY <2>1 DEF Present
  <2>3. ToldSoFar(goal.amount, goal.target)' /\ CopiesTold'
      BY <2>1, <2>2, NothingReached DEF ToldSoFar, CopiesTold
  <2> QED BY <2>3 DEF ToldInv
<1>6. UNCHANGED vars \/ Tick => ToldInv'
    BY <1>1 DEF vars, goalVars, Tick
<1> QED BY <1>2, <1>3, <1>4, <1>5, <1>6 DEF Next
-----------------------------------------------------------------------------
(* Before there is a goal it holds nothing, and only a plan makes one.     *)
Blank == /\ goal.status = "none" =>
               goal.amount = 0 /\ goal.last = Never /\ rows = <<>> /\ contributed = 0
         /\ plan \in Plans \cup {NoPlan}
         /\ goal.status # "none" => plan \in Plans

LEMMA BlankStep == Typed /\ Present /\ Blank /\ [Next]_vars => Blank'
<1> SUFFICES ASSUME Typed, Present, Blank, [Next]_vars PROVE Blank'
    OBVIOUS
<1>0. TypeOK /\ request \in [Requests -> Stages]
    BY DEF Typed
<1>1. ASSUME UNCHANGED <<goal, rows, contributed, plan>>
      PROVE  Blank'
    BY <1>1 DEF Blank
<1>2. ASSUME NEW r \in Requests, Ask(r)
      PROVE  Blank'
  <2>1. PICK q : Starts(r, q)
      BY <1>0, <1>2, Asked
  <2> QED BY <1>1, <2>1 DEF Starts, goalVars
<1>3. ASSUME NEW r \in Requests, Save(r) \/ CreateRow(r) \/ SaveAmount(r)
      PROVE  Blank'
  <2>1. request[r] \in EditStage \cup GivingStage /\ plan' = plan
      BY <1>3, AtStage DEF Save, CreateRow, SaveAmount, Edits
  <2>2. goal.status # "none"
      BY <2>1 DEF Present
  <2>3. goal'.status # "none"
      BY <1>3, <2>2, GoalStays DEF Step
  <2> QED BY <2>1, <2>2, <2>3 DEF Blank
<1>4. ASSUME NEW r \in Requests,
             Tell(r) \/ Inc(r) \/ Take(r) \/ InsertPushover(r) \/ Empty(r) \/ Fail(r)
      PROVE  Blank'
    BY <1>1, <1>4 DEF Tell, Inc, Take, InsertPushover, Empty, Fail, goalVars, rowVars
<1>5. ASSUME NEW t \in Targets, Create(t)
      PROVE  Blank'
    BY <1>5 DEF Create, New, Blank
<1>6. CASE UNCHANGED vars \/ Tick
    BY <1>1, <1>6 DEF vars, goalVars, Tick
<1> QED BY <1>2, <1>3, <1>4, <1>5, <1>6 DEF Next, Step

(* The amount.  A contribution has read the amount the goal still has, and *)
(* the rows are ahead of the goal by the one that is being added to it,    *)
(* unless two contributions overlapped or one was cut off between the two. *)
Adding(r) == At(r, Giving, "save")
Torn == Cut(Giving, {"save"}) \/ Beside(Giving, Giving)
AmountRead == \A r \in Requests :
    request[r] \in GivingStage => request[r].copy.amount = goal.amount
Ahead == /\ (\A r \in Requests : ~Adding(r)) => goal.amount = contributed
         /\ \A r \in Requests : Adding(r) => contributed = goal.amount + request[r].amount
HistoryInv == Torn \/ (AmountRead /\ Ahead)

LEMMA TornGrows ==
    ASSUME overlaps \subseteq overlaps', cut \subseteq cut', Torn
    PROVE  Torn'
BY DEF Torn, Beside, Cut

LEMMA GivesAlone ==
    ASSUME Typed, Noted, ~Torn, NEW r \in Requests, NEW p \in Requests, r # p,
           request[r].op \in Giving
    PROVE  request[p].op \notin Giving
<1> SUFFICES ASSUME request[p].op \in Giving PROVE FALSE
    OBVIOUS
<1>1. Busy(r) /\ Busy(p)
    BY DEF Busy, Idle, Giving
<1> QED BY <1>1 DEF Noted, Torn, Beside

(* A step that leaves amount and rows alone, and ends no contribution that *)
(* has its row.                                                            *)
LEMMA HistoryUntouched ==
    ASSUME HistoryInv, overlaps \subseteq overlaps', cut \subseteq cut',
           goal'.amount = goal.amount, contributed' = contributed,
           \A p \in Requests : request'[p] = request[p] \/
               /\ ~Adding(p) /\ ~Adding(p)'
               /\ request'[p] \in GivingStage => request'[p].copy.amount = goal.amount
    PROVE  HistoryInv'
<1>1. CASE Torn
    BY <1>1, TornGrows DEF HistoryInv
<1>2. CASE AmountRead /\ Ahead
  <2>1. AmountRead'
      BY <1>2 DEF AmountRead
  <2>2. \A p \in Requests :
          (Adding(p)' <=> Adding(p)) /\ (Adding(p) => request'[p] = request[p])
      BY DEF Adding, At
  <2>3. Ahead'
      BY <1>2, <2>2 DEF Ahead
  <2> QED BY <2>1, <2>3 DEF HistoryInv
<1> QED BY <1>1, <1>2 DEF HistoryInv

LEMMA HistoryStep ==
    Typed /\ Noted /\ Present /\ Blank /\ HistoryInv /\ [Next]_vars => HistoryInv'
<1> SUFFICES ASSUME Typed, Noted, Present, Blank, HistoryInv, [Next]_vars PROVE HistoryInv'
    OBVIOUS
<1>0. TypeOK /\ request \in [Requests -> Stages]
    BY DEF Typed
<1>1. ASSUME UNCHANGED <<goal, contributed, request, overlaps, cut>>
      PROVE  HistoryInv'
    BY <1>1, HistoryUntouched
<1>2. ASSUME NEW r \in Requests, Ask(r)
      PROVE  HistoryInv'
  <2>1. PICK q : Starts(r, q) /\ (Planned(q) \/ Given(q) \/ Moved(q))
      BY <1>0, <1>2, Asked
  <2>2. /\ UNCHANGED <<goal, contributed, cut>> /\ overlaps \subseteq overlaps'
        /\ request'[r] = q /\ request[r] = Idle
        /\ \A p \in Requests \ {r} : request'[p] = request[p]
      BY <1>0, <2>1 DEF Starts, goalVars, Busy
  <2>3. ~Adding(r) /\ ~Adding(r)'
    <3>1. ~(q.op \in Giving /\ q.at = "save")
        BY <2>1 DEF Planned, Given, Moved, EditStage, Edits, SaverStage, SaverOps, Giving
    <3> QED BY <2>2, <3>1 DEF Adding, At, Giving, Idle
  <2>4. q \in GivingStage => q.copy.amount = goal.amount
      BY <2>1, StagesApart DEF Planned, Given, Moved
  <2> QED BY <2>2, <2>3, <2>4, HistoryUntouched
<1>3. ASSUME NEW r \in Requests, Step(r) \/ Fail(r), ~Torn
      PROVE  HistoryInv'
  <2>1. AmountRead /\ Ahead
      BY <1>3 DEF HistoryInv
  <2>2. /\ \A p \in Requests \ {r} : request'[p] = request[p]
        /\ overlaps' = overlaps
        /\ request'[r] = Idle \/ request'[r].op = request[r].op
      BY <1>3, StepOfOne
  <2>3. CASE CreateRow(r)
    <3>1. /\ request[r] \in GivingStage /\ request[r].at = "row"
          /\ request'[r] = [request[r] EXCEPT !.at = "save"]
          /\ goal' = goal /\ contributed' = contributed + request[r].amount
        BY <1>0, <2>3, AtStage DEF CreateRow, At
    <3>2. /\ request'[r].op \in Giving /\ request'[r].at = "save"
          /\ request'[r].amount = request[r].amount /\ request'[r].copy = request[r].copy
        BY <3>1 DEF GivingStage
    <3>3. \A p \in Requests \ {r} : ~Adding(p) /\ ~Adding(p)'
        BY <1>3, <2>2, <3>1, GivesAlone DEF Adding, At, GivingStage
    <3>4. ~Adding(r) /\ Adding(r)'
        BY <3>1, <3>2 DEF Adding, At
    <3>5. goal.amount = contributed
        BY <2>1, <3>3, <3>4 DEF Ahead
    <3>6. Ahead'
        BY <3>1, <3>2, <3>3, <3>4, <3>5 DEF Ahead
    <3>7. AmountRead'
        BY <2>1, <2>2, <3>1, <3>2 DEF AmountRead
    <3> QED BY <3>6, <3>7 DEF HistoryInv
  <2>4. CASE SaveAmount(r)
    <3>1. /\ request[r] \in GivingStage /\ Adding(r) /\ contributed' = contributed
          /\ goal'.amount = request[r].copy.amount + request[r].amount
        BY <2>4, SavedAmount DEF SaveAmount, Adding, rowVars
    <3>2. request'[r] \notin GivingStage /\ ~Adding(r)'
      <4>1. ~CreateRow(r)
          BY <2>4 DEF SaveAmount, CreateRow, At
      <4>2. PICK t : Tells(r, t)
          BY <2>4 DEF SaveAmount
      <4>3. request'[r] = Idle \/ request'[r].at = "tell"
          BY <1>0, <4>2 DEF Tells, Ends
      <4> QED BY <1>3, <4>1, <4>3, StageAfter DEF Adding, At, Idle, Giving
    <3>3. \A p \in Requests \ {r} : request[p] \notin GivingStage /\ ~Adding(p) /\ ~Adding(p)'
        BY <1>3, <2>2, <3>1, GivesAlone DEF Adding, At, GivingStage
    <3>4. goal'.amount = contributed'
        BY <2>1, <3>1 DEF Ahead, AmountRead
    <3>5. Ahead' /\ AmountRead'
        BY <2>2, <3>2, <3>3, <3>4 DEF Ahead, AmountRead
    <3> QED BY <3>5 DEF HistoryInv
  <2>5. CASE Fail(r) /\ Adding(r)
    <3>1. <<request[r].op, "save">> \in cut' /\ request[r].op \in Giving
        BY <2>5 DEF Fail, Adding, At
    <3> QED BY <3>1 DEF HistoryInv, Torn, Cut
  <2>6. CASE Fail(r) /\ ~Adding(r)
    <3>1. request'[r] = Idle /\ UNCHANGED <<goal, contributed>> /\ cut \subseteq cut'
        BY <1>0, <2>6 DEF Fail, Ends, goalVars
    <3>2. ~Adding(r)' /\ request'[r] \notin GivingStage
        BY <3>1, StagesApart DEF Adding, At, Idle, Giving
    <3> QED BY <2>2, <2>6, <3>1, <3>2, HistoryUntouched
  <2>7. CASE Save(r)
    <3>1. request[r] \in EditStage /\ request'[r] = Idle /\ goal'.amount = goal.amount
        BY <2>7, SavedEdit
    <3>2. ~Adding(r) /\ ~Adding(r)' /\ request'[r] \notin GivingStage
        BY <3>1, StagesApart DEF Adding, At, Idle, Giving, EditStage, Edits
    <3>3. contributed' = contributed /\ cut' = cut
        BY <2>7 DEF Save, rowVars
    <3> QED BY <2>2, <3>1, <3>2, <3>3, HistoryUntouched
  <2>8. CASE Tell(r) \/ Inc(r) \/ Take(r) \/ InsertPushover(r) \/ Empty(r)
    <3>1. UNCHANGED <<goal, contributed, cut>>
        BY <2>8 DEF Tell, Inc, Take, InsertPushover, Empty, goalVars, rowVars
    <3>2. request'[r] \notin GivingStage
      <4>1. ~CreateRow(r)
          BY <2>8 DEF CreateRow, Tell, Inc, Take, InsertPushover, Empty, At, Giving
      <4> QED BY <1>3, <4>1, StageAfter
    <3>3. ~Adding(r) /\ ~Adding(r)'
      <4>1. CASE Tell(r)
        <5>1. request[r].at = "tell"
            BY <4>1 DEF Tell, At
        <5>2. PICK t : Tells(r, t)
            BY <4>1 DEF Tell
        <5>3. request'[r] = Idle \/ request'[r].at = "tell"
            BY <1>0, <5>2 DEF Tells, Ends
        <5> QED BY <5>1, <5>3 DEF Adding, At, Idle, Giving
      <4>2. CASE ~Tell(r)
        <5>1. request[r].op \in SaverOps
            BY <2>8, <4>2 DEF Inc, Take, InsertPushover, Empty, At, SaverOps
        <5> QED BY <2>2, <5>1 DEF Adding, At, Idle, Giving, SaverOps
      <4> QED BY <4>1, <4>2
    <3> QED BY <2>2, <3>1, <3>2, <3>3, HistoryUntouched
  <2> QED BY <1>3, <2>3, <2>4, <2>5, <2>6, <2>7, <2>8 DEF Step
<1>4. ASSUME NEW r \in Requests, Step(r) \/ Fail(r), Torn
      PROVE  HistoryInv'
  <2>1. cut \subseteq cut'
      BY <1>4 DEF Step, Fail, Save, CreateRow, SaveAmount, Tell, Inc, Take, InsertPushover, Empty
  <2> QED BY <1>4, <2>1, StepOfOne, TornGrows DEF HistoryInv
<1>5. ASSUME NEW t \in Targets, Create(t)
      PROVE  HistoryInv'
  <2>1. /\ goal.status = "none" /\ goal'.amount = 0
        /\ UNCHANGED <<contributed, request, overlaps, cut>>
      BY <1>5 DEF Create, New, rowVars
  <2>2. goal.amount = 0
      BY <2>1 DEF Blank
  <2> QED BY <2>1, <2>2, HistoryUntouched
<1>6. CASE UNCHANGED vars \/ Tick
    BY <1>1, <1>6 DEF vars, goalVars, Tick
<1> QED BY <1>2, <1>3, <1>4, <1>5, <1>6 DEF Next
-----------------------------------------------------------------------------
(* What the integer division of the periods does, whatever their length.   *)
LEMMA Quotient ==
    ASSUME NEW a \in Int, NEW m \in Nat \ {0}
    PROVE  a \div m \in Int /\ m * (a \div m) <= a /\ a < m * (a \div m) + m
BY Z3

LEMMA BeforePeriod ==
    ASSUME NEW a \in Int, NEW k \in Int, NEW m \in Nat \ {0}
    PROVE  a < k * m <=> a \div m < k
<1> DEFINE q == a \div m
<1>1. q \in Int /\ m * q <= a /\ a < m * q + m
    BY Quotient
<1> HIDE DEF q
<1>2. ASSUME q < k PROVE a < k * m
  <2>1. m * (q + 1) <= m * k
      BY <1>1, <1>2
  <2>2. m * (q + 1) = m * q + m
      BY <1>1
  <2> QED BY <1>1, <2>1, <2>2
<1>3. ASSUME q >= k PROVE a >= k * m
  <2>1. m * k <= m * q
      BY <1>1, <1>3
  <2> QED BY <1>1, <2>1
<1> QED BY <1>1, <1>2, <1>3 DEF q

(* Automatic contributions.  The goal has noted every one that is through, *)
(* and who edits it or gives has read what it noted last (LastRead); one   *)
(* that is about to make its row was due then and is so still (Ripe); so   *)
(* its row is a period behind those before it (Spaced).  Unless two of     *)
(* them, or one and an edit of the plan, overlapped, or one was cut off    *)
(* before the goal noted it.                                               *)
AutoAt(r, at) == request[r].op = "auto" /\ request[r].at = at
Doubtful == Cut({"auto"}, {"save"}) \/ Beside({"auto"}, {"auto", "update"})

DueSince(t) ==
    \/ goal.last = Never
    \/ plan.weekly /\ t - goal.last >= Week
    \/ /\ ~plan.weekly
       /\ \E k \in Int : /\ goal.last < k * Month /\ k <= (t + plan.zone) \div Month
                         /\ plan.day # 0 => t >= k * Month
Apart(early, late) ==
    \/ IF plan.weekly THEN late - early >= Week ELSE early \div Month < late \div Month
    \/ AheadOfMonth(late)

LastRead == \A r \in Requests :
    /\ request[r] \in EditStage =>
          /\ request[r].next.last = request[r].copy.last
          /\ request[r].op # "update" => request[r].next.enabled = request[r].copy.enabled
          /\ request[r].op = "update" => request[r].copy.last = goal.last
    /\ request[r] \in GivingStage /\ request[r].op = "auto" => request[r].copy.last = goal.last
Ripe == \A r \in Requests : AutoAt(r, "row") => DueSince(now)
Remembered == \A i \in DOMAIN rows : rows[i].op = "auto" =>
    /\ rows[i].at <= now
    /\ rows[i].at <= goal.last \/ \E r \in Requests : AutoAt(r, "save")
Spaced == \A i, j \in DOMAIN rows :
    i < j /\ rows[i].op = "auto" /\ rows[j].op = "auto" => Apart(rows[i].at, rows[j].at)
AutoInv == Doubtful \/ (LastRead /\ Ripe /\ Remembered /\ Spaced)

LEMMA DoubtfulGrows ==
    ASSUME overlaps \subseteq overlaps', cut \subseteq cut', Doubtful
    PROVE  Doubtful'
BY DEF Doubtful, Beside, Cut

LEMMA RowTimes ==
    ASSUME Typed
    PROVE  /\ now \in Nat /\ DOMAIN rows = 1..Len(rows) /\ Len(rows) \in Nat
           /\ \A i \in DOMAIN rows : rows[i].at \in Nat
<1> DEFINE R == [amount : Nat \ {0}, op : Giving, at : Nat]
<1>1. rows \in Seq(R) /\ now \in Nat
    BY DEF Typed, TypeOK
<1>2. \A c \in R : c.at \in Nat
    OBVIOUS
<1> HIDE DEF R
<1>3. /\ DOMAIN rows = 1..Len(rows) /\ Len(rows) \in Nat
      /\ \A i \in DOMAIN rows : rows[i] \in R
    BY <1>1
<1> QED BY <1>1, <1>2, <1>3

LEMMA RowAppended ==
    ASSUME Typed, NEW c, rows' = Append(rows, c)
    PROVE  /\ DOMAIN rows' = 1..(Len(rows) + 1)
           /\ \A i \in DOMAIN rows : rows'[i] = rows[i]
           /\ rows'[Len(rows) + 1] = c
<1>1. rows \in Seq([amount : Nat \ {0}, op : Giving, at : Nat])
    BY DEF Typed, TypeOK
<1> QED BY <1>1

LEMMA AutoAlone ==
    ASSUME Typed, Noted, ~Doubtful, NEW r \in Requests, NEW p \in Requests, r # p,
           request[r].op = "auto"
    PROVE  request[p].op \notin {"auto", "update"}
<1> SUFFICES ASSUME request[p].op \in {"auto", "update"} PROVE FALSE
    OBVIOUS
<1>1. Busy(r) /\ Busy(p)
    BY DEF Busy, Idle
<1> QED BY <1>1 DEF Noted, Doubtful, Beside

(* What is due stays due, as long as the goal notes nothing else.          *)
LEMMA DueMeansSince ==
    ASSUME Typed, plan \in Plans, Due(goal)
    PROVE  DueSince(now)
<1>1. /\ plan.weekly \in BOOLEAN /\ plan.zone \in Int /\ plan.day \in Nat
      /\ now \in Nat /\ Month \in Nat \ {0} /\ goal.last \in Nat \cup {Never}
    BY PlansAssumption, TimeAssumption DEF Typed, TypeOK, Goals
<1>2. CASE goal.last = Never \/ (plan.weekly /\ now - goal.last >= Week)
    BY <1>2 DEF DueSince
<1>3. CASE /\ ~plan.weekly /\ goal.last < MonthStart
           /\ plan.day # 0 => now >= MonthStart + plan.day - 1
  <2> DEFINE k == (now + plan.zone) \div Month
  <2>1. k \in Int /\ MonthStart = k * Month
    <3>1. now + plan.zone \in Int
        BY <1>1
    <3> QED BY <1>1, <3>1, Quotient DEF MonthStart
  <2> HIDE DEF k
  <2>2. k * Month \in Int
      BY <1>1, <2>1
  <2>3. plan.day # 0 => now >= k * Month
      BY <1>1, <1>3, <2>1, <2>2
  <2>4. k <= (now + plan.zone) \div Month
      BY <1>1, <2>1 DEF k
  <2> QED BY <1>3, <2>1, <2>3, <2>4 DEF DueSince
<1> QED BY <1>2, <1>3 DEF Due

LEMMA SinceStays ==
    ASSUME Typed, plan \in Plans, DueSince(now), goal'.last = goal.last, plan' = plan,
           now' \in {now, now + 1}
    PROVE  DueSince(now)'
<1>1. /\ plan.weekly \in BOOLEAN /\ plan.zone \in Int /\ plan.day \in Nat /\ now \in Nat
      /\ Month \in Nat \ {0} /\ Week \in Nat \ {0} /\ goal.last \in Nat \cup {Never}
    BY PlansAssumption, TimeAssumption DEF Typed, TypeOK, Goals
<1>2. CASE goal.last = Never
    BY <1>2 DEF DueSince
<1>3. CASE plan.weekly /\ now - goal.last >= Week
  <2>1. now' - goal.last >= Week
      BY <1>1, <1>3 DEF Never
  <2> QED BY <1>3, <2>1 DEF DueSince
<1>4. CASE ~plan.weekly /\ goal.last # Never
  <2>1. PICK k \in Int : /\ goal.last < k * Month /\ k <= (now + plan.zone) \div Month
                         /\ plan.day # 0 => now >= k * Month
      BY <1>4 DEF DueSince
  <2>2. now' >= now /\ now' \in Nat
      BY <1>1
  <2>3. (now + plan.zone) \div Month <= (now' + plan.zone) \div Month
    <3> DEFINE a == now + plan.zone
               b == now' + plan.zone
    <3>1. a \in Int /\ b \in Int /\ a <= b
        BY <1>1, <2>2
    <3> HIDE DEF a, b
    <3>2. /\ a \div Month \in Int /\ b \div Month \in Int
          /\ ~(b \div Month < a \div Month)
      <4>1. a \div Month \in Int /\ b \div Month \in Int
          BY <1>1, <3>1, Quotient
      <4> DEFINE q == a \div Month
      <4> HIDE DEF q
      <4>2. q \in Int /\ ~(a < q * Month)
          BY <1>1, <3>1, <4>1, BeforePeriod DEF q
      <4>3. q * Month \in Int
          BY <1>1, <4>2
      <4>4. ~(b < q * Month)
          BY <3>1, <4>2, <4>3
      <4>5. ~(b \div Month < q)
          BY <1>1, <3>1, <4>2, <4>4, BeforePeriod
      <4> QED BY <4>1, <4>5 DEF q
    <3> QED BY <3>2 DEF a, b
  <2>4. k * Month \in Int
      BY <1>1
  <2>5. plan.day # 0 => now' >= k * Month
      BY <1>1, <2>1, <2>2, <2>4
  <2>6. k <= (now' + plan.zone) \div Month
    <3>1. (now + plan.zone) \div Month \in Int /\ (now' + plan.zone) \div Month \in Int
        BY <1>1, <2>2, Quotient
    <3> QED BY <2>1, <2>3, <3>1
  <2> QED BY <1>4, <2>1, <2>5, <2>6 DEF DueSince
<1> QED BY <1>2, <1>3, <1>4 DEF DueSince

(* A row made while a contribution is due is a period behind what the goal *)
(* has noted.                                                              *)
LEMMA SinceMeansApart ==
    ASSUME Typed, plan \in Plans, DueSince(now), NEW t \in Nat, t <= goal.last
    PROVE  Apart(t, now)
<1>1. /\ plan.weekly \in BOOLEAN /\ plan.zone \in Int /\ plan.day \in Nat /\ now \in Nat
      /\ Month \in Nat \ {0} /\ Week \in Nat \ {0} /\ goal.last \in Nat
    BY PlansAssumption, TimeAssumption DEF Typed, TypeOK, Goals, Never
<1>2. CASE plan.weekly
  <2>1. now - goal.last >= Week
      BY <1>1, <1>2 DEF DueSince, Never
  <2> QED BY <1>1, <1>2, <2>1 DEF Apart
<1>3. CASE ~plan.weekly
  <2>1. PICK k \in Int : /\ goal.last < k * Month /\ k <= (now + plan.zone) \div Month
                         /\ plan.day # 0 => now >= k * Month
      BY <1>1, <1>3 DEF DueSince, Never
  <2>2. k * Month \in Int
      BY <1>1
  <2>3. t \in Int /\ t < k * Month
      BY <1>1, <2>1, <2>2
  <2>4. t \div Month < k
      BY <1>1, <2>3, BeforePeriod
  <2>5. t \div Month \in Int /\ now \div Month \in Int /\ (now + plan.zone) \div Month \in Int
      BY <1>1, Quotient
  <2>6. CASE k <= now \div Month
      BY <1>3, <2>4, <2>5, <2>6 DEF Apart
  <2>7. CASE now \div Month < k
    <3>1. now < k * Month
        BY <1>1, <2>7, BeforePeriod
    <3>2. plan.day = 0
        BY <1>1, <2>1, <2>2, <3>1
    <3>3. (now + plan.zone) \div Month > now \div Month
        BY <2>1, <2>5, <2>7
    <3> QED BY <1>3, <3>2, <3>3 DEF Apart, AheadOfMonth
  <2> QED BY <2>5, <2>6, <2>7
<1> QED BY <1>1, <1>2, <1>3

(* A step that makes no row and leaves what the goal has noted alone.      *)
LEMMA AutoUntouched ==
    ASSUME Typed, Blank, AutoInv, overlaps \subseteq overlaps', cut \subseteq cut',
           goal'.last = goal.last, rows' = rows, plan' = plan, now' \in {now, now + 1},
           \A p \in Requests : request'[p] = request[p] \/
               /\ ~AutoAt(p, "save")
               /\ request'[p] \notin EditStage \cup GivingStage
               /\ request'[p].op = "auto" => request'[p].at = "tell"
    PROVE  AutoInv'
<1>1. CASE Doubtful
    BY <1>1, DoubtfulGrows DEF AutoInv
<1>2. CASE LastRead /\ Ripe /\ Remembered /\ Spaced
  <2>1. LastRead'
      BY <1>2 DEF LastRead
  <2>2. \A p \in Requests : AutoAt(p, "save") => AutoAt(p, "save")'
      BY DEF AutoAt
  <2>3. Remembered'
    <3> SUFFICES ASSUME NEW i \in DOMAIN rows, rows[i].op = "auto"
                 PROVE  /\ rows[i].at <= now'
                        /\ rows[i].at <= goal.last \/ \E r \in Requests : AutoAt(r, "save")'
        BY DEF Remembered
    <3>1. rows[i].at <= now /\ rows[i].at \in Nat /\ now \in Nat
        BY <1>2, RowTimes DEF Remembered
    <3>2. rows[i].at <= goal.last \/ \E r \in Requests : AutoAt(r, "save")
        BY <1>2 DEF Remembered
    <3> QED BY <2>2, <3>1, <3>2
  <2>4. Spaced'
      BY <1>2 DEF Spaced, Apart, AheadOfMonth
  <2>5. Ripe'
    <3> SUFFICES ASSUME NEW r \in Requests, AutoAt(r, "row")' PROVE DueSince(now)'
        BY DEF Ripe
    <3>1. request'[r] = request[r] /\ AutoAt(r, "row")
        BY DEF AutoAt
    <3>2. DueSince(now)
        BY <1>2, <3>1 DEF Ripe
    <3>3. request[r] \in GivingStage
        BY <3>1 DEF AutoAt, Typed, Stages, EditStage, TellingStage, SaverStage, Idle, Edits, SaverOps
    <3>4. CASE plan \in Plans
        BY <3>2, <3>4, SinceStays
    <3>5. CASE goal.last = Never
        BY <3>5 DEF DueSince
    <3> QED BY <3>4, <3>5 DEF Blank
  <2> QED BY <2>1, <2>3, <2>4, <2>5 DEF AutoInv
<1> QED BY <1>1, <1>2 DEF AutoInv

LEMMA AutoStep ==
    Typed /\ Noted /\ Present /\ Blank /\ AutoInv /\ [Next]_vars => AutoInv'
<1> SUFFICES ASSUME Typed, Noted, Present, Blank, AutoInv, [Next]_vars PROVE AutoInv'
    OBVIOUS
<1>0. TypeOK /\ request \in [Requests -> Stages]
    BY DEF Typed
<1>1. CASE UNCHANGED vars \/ Tick
  <2>1. /\ UNCHANGED <<goal, rows, plan, request, overlaps, cut>>
        /\ now' \in {now, now + 1}
      BY <1>1 DEF vars, goalVars, Tick
  <2> QED BY <2>1, AutoUntouched
<1>2. ASSUME NEW r \in Requests, Ask(r), ~Doubtful'
      PROVE  AutoInv'
  <2>1. PICK q : Starts(r, q) /\ (Planned(q) \/ Given(q) \/ Moved(q))
      BY <1>0, <1>2, Asked
  <2>2. /\ UNCHANGED <<goal, rows, plan, now, cut>> /\ overlaps \subseteq overlaps'
        /\ request'[r] = q /\ request[r] = Idle
        /\ \A p \in Requests \ {r} : request'[p] = request[p]
      BY <1>0, <2>1 DEF Starts, goalVars, Busy
  <2>3. LastRead /\ Ripe /\ Remembered /\ Spaced
      BY <1>2, <2>2, DoubtfulGrows DEF AutoInv
  <2>4. \A p \in Requests : AutoAt(p, "save") => AutoAt(p, "save")'
      BY <2>2 DEF AutoAt, Idle
  <2>5. Remembered' /\ Spaced'
      BY <2>2, <2>3, <2>4 DEF Remembered, Spaced, Apart, AheadOfMonth
  <2>6. /\ q \in EditStage =>
             /\ q.next.last = q.copy.last /\ q.copy.last = goal.last
             /\ q.op # "update" => q.next.enabled = q.copy.enabled
        /\ q \in GivingStage => q.copy.last = goal.last
        /\ q.op = "auto" => Given(q)
    <3>1. CASE Planned(q)
        BY <3>1, StagesApart DEF Planned, EditStage, Edits
    <3>2. CASE Given(q)
        BY <3>2, StagesApart DEF Given
    <3>3. CASE Moved(q)
        BY <3>3 DEF Moved, SaverStage, SaverOps, EditStage, GivingStage, Edits, Giving
    <3> QED BY <2>1, <3>1, <3>2, <3>3
  <2>7. LastRead'
      BY <2>2, <2>3, <2>6 DEF LastRead
  <2>8. Ripe'
    <3>1. DueSince(now)' <=> DueSince(now)
        BY <2>2 DEF DueSince
    <3>2. ASSUME AutoAt(r, "row")'
          PROVE  DueSince(now)
      <4>1. Given(q) /\ Due(goal) /\ goal.status # "none"
          BY <2>2, <2>6, <3>2 DEF AutoAt, Given
      <4> QED BY <4>1, DueMeansSince DEF Blank
    <3>3. \A p \in Requests \ {r} : AutoAt(p, "row")' => AutoAt(p, "row")
        BY <2>2 DEF AutoAt
    <3> QED BY <2>3, <3>1, <3>2, <3>3 DEF Ripe
  <2> QED BY <2>5, <2>7, <2>8 DEF AutoInv
<1>3. ASSUME NEW r \in Requests, Step(r) \/ Fail(r), ~Doubtful
      PROVE  AutoInv'
  <2>1. LastRead /\ Ripe /\ Remembered /\ Spaced
      BY <1>3 DEF AutoInv
  <2>2. /\ \A p \in Requests \ {r} : request'[p] = request[p]
        /\ overlaps' = overlaps
        /\ request'[r] = Idle \/ request'[r].op = request[r].op
      BY <1>3, StepOfOne
  <2>3. CASE CreateRow(r)
    <3> DEFINE q == request[r]
               c == [amount |-> q.amount, op |-> q.op, at |-> now]
    <3>1. /\ q \in GivingStage /\ q.at = "row"
          /\ request'[r] = [q EXCEPT !.at = "save"]
          /\ UNCHANGED <<goal, plan, now>> /\ rows' = Append(rows, c)
        BY <1>0, <2>3, AtStage DEF CreateRow, At
    <3>2. /\ request'[r] \in GivingStage /\ request'[r].at = "save"
          /\ request'[r].op = q.op /\ request'[r].copy = q.copy
        BY <3>1 DEF GivingStage
    <3>3. /\ now \in Nat /\ Len(rows) \in Nat
          /\ DOMAIN rows' = 1..(Len(rows) + 1) /\ DOMAIN rows = 1..Len(rows)
          /\ \A i \in DOMAIN rows : rows'[i] = rows[i] /\ rows[i].at \in Nat
          /\ rows'[Len(rows) + 1] = c
        BY <3>1, RowTimes, RowAppended
    <3>4. c.op = q.op /\ c.at = now
        OBVIOUS
    <3> HIDE DEF c
    <3>5. LastRead'
      <4>1. request'[r] \notin EditStage
          BY <3>2, StagesApart
      <4>2. q.op = "auto" => q.copy.last = goal.last
          BY <2>1, <3>1 DEF LastRead
      <4>3. goal' = goal /\ request'[r].op = q.op /\ request'[r].copy = q.copy
          BY <3>1, <3>2
      <4>4. \A p \in Requests \ {r} : request'[p] = request[p]
          BY <2>2
      <4> HIDE DEF q
      <4> QED BY <2>1, <4>1, <4>2, <4>3, <4>4 DEF LastRead
    <3>6. DueSince(now)' <=> DueSince(now)
        BY <3>1 DEF DueSince
    <3>7. Ripe'
        BY <2>1, <2>2, <3>2, <3>6 DEF Ripe, AutoAt
    <3>8. \A p \in Requests : AutoAt(p, "save") => AutoAt(p, "save")'
        BY <2>2, <3>1 DEF AutoAt
    <3>9. q.op = "auto" => AutoAt(r, "save")'
        BY <3>2 DEF AutoAt
    <3>10. Remembered'
      <4> SUFFICES ASSUME NEW i \in DOMAIN rows', rows'[i].op = "auto"
                   PROVE  /\ rows'[i].at <= now'
                          /\ rows'[i].at <= goal'.last \/ \E p \in Requests : AutoAt(p, "save")'
          BY DEF Remembered
      <4>1. CASE i \in DOMAIN rows
          BY <2>1, <3>1, <3>3, <3>8, <4>1 DEF Remembered
      <4>2. CASE i = Len(rows) + 1
          BY <3>1, <3>3, <3>4, <3>9, <4>2
      <4> QED BY <3>3, <4>1, <4>2
    <3>11. Spaced'
      <4> SUFFICES ASSUME NEW i \in DOMAIN rows', NEW j \in DOMAIN rows', i < j,
                          rows'[i].op = "auto", rows'[j].op = "auto"
                   PROVE  Apart(rows'[i].at, rows'[j].at)
          BY <3>1 DEF Spaced, Apart, AheadOfMonth
      <4>1. CASE j \in DOMAIN rows
          BY <2>1, <3>3, <4>1 DEF Spaced
      <4>2. CASE j = Len(rows) + 1
        <5>1. i \in DOMAIN rows /\ rows'[j].at = now /\ q.op = "auto"
            BY <3>3, <3>4, <4>2
        <5>2. \A p \in Requests : ~AutoAt(p, "save")
            BY <1>3, <3>1, <5>1, AutoAlone DEF AutoAt
        <5>3. rows[i].at <= goal.last
            BY <2>1, <3>3, <5>1, <5>2 DEF Remembered
        <5>4. DueSince(now)
            BY <2>1, <3>1, <5>1 DEF Ripe, AutoAt
        <5>5. plan \in Plans
            BY <3>1 DEF Present, Blank
        <5> QED BY <3>3, <5>1, <5>3, <5>4, <5>5, SinceMeansApart
      <4> QED BY <3>3, <4>1, <4>2
    <3> QED BY <3>5, <3>7, <3>10, <3>11 DEF AutoInv
  <2>4. CASE SaveAmount(r)
    <3> DEFINE q == request[r]
    <3>1. /\ q \in GivingStage /\ q.at = "save" /\ UNCHANGED <<rows, plan, now, cut>>
          /\ q.op = "auto" /\ q.copy.last = goal.last => goal'.last = now
          /\ q.op # "auto" => goal'.last = goal.last
        BY <2>4, SavedAmount DEF SaveAmount, At, rowVars
    <3>2. request'[r] \notin EditStage \cup GivingStage
      <4>1. ~CreateRow(r)
          BY <2>4 DEF SaveAmount, CreateRow, At
      <4> QED BY <1>3, <4>1, StageAfter
    <3>3. request'[r].op = "auto" => request'[r].at = "tell"
      <4>1. PICK t : Tells(r, t)
          BY <2>4 DEF SaveAmount
      <4> QED BY <1>0, <4>1 DEF Tells, Ends, Idle
    <3>4. CASE q.op # "auto"
        BY <2>2, <3>1, <3>2, <3>3, <3>4, AutoUntouched DEF AutoAt
    <3>5. CASE q.op = "auto"
      <4>1. goal'.last = now
          BY <2>1, <3>1, <3>5 DEF LastRead
      <4>2. \A p \in Requests \ {r} : request[p].op \notin {"auto", "update"}
          BY <1>3, <3>5, AutoAlone
      <4>3. LastRead'
          BY <2>1, <2>2, <3>2, <4>2 DEF LastRead
      <4>4. Ripe'
          BY <2>2, <3>2, <3>3, <4>2 DEF Ripe, AutoAt
      <4>5. Remembered' /\ Spaced'
          BY <2>1, <3>1, <4>1 DEF Remembered, Spaced, Apart, AheadOfMonth
      <4> QED BY <4>3, <4>4, <4>5 DEF AutoInv
    <3> QED BY <3>4, <3>5
  <2>5. CASE Save(r)
    <3> DEFINE q == request[r]
    <3>1. /\ q \in EditStage /\ request'[r] = Idle
          /\ goal'.last = IF q.next.last # q.copy.last \/ q.next.enabled # q.copy.enabled
                          THEN q.next.last ELSE goal.last
          /\ UNCHANGED <<rows, plan, now, cut>>
        BY <2>5, SavedEdit DEF Save, rowVars
    <3>2. goal'.last = goal.last
        BY <2>1, <3>1 DEF LastRead
    <3>3. /\ ~AutoAt(r, "save") /\ request'[r] \notin EditStage \cup GivingStage
          /\ request'[r].op # "auto"
        BY <3>1 DEF AutoAt, EditStage, Edits, GivingStage, Giving, Idle
    <3> QED BY <2>2, <3>1, <3>2, <3>3, AutoUntouched
  <2>6. CASE Fail(r) /\ AutoAt(r, "save")
    <3>1. <<"auto", "save">> \in cut'
        BY <2>6 DEF Fail, AutoAt
    <3> QED BY <3>1 DEF AutoInv, Doubtful, Cut
  <2>7. CASE Fail(r) /\ ~AutoAt(r, "save")
    <3>1. /\ request'[r] = Idle /\ UNCHANGED <<goal, rows, plan, now>> /\ cut \subseteq cut'
        BY <1>0, <2>7 DEF Fail, Ends, goalVars
    <3>2. request'[r] \notin EditStage \cup GivingStage /\ request'[r].op # "auto"
        BY <3>1 DEF EditStage, Edits, GivingStage, Giving, Idle
    <3> QED BY <2>2, <2>7, <3>1, <3>2, AutoUntouched
  <2>8. CASE Tell(r) \/ Inc(r) \/ Take(r) \/ InsertPushover(r) \/ Empty(r)
    <3>1. UNCHANGED <<goal, rows, plan, now, cut>>
        BY <2>8 DEF Tell, Inc, Take, InsertPushover, Empty, goalVars, rowVars
    <3>2. request'[r] \notin EditStage \cup GivingStage
      <4>1. ~CreateRow(r)
          BY <2>8 DEF CreateRow, Tell, Inc, Take, InsertPushover, Empty, At, Giving
      <4> QED BY <1>3, <4>1, StageAfter
    <3>3. ~AutoAt(r, "save") /\ (request'[r].op = "auto" => request'[r].at = "tell")
      <4>1. CASE Tell(r)
        <5>1. request[r].at = "tell"
            BY <4>1 DEF Tell, At
        <5>2. PICK t : Tells(r, t)
            BY <4>1 DEF Tell
        <5>3. request'[r] = Idle \/ request'[r].at = "tell"
            BY <1>0, <5>2 DEF Tells, Ends
        <5> QED BY <5>1, <5>3 DEF AutoAt, Idle
      <4>2. CASE ~Tell(r)
        <5>1. request[r].op \in SaverOps
            BY <2>8, <4>2 DEF Inc, Take, InsertPushover, Empty, At, SaverOps
        <5> QED BY <2>2, <5>1 DEF AutoAt, Idle, SaverOps
      <4> QED BY <4>1, <4>2
    <3> QED BY <2>2, <3>1, <3>2, <3>3, AutoUntouched
  <2> QED BY <1>3, <2>3, <2>4, <2>5, <2>6, <2>7, <2>8 DEF Step
<1>4. ASSUME NEW r \in Requests, Step(r) \/ Fail(r), Doubtful
      PROVE  AutoInv'
  <2>1. cut \subseteq cut'
      BY <1>4 DEF Step, Fail, Save, CreateRow, SaveAmount, Tell, Inc, Take, InsertPushover, Empty
  <2> QED BY <1>4, <2>1, StepOfOne, DoubtfulGrows DEF AutoInv
<1>5. ASSUME NEW t \in Targets, Create(t)
      PROVE  AutoInv'
  <2>1. /\ goal.status = "none" /\ goal'.last = Never
        /\ UNCHANGED <<rows, plan, now, request, overlaps, cut>>
      BY <1>5 DEF Create, New, rowVars
  <2>2. goal.last = Never
      BY <2>1 DEF Blank
  <2> QED BY <2>1, <2>2, AutoUntouched
<1> QED BY <1>1, <1>2, <1>3, <1>4, <1>5 DEF Next, AutoInv
-----------------------------------------------------------------------------
IInv == Typed /\ Noted /\ SaverInv /\ Present /\ MetInv /\ ToldInv
        /\ Blank /\ HistoryInv /\ AutoInv

LEMMA InitInv == Init => IInv
<1> SUFFICES ASSUME Init PROVE IInv
    OBVIOUS
<1>1. \A r \in Requests : /\ request[r] = Idle /\ request[r].op = "none"
                          /\ request[r] \notin EditStage \cup GivingStage
    BY DEF Init, Idle, EditStage, GivingStage, Edits, Giving
<1>2. SaverInv
  <2>1. \A r \in Requests : ~Pushing(r)
      BY <1>1 DEF Pushing, At
  <2>2. AsRead /\ Balanced /\ Room
      BY <1>1, <2>1 DEF Init, AsRead, Balanced, Room, Taking
  <2> QED BY <2>2 DEF SaverInv
<1>3. Present /\ MetInv
    BY <1>1 DEF Init, Present, MetInv, Unmet, GivenMet, EditMet
<1>4. ToldInv
    BY <1>1, NothingReached DEF Init, ToldInv, ToldSoFar, CopiesTold
<1>5. Blank
    BY DEF Init, Blank
<1>6. HistoryInv
    BY <1>1 DEF Init, HistoryInv, AmountRead, Ahead, Adding, At, Giving
<1>7. AutoInv
    BY <1>1 DEF Init, AutoInv, LastRead, Ripe, Remembered, Spaced, AutoAt
<1> QED BY <1>2, <1>3, <1>4, <1>5, <1>6, <1>7, InitTyped DEF IInv

LEMMA InvStep == IInv /\ [Next]_vars => IInv'
BY TypedStep, NotedStep, SaverStep, PresentStep, MetStep, ToldStep, BlankStep, HistoryStep,
   AutoStep DEF IInv

LEMMA InvHolds == Spec => []IInv
BY InitInv, InvStep, PTL DEF Spec

(* Every document, row and amount keeps its type, whatever requests do     *)
(* beside each other (savingsGoal.model.ts, saver.model.ts).               *)
THEOREM TypeCorrect == Spec => []TypeOK
<1>1. IInv => TypeOK
    BY DEF IInv, Typed
<1> QED BY <1>1, InvHolds, PTL

(* The amount of a goal is what its contributions add up to, whatever      *)
(* edits run beside them (recordContribution), but for the named overlaps. *)
THEOREM HistoryHolds == Spec => []HistoryAddsUp
<1>1. IInv => HistoryAddsUp
  <2> SUFFICES ASSUME IInv, ~Torn, \A r \in Requests : ~Adding(r) \/ ~Busy(r)
               PROVE  goal.amount = contributed
      BY DEF IInv, Typed, HistoryAddsUp, Torn, Under, Adding
  <2>1. \A r \in Requests : ~Adding(r)
      BY DEF Adding, At, Busy, Idle, Giving
  <2> QED BY <2>1 DEF IInv, HistoryInv, Ahead
<1> QED BY <1>1, InvHolds, PTL

(* One automatic contribution is made in a period, for any length of week  *)
(* and month, day of the month and time zone                               *)
(* (isAutoContributionDuePure, processAutoContribution), but for the named *)
(* overlaps and the hours in which UTC is in the next month.               *)
THEOREM AutoHolds == Spec => []OneAutoPerPeriod
<1>1. IInv => OneAutoPerPeriod
    BY DEF IInv, AutoInv, Spaced, Apart, Doubtful, OneAutoPerPeriod
<1> QED BY <1>1, InvHolds, PTL

(* What was put into the saver is in it, withdrawn or pushed over, and it  *)
(* holds no more than the accounts do (saver.controller.ts,                *)
(* pushover.controller.ts), but for the named overlaps.                    *)
THEOREM SaverHolds == Spec => []SaverAddsUp
<1>1. IInv => SaverAddsUp
  <2> SUFFICES ASSUME IInv PROVE SaverAddsUp
      OBVIOUS
  <2>1. CASE Disturbed
      BY <2>1 DEF SaverAddsUp, Disturbed, Taking, SaverOps
  <2>2. CASE ~Disturbed /\ \E r \in Requests : Pushing(r)
    <3>1. PICK r \in Requests : Pushing(r)
        BY <2>2
    <3>2. Busy(r)
        BY <3>1 DEF Pushing, At, Busy, Idle
    <3> QED BY <3>1, <3>2 DEF SaverAddsUp, Under, Pushing
  <2>3. CASE ~Disturbed /\ \A r \in Requests : ~Pushing(r)
      BY <2>3 DEF IInv, SaverInv, Balanced, Room, SaverAddsUp, TwoDeposits
  <2> QED BY <2>1, <2>2, <2>3
<1> QED BY <1>1, InvHolds, PTL

(* A goal that has met its target is not left active                       *)
(* (markGoalCompletedIfTargetMet), but for the named overlaps.             *)
THEOREM MetHolds == Spec => []MetIsCompleted
<1>1. IInv => MetIsCompleted
  <2> SUFFICES ASSUME IInv, goal.status = "active", goal.amount >= goal.target
               PROVE  Contended
      BY DEF MetIsCompleted, Contended, Reopening
  <2>1. goal.amount \in Nat /\ goal.target \in Nat
      BY DEF IInv, Typed, TypeOK, Goals
  <2> QED BY <2>1 DEF IInv, MetInv, Unmet
<1> QED BY <1>1, InvHolds, PTL

(* Every milestone that was reached was told, or is about to be            *)
(* (evaluateSavingsMilestoneNotifications), unless a request died on the   *)
(* way or the target was changed.                                          *)
THEOREM MilestonesHold == Spec => []MilestonesAreTold
<1>1. IInv => MilestonesAreTold
  <2> SUFFICES ASSUME IInv, NEW m \in Milestones, Reached(m, goal.amount, goal.target),
                      m \notin told, ~Missed
               PROVE  Under(Giving, "tell")
      BY DEF MilestonesAreTold, Missed
  <2>1. Telling(m)
      BY DEF IInv, ToldInv, ToldSoFar
  <2>2. PICK r \in Requests : request[r] \in TellingStage
      BY <2>1 DEF Telling
  <2>3. Busy(r) /\ At(r, Giving, "tell")
      BY <2>2, StagesApart DEF Busy, At, TellingStage
  <2> QED BY <2>3 DEF Under
<1> QED BY <1>1, InvHolds, PTL
=============================================================================
