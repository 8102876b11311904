------------------------------- MODULE Savings -------------------------------
(***************************************************************************)
(* What a user puts aside on the server: a savings goal with its           *)
(* contributions and milestones (backend/src/modules/savings-goals,        *)
(* notifications), and the saver with its pushovers (modules/savers).      *)
(* Every request works on the copy it has loaded and writes one await      *)
(* later; a contribution is a row, then the amount of the goal, then one   *)
(* notification per milestone, without a transaction.                      *)
(*                                                                         *)
(* Time is counted in ticks of the user's time zone, Month of them to a    *)
(* month.  zone is how many ticks UTC is ahead.  Goal and saver share no   *)
(* state: a behaviour has a goal (and a plan of it) or the saver.          *)
(***************************************************************************)
EXTENDS Integers, Sequences, FiniteSets

CONSTANTS
    Requests,           \* the requests the server works on at a time
    Targets, Amounts,   \* what a user may aim at, and give at a time
    Deposits,           \* what goes into the saver, or out, at a time
    Funds,              \* what the accounts of the user hold
    Month, Week,        \* the length of either in ticks
    Plans,              \* intervals, days of the month (0: none), time zones
    NoPlan,             \* the behaviours without a goal
    MaxStarts, MaxFaults, MaxTime   \* bounds: requests, failures, ticks

Never == -1
Milestones == {25, 50, 75, 100}

ASSUME AmountsAssumption ==
    /\ Targets \cup Amounts \cup Deposits \subseteq Nat \ {0} /\ Funds \in Nat
ASSUME TimeAssumption == Month \in Nat \ {0} /\ Week \in Nat \ {0}
ASSUME PlansAssumption == Plans \subseteq [weekly : BOOLEAN, zone : Int, day : Nat]

VARIABLES
    goal,           \* the document; enabled and last are its autoContribution
    rows,           \* its contributions in the order they were made
    contributed,    \* the sum of rows
    told,           \* the milestones there is a notification of
    saver,          \* saverAmount and pushoverAmount
    pushovers,      \* the sum of the rows of Pushover
    request,        \* request[r]: what r was asked, and its copy
    plan,           \* the goal's interval and day, the user's time zone
    now,
    overlaps,       \* history: the kinds of requests that ran beside each other
    cut,            \* history: where a request failed or died
    retargeted,     \* history: the target was changed
    put, taken,     \* history: what went into the saver and out of it
    starts, faults

rowVars == <<rows, contributed>>
goalVars == <<goal, rows, contributed, told>>
saverVars == <<saver, pushovers, put, taken>>
bounds == <<starts, faults>>
vars == <<goalVars, saverVars, request, plan, now, overlaps, cut, retargeted, bounds>>

Idle == [op |-> "none"]
Busy(r) == request[r] # Idle
At(r, ops, at) == request[r].op \in ops /\ request[r].at = at
Giving == {"contribute", "auto"}

Goals == [status : {"none", "active", "paused", "completed", "archived"}, target : Nat \ {0},
          amount : Nat, enabled : BOOLEAN, last : Nat \cup {Never}]
TypeOK ==
    /\ goal \in Goals
    /\ rows \in Seq([amount : Nat \ {0}, op : Giving, at : Nat])
    /\ told \subseteq Milestones /\ contributed \in Nat
    /\ saver \in [amount : Int, pushed : Nat] /\ pushovers \in Nat
    /\ now \in Nat /\ put \in Nat /\ taken \in Nat
-----------------------------------------------------------------------------
(* markGoalCompletedIfTargetMet *)
Completed(g) ==
    IF g.amount >= g.target /\ g.status = "active" THEN [g EXCEPT !.status = "completed"] ELSE g

(* updateSavingsGoal, updateSavingsGoalForOp: a completed goal reopens     *)
(* when its target is out of reach again.                                  *)
Retargeted(g, t) ==
    Completed([g EXCEPT !.target = t,
                        !.status = IF @ = "completed" /\ g.amount < t THEN "active" ELSE @])

(* A slip: a resumed goal stays active. *)
ResumedOnly(g) == [g EXCEPT !.status = "active"]

Resumed(g) == Completed([g EXCEPT !.status = "active"])

(* isAutoContributionDuePure: the month is the one UTC is in, its start    *)
(* and its day are those of the user's time zone.                          *)
MonthStart == ((now + plan.zone) \div Month) * Month
DueFromItsStart(g) ==   \* a slip: the first tick of the month counts as before it
    /\ g.enabled
    /\ \/ g.last = Never
       \/ plan.weekly /\ now - g.last >= Week
       \/ ~plan.weekly /\ g.last <= MonthStart /\ (plan.day # 0 => now >= MonthStart + plan.day - 1)

Due(g) ==
    /\ g.enabled
    /\ \/ g.last = Never
       \/ plan.weekly /\ now - g.last >= Week
       \/ /\ ~plan.weekly
          /\ g.last < MonthStart
          /\ plan.day # 0 => now >= MonthStart + plan.day - 1

Reached(m, amount, target) == 100 * amount >= m * target

(* A slip: a milestone is only passed, never met. *)
CrossedBeyond(before, after, target) ==
    {m \in Milestones : ~Reached(m, before, target) /\ 100 * after > m * target}

(* evaluateSavingsMilestoneNotifications *)
Crossed(before, after, target) ==
    {m \in Milestones : ~Reached(m, before, target) /\ Reached(m, after, target)}

(* A slip: save() writes the whole document. *)
MergedWhole(copy, next) == next

(* save() writes the modified paths; an edit of autoContribution writes    *)
(* all of it.                                                              *)
Merged(copy, next) ==
    [f \in DOMAIN goal |->
        IF next[f] # copy[f] \/ (f = "last" /\ next.enabled # copy.enabled)
        THEN next[f] ELSE goal[f]]
-----------------------------------------------------------------------------
Starts(r, q) ==
    /\ ~Busy(r) /\ starts < MaxStarts
    /\ starts' = starts + 1
    /\ request' = [request EXCEPT ![r] = q]
    /\ overlaps' = overlaps \cup {{q.op, request[p].op} : p \in {p \in Requests : Busy(p)}}
    /\ UNCHANGED <<goalVars, saverVars, plan, now, cut, retargeted, faults>>

Ends(r) == request' = [request EXCEPT ![r] = Idle]

(* createSavingsGoal, createSavingsGoalForOp: here with automatic          *)
(* contributions, which Toggle turns off.                                  *)
New(t) == [status |-> "active", target |-> t, amount |-> 0, enabled |-> TRUE, last |-> Never]
Create(t) ==
    /\ goal.status = "none" /\ plan # NoPlan
    /\ goal' = New(t)
    /\ UNCHANGED <<rowVars, told, saverVars, request, plan, now, overlaps, cut, retargeted, bounds>>

(* loadGoal, the checks of the handler, and what it makes of its copy. *)
Edit(r, op, next) ==
    /\ goal.status \notin {"none", "archived"}
    /\ Starts(r, [op |-> op, at |-> "save", copy |-> goal, next |-> next])

Update(r, t) == Edit(r, "update", Retargeted(goal, t))
Toggle(r) == Edit(r, "update", [goal EXCEPT !.enabled = ~@])
Archive(r) == Edit(r, "archive", [goal EXCEPT !.status = "archived"])
Pause(r) == goal.status = "active" /\ Edit(r, "pause", [goal EXCEPT !.status = "paused"])
Resume(r) == goal.status = "paused" /\ Edit(r, "resume", Resumed(goal))
Complete(r) == goal.status # "completed" /\ Edit(r, "complete", [goal EXCEPT !.status = "completed"])

Save(r) ==
    /\ At(r, {"update", "archive", "pause", "resume", "complete"}, "save")
    /\ goal' = Merged(request[r].copy, request[r].next)
    /\ retargeted' = (retargeted \/ goal'.target # goal.target)
    /\ Ends(r)
    /\ UNCHANGED <<rowVars, told, saverVars, plan, now, overlaps, cut, bounds>>

(* contributeToSavingsGoal, processAutoContribution *)
Gives(r, op, a) ==
    /\ goal.status = "active"
    /\ Starts(r, [op |-> op, at |-> "row", copy |-> goal, amount |-> a])
Contribute(r, a) == Gives(r, "contribute", a)
AutoContribute(r) == Due(goal) /\ Gives(r, "auto", 1)

(* recordContribution: the row, the goal, the notifications. *)
CreateRow(r) ==
    /\ At(r, Giving, "row")
    /\ rows' = Append(rows, [amount |-> request[r].amount, op |-> request[r].op, at |-> now])
    /\ contributed' = contributed + request[r].amount
    /\ request' = [request EXCEPT ![r].at = "save"]
    /\ UNCHANGED <<goal, told, saverVars, plan, now, overlaps, cut, retargeted, bounds>>

Tells(r, milestones) ==
    IF milestones = {} THEN Ends(r)
    ELSE request' = [request EXCEPT ![r] = [op |-> @.op, at |-> "tell", tell |-> milestones]]

SaveAmount(r) ==
    LET q == request[r]
        next == Completed([q.copy EXCEPT !.amount = @ + q.amount,
                                         !.last = IF q.op = "auto" THEN now ELSE @])
    IN
    /\ At(r, Giving, "save")
    /\ goal' = Merged(q.copy, next)
    /\ Tells(r, Crossed(q.copy.amount, next.amount, q.copy.target))
    /\ UNCHANGED <<rowVars, told, saverVars, plan, now, overlaps, cut, retargeted, bounds>>

(* createNotificationIfNew: one upsert by dedupeKey for each milestone. *)
Tell(r) ==
    /\ At(r, Giving, "tell")
    /\ \E m \in request[r].tell :
           /\ \A n \in request[r].tell : m <= n
           /\ told' = told \cup {m}
           /\ Tells(r, request[r].tell \ {m})
    /\ UNCHANGED <<goal, rowVars, saverVars, plan, now, overlaps, cut, retargeted, bounds>>
-----------------------------------------------------------------------------
(* addSaver, withdrawSaver, pushoverToNextMonth. *)
Saver(op, at, a) == [op |-> op, at |-> at, copy |-> saver, amount |-> a]
Deposit(r, a) ==
    plan = NoPlan /\ a <= Funds - saver.amount /\ Starts(r, Saver("deposit", "write", a))
Withdraw(r, a) == a <= saver.amount /\ Starts(r, Saver("withdraw", "write", a))
Pushover(r) == saver.amount > 0 /\ Starts(r, Saver("pushover", "row", saver.amount))

(* A slip: the deposit is added to the amount that was read. *)
IncAsRead(r) ==
    /\ At(r, {"deposit"}, "write")
    /\ saver' = [saver EXCEPT !.amount = request[r].copy.amount + request[r].amount]
    /\ put' = put + request[r].amount
    /\ Ends(r)
    /\ UNCHANGED <<goalVars, pushovers, taken, plan, now, overlaps, cut, retargeted, bounds>>

(* $inc, which reads nothing *)
Inc(r) ==
    /\ At(r, {"deposit"}, "write")
    /\ saver' = [saver EXCEPT !.amount = @ + request[r].amount]
    /\ put' = put + request[r].amount
    /\ Ends(r)
    /\ UNCHANGED <<goalVars, pushovers, taken, plan, now, overlaps, cut, retargeted, bounds>>

Take(r) ==
    /\ At(r, {"withdraw"}, "write")
    /\ saver' = [saver EXCEPT !.amount = request[r].copy.amount - request[r].amount]
    /\ taken' = taken + request[r].amount
    /\ Ends(r)
    /\ UNCHANGED <<goalVars, pushovers, put, plan, now, overlaps, cut, retargeted, bounds>>

InsertPushover(r) ==
    /\ At(r, {"pushover"}, "row")
    /\ pushovers' = pushovers + request[r].amount
    /\ request' = [request EXCEPT ![r].at = "write"]
    /\ UNCHANGED <<goalVars, saver, put, taken, plan, now, overlaps, cut, retargeted, bounds>>

Empty(r) ==
    /\ At(r, {"pushover"}, "write")
    /\ saver' = [amount |-> 0, pushed |-> request[r].copy.pushed + request[r].amount]
    /\ Ends(r)
    /\ UNCHANGED <<goalVars, pushovers, put, taken, plan, now, overlaps, cut, retargeted, bounds>>
-----------------------------------------------------------------------------
(* A write is refused, or the process dies at an await. *)
Fail(r) ==
    /\ Busy(r) /\ faults < MaxFaults
    /\ faults' = faults + 1
    /\ cut' = cut \cup {<<request[r].op, request[r].at>>}
    /\ Ends(r)
    /\ UNCHANGED <<goalVars, saverVars, plan, now, overlaps, retargeted, starts>>

Tick ==
    /\ now < MaxTime /\ plan # NoPlan
    /\ now' = now + 1
    /\ UNCHANGED <<goalVars, saverVars, request, plan, overlaps, cut, retargeted, bounds>>

Step(r) ==
    \/ Save(r) \/ CreateRow(r) \/ SaveAmount(r) \/ Tell(r)
    \/ Inc(r) \/ Take(r) \/ InsertPushover(r) \/ Empty(r)

Ask(r) ==
    \/ \E t \in Targets : Update(r, t)
    \/ Toggle(r) \/ Archive(r) \/ Pause(r) \/ Resume(r) \/ Complete(r)
    \/ \E a \in Amounts : Contribute(r, a)
    \/ \E a \in Deposits : Deposit(r, a) \/ Withdraw(r, a)
    \/ AutoContribute(r) \/ Pushover(r)

Init ==
    /\ goal = [status |-> "none", target |-> 1, amount |-> 0, enabled |-> FALSE, last |-> Never]
    /\ rows = <<>> /\ contributed = 0 /\ told = {}
    /\ saver = [amount |-> 0, pushed |-> 0] /\ pushovers = 0
    /\ request = [r \in Requests |-> Idle]
    /\ plan \in Plans \cup {NoPlan} /\ now = 0
    /\ overlaps = {} /\ cut = {} /\ retargeted = FALSE
    /\ put = 0 /\ taken = 0
    /\ starts = 0 /\ faults = 0

Next ==
    \/ \E r \in Requests : Ask(r) \/ Step(r) \/ Fail(r)
    \/ \E t \in Targets : Create(t)
    \/ Tick

Spec == Init /\ [][Next]_vars
-----------------------------------------------------------------------------
Beside(ops, others) == \E a \in ops, b \in others : {a, b} \in overlaps
Cut(ops, ats) == \E a \in ops, b \in ats : <<a, b>> \in cut
Under(ops, at) == \E r \in Requests : Busy(r) /\ At(r, ops, at)

(* The amount of a goal is what its history of contributions adds up to    *)
(* (contributing-to-goals.md:7): no edit of the goal beside it, whatever   *)
(* order they save in, takes a contribution away; only two contributions   *)
(* at a time may, or one that died between its row and the goal.           *)
HistoryAddsUp ==
    /\ TypeOK
    /\ \/ goal.amount = contributed
       \/ Under(Giving, "save") \/ Cut(Giving, {"save"}) \/ Beside(Giving, Giving)

(* Within a month, or a week, one automatic contribution is made           *)
(* (contributing-to-goals.md:52), unless two ran at a time, one died       *)
(* before it was noted on the goal, an edit of the plan wrote an earlier   *)
(* copy back, or UTC was in the next month already, for a plan without a   *)
(* day of the month.                                                       *)
AheadOfMonth(t) == ~plan.weekly /\ plan.day = 0 /\ (t + plan.zone) \div Month > t \div Month
OneAutoPerPeriod ==
    \A i, j \in DOMAIN rows : i < j /\ rows[i].op = "auto" /\ rows[j].op = "auto" =>
        \/ IF plan.weekly THEN rows[j].at - rows[i].at >= Week
                          ELSE rows[i].at \div Month < rows[j].at \div Month
        \/ AheadOfMonth(rows[j].at)
        \/ Cut({"auto"}, {"save"}) \/ Beside({"auto"}, {"auto", "update"})

(* Every milestone the amount has reached was told, unless a request died  *)
(* on the way to it or the target was changed                              *)
(* (evaluateSavingsMilestoneNotifications looks at the amount before and   *)
(* after a contribution only).                                             *)
MilestonesAreTold ==
    \A m \in Milestones : goal.amount > 0 /\ Reached(m, goal.amount, goal.target) =>
        m \in told \/ retargeted \/ Under(Giving, "tell") \/ Cut(Giving, {"tell"})

(* "When a contribution brings the current amount to or above the target,  *)
(* Corvale marks the goal Completed automatically"                         *)
(* (contributing-to-goals.md:22), also when a lower target or the end of a *)
(* pause does, unless one of these and another request loaded the goal     *)
(* before the other saved it.                                              *)
MetIsCompleted ==
    goal.status = "active" /\ goal.amount >= goal.target =>
        Beside({"update", "resume"}, {"update", "resume"} \cup Giving)

(* What was put into the saver is in it, was withdrawn or pushed over, and *)
(* it never holds more than the accounts: two deposits at a time lose      *)
(* nothing but may exceed them, and a withdrawal or pushover beside        *)
(* another request, or cut off between its writes, may do anything.        *)
SaverAddsUp ==
    \/ Beside({"withdraw", "pushover"}, {"deposit", "withdraw", "pushover"})
    \/ Under({"pushover"}, "write") \/ Cut({"pushover"}, {"write"})
    \/ /\ saver.amount + pushovers + taken = put
       /\ saver.pushed = pushovers
       /\ saver.amount <= Funds \/ Beside({"deposit"}, {"deposit"})
=============================================================================
