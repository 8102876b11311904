--------------------------- MODULE RecurringDrafts ---------------------------
(***************************************************************************)
(* The drafts of recurring rules (backend/src/modules/recurring).  A       *)
(* request for drafts loads every active rule that is due and walks each   *)
(* along its schedule: look for a draft of the due date, create one if     *)
(* there is none, advance, and save the rule once at the end.  Requests    *)
(* overlap each other and the edits of the user, and may fail at any await.*)
(***************************************************************************)
EXTENDS Integers, Sequences, FiniteSets

CONSTANTS
    Rules,          \* each on an account and of a category of its own
    Requests,       \* the generate-drafts requests that may overlap
    Lengths,        \* the lengths of the months, repeated for ever
    Intervals,      \* the intervals offered: [months, days]
    FirstRule,      \* FirstRule[q]: the due date and the interval q begins with
    MaxCatchup,     \* MAX_CATCHUP_DRAFTS
    Horizon, MaxEvents, MaxOverlaps
                    \* bounds: days that pass; edits and failures; overlaps

ASSUME CatchupAssumption == MaxCatchup \in Nat \ {0}
ASSUME IntervalAssumption ==
    \A i \in Intervals : i.months \in Nat /\ i.days \in Nat /\ i.months + i.days > 0
ASSUME RulesAssumption ==
    /\ Horizon \in Nat /\ IsFiniteSet(Rules)
    /\ FirstRule \in [Rules -> [next : 0..Horizon, interval : Intervals]]

VARIABLES
    rule,           \* rule[q]: the stored rule
    closed,         \* rules whose account is archived
    shelved,        \* rules whose category is archived or gone
    today,
    live,           \* live[q][d]: its transactions of day d with status draft
    made,           \* history: made[q][d] drafts created for day d, up to 2
    request,        \* request[r]: the rules it loaded, still to be walked
    raced,          \* history: rules handled by two requests at a time
    reset,          \* history: rules whose stored date fell behind their drafts
    events, overlaps

stored == <<rule, closed, shelved, live, made>>
history == <<raced, reset, events, overlaps>>
vars == <<stored, today, request, history>>
-----------------------------------------------------------------------------
(* The calendar: day 0 begins month 0. *)
StartOf[m \in Nat] ==
    IF m = 0 THEN 0 ELSE StartOf[m - 1] + Lengths[((m - 1) % Len(Lengths)) + 1]
MonthOf(d) == CHOOSE m \in 0..d : StartOf[m] <= d /\ d < StartOf[m + 1]

(* advanceNextDueDate: setUTCMonth keeps the number of the day and lets    *)
(* what a short month lacks run over into the next one.                    *)
Advance(d, i) ==
    LET m == MonthOf(d) IN StartOf[m + i.months] + (d - StartOf[m]) + i.days

LastDay == Advance(Horizon, CHOOSE i \in Intervals :
                \A j \in Intervals : Advance(Horizon, j) <= Advance(Horizon, i))
Days == 0..LastDay

(* Schedules move on, and from a day up to the horizon to one in Days. *)
ASSUME CalendarAssumption ==
    /\ 0..Horizon \subseteq Days /\ Days \subseteq Nat
    /\ \A d \in 0..Horizon, i \in Intervals : Advance(d, i) \in Days /\ d < Advance(d, i)

(* The due dates of the schedule that c is on, before day end: the days in *)
(* every set that has c.next and, with a day up to the horizon, the one    *)
(* the schedule advances to.                                               *)
Scheduled(days, c) ==
    c.next \in days /\ \A d \in days \cap 0..Horizon : Advance(d, c.interval) \in days
DueDates(c, end) ==
    {d \in Days : d < end /\ \A days \in SUBSET Days : Scheduled(days, c) => d \in days}
-----------------------------------------------------------------------------
Idle == [at |-> "idle", end |-> 0, todo |-> <<>>, n |-> 0]
Current(r) == Head(request[r].todo)
Holds(r, q) == \E i \in DOMAIN request[r].todo : request[r].todo[i].rule = q
Held(q) == \E r \in Requests : Holds(r, q)
Copy(q) == [rule |-> q, next |-> rule[q].next, interval |-> rule[q].interval]
Active(q) == rule[q].status = "active"
Due(q) == Active(q) /\ rule[q].next <= today

(* validateAccountForTransaction or validateCategoryForTransaction throws. *)
Barred(q) == q \in closed \cup shelved

Begin(r, todo) ==
    /\ request[r].at = "idle" /\ todo # <<>>
    /\ request' = [request EXCEPT ![r] = [Idle EXCEPT !.at = "rule", !.end = today,
                                                     !.todo = todo]]
    /\ raced' = raced \cup {q \in Rules : Held(q) /\ \E i \in DOMAIN todo : todo[i].rule = q}
    /\ IF \A p \in Requests : request[p].at = "idle" THEN UNCHANGED overlaps
       ELSE overlaps < MaxOverlaps /\ overlaps' = overlaps + 1
    /\ UNCHANGED <<stored, today, reset, events>>

(* generateDraftsForUser: the due rules, the earliest first. *)
GenerateAll(r) ==
    LET due == {q \in Rules : Due(q)}
        n == Cardinality(due)
    IN \E order \in {s \in [1..n -> due] : \A i, j \in 1..n : i < j =>
                        s[i] # s[j] /\ rule[s[i]].next <= rule[s[j]].next} :
           Begin(r, [i \in 1..n |-> Copy(order[i])])

(* generateRecurringDraftsForRule. *)
GenerateOne(r) == \E q \in Rules : Due(q) /\ Begin(r, <<Copy(q)>>)

(* The rule in hand is finished with. *)
NextRule(r) ==
    IF Len(request[r].todo) = 1 THEN Idle
    ELSE [request[r] EXCEPT !.at = "rule", !.todo = Tail(@), !.n = 0]

(* What is wrong with the account or the category of one rule ends the     *)
(* whole request, for the rules behind it too.                             *)
Check(r) ==
    /\ request[r].at = "rule"
    /\ request' = [request EXCEPT ![r] = IF Barred(Current(r).rule) THEN Idle
                                         ELSE [@ EXCEPT !.at = "look"]]
    /\ UNCHANGED <<stored, today, history>>

Advanced(c) == [c EXCEPT !.next = Advance(c.next, c.interval)]
Stepped(r) == [request[r] EXCEPT !.at = "look", !.n = @ + 1,
                                 !.todo = <<Advanced(Head(@))>> \o Tail(@)]

GoesOn(r) == Current(r).next <= request[r].end /\ request[r].n < MaxCatchup

(* A slip: the drafts of today are looked up, not those of the due date. *)
HasDraftToday(c) == live[c.rule][today] > 0

(* hasDraftForDueDate counts drafts only, neither confirmed nor dismissed. *)
HasDraft(c) == live[c.rule][c.next] > 0

(* A slip: the walk ends at a draft that is already there. *)
LookUntilDraft(r) ==
    /\ request[r].at = "look"
    /\ request' = [request EXCEPT ![r] =
           IF ~GoesOn(r) \/ HasDraft(Current(r))
           THEN IF @.n > 0 THEN [@ EXCEPT !.at = "save"] ELSE NextRule(r)
           ELSE [@ EXCEPT !.at = "create"]]
    /\ UNCHANGED <<stored, today, history>>

(* A slip: a walk that ends at the cap is not saved. *)
LookUnsavedAtCap(r) ==
    /\ request[r].at = "look"
    /\ request' = [request EXCEPT ![r] =
           IF ~GoesOn(r)
           THEN IF @.n \in 1..(MaxCatchup - 1) THEN [@ EXCEPT !.at = "save"] ELSE NextRule(r)
           ELSE IF HasDraft(Current(r)) THEN Stepped(r) ELSE [@ EXCEPT !.at = "create"]]
    /\ UNCHANGED <<stored, today, history>>

Look(r) ==
    /\ request[r].at = "look"
    /\ request' = [request EXCEPT ![r] =
           IF ~GoesOn(r) THEN IF @.n > 0 THEN [@ EXCEPT !.at = "save"] ELSE NextRule(r)
           ELSE IF HasDraft(Current(r)) THEN Stepped(r) ELSE [@ EXCEPT !.at = "create"]]
    /\ UNCHANGED <<stored, today, history>>

Create(r) ==
    LET c == Current(r) IN
    /\ request[r].at = "create"
    /\ live' = [live EXCEPT ![c.rule][c.next] = @ + 1]
    /\ made' = [made EXCEPT ![c.rule][c.next] = IF @ = 2 THEN 2 ELSE @ + 1]
    /\ request' = [request EXCEPT ![r] = Stepped(r)]
    /\ UNCHANGED <<rule, closed, shelved, today, history>>

(* A slip: the schedule is moved past everything that was due. *)
SavePastToday(r) ==
    /\ request[r].at = "save"
    /\ rule' = [rule EXCEPT ![Current(r).rule].next =
                   IF Current(r).next > today THEN Current(r).next ELSE today + 1]
    /\ request' = [request EXCEPT ![r] = NextRule(r)]
    /\ UNCHANGED <<closed, shelved, live, made, today, history>>

(* rule.save() writes the one path that changed. *)
Save(r) ==
    LET c == Current(r) IN
    /\ request[r].at = "save"
    /\ rule' = [rule EXCEPT ![c.rule].next = c.next]
    /\ request' = [request EXCEPT ![r] = NextRule(r)]
    /\ UNCHANGED <<closed, shelved, live, made, today, history>>

(* The request ends at an await: an error, or the death of the process. *)
Fail(r) ==
    /\ request[r].at # "idle"
    /\ events < MaxEvents /\ events' = events + 1
    /\ request' = [request EXCEPT ![r] = Idle]
    /\ reset' = reset \cup (IF request[r].n > 0 THEN {Current(r).rule} ELSE {})
    /\ UNCHANGED <<stored, today, raced, overlaps>>

Step(r) == Check(r) \/ Look(r) \/ Create(r) \/ Save(r)
-----------------------------------------------------------------------------
(* confirmRecurringDraft and dismissRecurringDraft: either way it is no    *)
(* draft any more; to confirm one its account must be open (its category   *)
(* is not looked at again).                                                *)
Confirm(q, d) ==
    /\ live[q][d] > 0 /\ q \notin closed
    /\ live' = [live EXCEPT ![q][d] = @ - 1]
    /\ UNCHANGED <<rule, closed, shelved, made, today, request, history>>

Dismiss(q, d) ==
    /\ live[q][d] > 0
    /\ live' = [live EXCEPT ![q][d] = @ - 1]
    /\ UNCHANGED <<rule, closed, shelved, made, today, request, history>>

Touched(q) ==
    /\ raced' = IF Held(q) THEN raced \cup {q} ELSE raced
    /\ UNCHANGED <<live, made, today, request, overlaps>>
Edited(q) == events < MaxEvents /\ events' = events + 1 /\ Touched(q)

(* updateRecurringRule, updateRecurringRuleForOp: no edit of an archived   *)
(* rule.  The account and the category an edit leaves must both be open.   *)
Reschedule(q) ==
    /\ rule[q].status # "archived"
    /\ \E d \in 0..Horizon :
           /\ rule' = [rule EXCEPT ![q].next = d]
           /\ reset' = IF d < rule[q].next THEN reset \cup {q} ELSE reset
    /\ Edited(q) /\ UNCHANGED <<closed, shelved>>

Reinterval(q) ==
    /\ rule[q].status # "archived"
    /\ \E i \in Intervals \ {rule[q].interval} : rule' = [rule EXCEPT ![q].interval = i]
    /\ Edited(q) /\ UNCHANGED <<closed, shelved, reset>>

Toggle(q) ==
    /\ rule[q].status # "archived"
    /\ rule' = [rule EXCEPT ![q].status = IF @ = "active" THEN "paused" ELSE "active"]
    /\ Edited(q) /\ UNCHANGED <<closed, shelved, reset>>

Repoint(q) ==
    /\ rule[q].status # "archived" /\ Barred(q)
    /\ closed' = closed \ {q} /\ shelved' = shelved \ {q}
    /\ Touched(q) /\ UNCHANGED <<rule, reset, events>>

(* archiveRecurringRule, deleteRecurringRuleForOp. *)
Archive(q) ==
    /\ rule[q].status # "archived"
    /\ rule' = [rule EXCEPT ![q].status = "archived"]
    /\ Edited(q) /\ UNCHANGED <<closed, shelved, reset>>

(* archiveAccount and archiveCategory leave the rules they concern alone;  *)
(* neither has a way back.                                                 *)
ArchiveAccount(q) ==
    /\ q \notin closed
    /\ closed' = closed \cup {q}
    /\ Edited(q) /\ UNCHANGED <<rule, shelved, reset>>

ArchiveCategory(q) ==
    /\ q \notin shelved
    /\ shelved' = shelved \cup {q}
    /\ Edited(q) /\ UNCHANGED <<rule, closed, reset>>

NextDay ==
    /\ today < Horizon
    /\ today' = today + 1
    /\ UNCHANGED <<stored, request, history>>
-----------------------------------------------------------------------------
Init ==
    /\ rule = [q \in Rules |-> [next |-> FirstRule[q].next, status |-> "active",
                                interval |-> FirstRule[q].interval]]
    /\ closed = {} /\ shelved = {} /\ today = 0 /\ raced = {} /\ reset = {}
    /\ live = [q \in Rules |-> [d \in Days |-> 0]] /\ made = live
    /\ request = [r \in Requests |-> Idle]
    /\ events = 0 /\ overlaps = 0

Next ==
    \/ NextDay
    \/ \E r \in Requests : GenerateAll(r) \/ GenerateOne(r) \/ Step(r) \/ Fail(r)
    \/ \E q \in Rules :
           \/ \E d \in 0..Horizon : Confirm(q, d) \/ Dismiss(q, d)
           \/ Reschedule(q) \/ Reinterval(q) \/ Toggle(q) \/ Repoint(q)
           \/ Archive(q) \/ ArchiveAccount(q) \/ ArchiveCategory(q)

Spec == Init /\ [][Next]_vars

(* A request that was taken in goes on, and the user asks for drafts again *)
(* and again.                                                              *)
FairSpec ==
    /\ Spec
    /\ \A r \in Requests : WF_vars(Step(r)) /\ SF_vars(GenerateAll(r))
-----------------------------------------------------------------------------
(* Every variable has its type; a request holds copies of rules, each rule *)
(* once, and never creates more drafts for one than the cap allows         *)
(* (generateDraftsForRule).                                                *)
TypeOK ==
    /\ rule \in [Rules -> [next : Days, interval : Intervals,
                           status : {"active", "paused", "archived"}]]
    /\ closed \subseteq Rules /\ shelved \subseteq Rules /\ today \in 0..Horizon
    /\ raced \subseteq Rules /\ reset \subseteq Rules
    /\ live \in [Rules -> [Days -> Nat]] /\ made \in [Rules -> [Days -> 0..2]]
    /\ request \in [Requests -> [at : {"idle", "rule", "look", "create", "save"},
                                end : 0..Horizon, n : 0..MaxCatchup,
                                todo : Seq([rule : Rules, next : Days, interval : Intervals])]]
    /\ \A r \in Requests :
           /\ request[r].end <= today
           /\ (request[r].at = "idle") = (request[r].todo = <<>>)

(* What a request carries fits the stage it is at. *)
Fitting == \A r \in Requests :
    /\ request[r].at \in {"idle", "rule"} => request[r].n = 0
    /\ request[r].at = "create" => GoesOn(r)
    /\ request[r].at = "save" => request[r].n > 0

(* An unraced rule is held by one request, once. *)
Alone == \A q \in Rules \ raced, r, p \in Requests : Holds(r, q) /\ Holds(p, q) => r = p
Once == \A r \in Requests : \A i, j \in DOMAIN request[r].todo :
            request[r].todo[i].rule = request[r].todo[j].rule => i = j

(* Its copy is where the stored rule is, or ahead of it once walked. *)
Placed == \A r \in Requests : \A i \in DOMAIN request[r].todo :
    LET c == request[r].todo[i] IN c.rule \notin raced =>
        /\ Active(c.rule)
        /\ IF i = 1 /\ request[r].n > 0 THEN rule[c.rule].next < c.next
           ELSE c.next = rule[c.rule].next

(* Between the look and the creation no draft of the date turns up. *)
Found == \A r \in Requests : request[r].at = "create" /\ Current(r).rule \notin raced =>
             ~HasDraft(Current(r))

(* Drafts were made for dates behind the rule, or behind the copy that is  *)
(* being walked.                                                           *)
Walked(r, q) == request[r].n > 0 /\ Current(r).rule = q
Behind == \A q \in Rules \ (raced \cup reset), d \in Days : made[q][d] > 0 =>
    d < rule[q].next \/ \E r \in Requests : Walked(r, q) /\ d < Current(r).next

(* The inbox never holds two drafts of one rule for one day, through       *)
(* failures of a request, edits that set the rule back and the cap of a    *)
(* catch-up (hasDraftForDueDate); only two requests that walk the rule at  *)
(* the same time both find none and both create one.                       *)
OneDraftPerDate == \A q \in Rules \ raced, d \in Days : live[q][d] <= 1

(* A due date that was confirmed or dismissed comes back as a draft only   *)
(* when the rule was walked twice at a time, or its stored date lay behind *)
(* its drafts: set back by the user, or never saved by a request that      *)
(* failed after it had created some.                                       *)
RemadeHasCause == \A q \in Rules \ (raced \cup reset), d \in Days : made[q][d] <= 1

(* The inductive invariant: an unraced rule is walked by one request at a  *)
(* time, whose copy is ahead of the stored rule exactly if it has been     *)
(* walked, and every draft lies behind one of them (generateDraftsForRule).*)
Inv ==
    /\ TypeOK /\ Fitting /\ Alone /\ Once /\ Placed /\ Found /\ Behind
    /\ OneDraftPerDate /\ RemadeHasCause

(* When a request moves a rule on, every due date it moves past has had    *)
(* its draft: the cap leaves the rest for the next request, and a rule     *)
(* that was left behind is caught up one date at a time                    *)
(* (generateDraftsForRule).                                                *)
NoDueDateIsSkipped ==
    [][\A q \in Rules : rule'[q].next # rule[q].next /\ events' = events /\ q \notin raced =>
           \A d \in DueDates(rule[q], rule'[q].next) : made[q][d] > 0]_vars

(* Drafts are made for active rules only: a rule paused or archived at     *)
(* rest gets none (generateDraftsForUser filters, generateDraftsForRule    *)
(* checks again).                                                          *)
RestingRulesAreSilent ==
    [][\A q \in Rules \ raced : made'[q] # made[q] => Active(q)]_vars

(* A rule that is due is caught up if the user goes on asking for drafts,  *)
(* unless a rule in front of it is due as well whose account or category   *)
(* was archived: that one is in the way of all behind it                   *)
(* (generateDraftsForUser).                                                *)
InTheWay(p, q) == Due(p) /\ Barred(p) /\ rule[p].next <= rule[q].next
DueIsServed == \A q \in Rules : []<>(~Due(q) \/ \E p \in Rules : InTheWay(p, q))
=============================================================================
