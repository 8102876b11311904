----------------------- MODULE RecurringDrafts_proofs -----------------------
(* Proofs about RecurringDrafts, for any number of rules and requests, any *)
(* calendar on which schedules move on, and any cap.                       *)
EXTENDS RecurringDrafts, TLAPS, SequenceTheorems, FiniteSetTheorems

Copies == [rule : Rules, next : Days, interval : Intervals]
Stages == {"idle", "rule", "look", "create", "save"}
Walks == [at : Stages, end : 0..Horizon, n : 0..MaxCatchup, todo : Seq(Copies)]

(* Does a request in the state w hold rule q? *)
Has(w, q) == \E i \in DOMAIN w.todo : w.todo[i].rule = q

(* The part of the invariant that is about one request. *)
Sound(w) ==
    /\ w \in Walks /\ ((w.at = "idle") <=> (w.todo = <<>>))
    /\ w.at \in {"idle", "rule"} => w.n = 0
    /\ w.at = "create" => Head(w.todo).next <= w.end /\ w.n < MaxCatchup
    /\ w.at = "save" => w.n > 0
    /\ \A i, j \in DOMAIN w.todo : w.todo[i].rule = w.todo[j].rule => i = j

Shape == TypeOK /\ Fitting /\ Once

(* Days are numbers, and so is what is compared with them. *)
Numbers ==
    /\ Days \subseteq Nat /\ 0..Horizon \subseteq Days /\ MaxCatchup \in Nat
    /\ request \in [Requests -> Walks]
    /\ today \in 0..Horizon /\ today \in Nat
    /\ \A q \in Rules : rule[q].next \in Nat

LEMMA NumbersHold == Shape => Numbers
PROOF
<1> SUFFICES ASSUME Shape PROVE Numbers
  OBVIOUS
<1>1. Days \subseteq Nat /\ 0..Horizon \subseteq Days /\ MaxCatchup \in Nat
  BY CalendarAssumption, CatchupAssumption
<1>2. request \in [Requests -> Walks]
  BY DEF Shape, TypeOK, Walks, Copies, Stages
<1>3. today \in 0..Horizon /\ today \in Nat
  BY RulesAssumption DEF Shape, TypeOK
<1>4. \A q \in Rules : rule[q].next \in Days
  BY DEF Shape, TypeOK
<1> QED
  BY <1>1, <1>2, <1>3, <1>4 DEF Numbers

(* The requests of a state that has its shape are sound. *)
LEMMA RequestSound ==
    ASSUME Shape, NEW r \in Requests
    PROVE  Sound(request[r]) /\ request[r].end <= today
PROOF
  BY DEF Shape, TypeOK, Fitting, Once, Sound, Walks, Copies, Stages, GoesOn, Current

(* The head of a list of copies, and what is behind it. *)
LEMMA ListFacts ==
    ASSUME NEW list \in Seq(Copies), list # <<>>
    PROVE  /\ Head(list) \in Copies /\ Head(list) = list[1] /\ 1 \in DOMAIN list
           /\ Len(list) \in Nat \ {0} /\ DOMAIN list = 1..Len(list)
           /\ Tail(list) \in Seq(Copies) /\ DOMAIN Tail(list) = 1..(Len(list) - 1)
           /\ \A i \in DOMAIN Tail(list) : i + 1 \in DOMAIN list /\ Tail(list)[i] = list[i + 1]
           /\ Len(list) # 1 => Tail(list) # <<>>
PROOF
<1>1. Len(list) \in Nat \ {0} /\ DOMAIN list = 1..Len(list)
  BY LenProperties, EmptySeq
<1>2. /\ Head(list) \in Copies /\ Tail(list) \in Seq(Copies)
      /\ Len(Tail(list)) = Len(list) - 1
      /\ \A i \in 1..Len(Tail(list)) : Tail(list)[i] = list[i + 1]
  BY HeadTailProperties
<1>3. DOMAIN Tail(list) = 1..(Len(list) - 1)
  BY <1>2, LenProperties
<1>4. Head(list) = list[1]
  OBVIOUS
<1>5. Len(list) # 1 => Tail(list) # <<>>
  BY <1>1, <1>2, EmptySeq
<1> QED
  BY <1>1, <1>2, <1>3, <1>4, <1>5

LEMMA RuleOf ==
    ASSUME Shape, NEW r \in Requests, NEW i \in DOMAIN request[r].todo
    PROVE  request[r].todo[i] \in Copies /\ request[r].todo[i].rule \in Rules
PROOF
<1>1. request[r].todo \in Seq(Copies)
  BY RequestSound DEF Sound, Walks
<1>2. request[r].todo[i] \in Copies
  BY <1>1, ElementOfSeq, LenProperties
<1> QED
  BY <1>2 DEF Copies

(* The empty request is sound and holds nothing. *)
LEMMA IdleSound == Sound(Idle) /\ Idle.n = 0 /\ Idle.end = 0 /\ \A q : ~Has(Idle, q)
PROOF
<1>1. <<>> \in Seq(Copies) /\ DOMAIN <<>> = {}
  BY EmptySeq
<1> QED
  BY <1>1, RulesAssumption, CatchupAssumption DEF Idle, Sound, Walks, Stages, Has

(* What a step leaves of the variables other than request. *)
World ==
    /\ rule' \in [Rules -> [next : Days, interval : Intervals,
                            status : {"active", "paused", "archived"}]]
    /\ closed' \subseteq Rules /\ shelved' \subseteq Rules
    /\ today' \in 0..Horizon /\ today <= today'
    /\ raced' \subseteq Rules /\ reset' \subseteq Rules
    /\ live' \in [Rules -> [Days -> Nat]] /\ made' \in [Rules -> [Days -> 0..2]]

(* A step that writes one request keeps the shape if what it writes is sound. *)
LEMMA ShapeOfStep ==
    ASSUME Shape, World, NEW r \in Requests, NEW w,
           request' = [request EXCEPT ![r] = w], Sound(w), w.end <= today'
    PROVE  Shape'
PROOF
<1>1. request \in [Requests -> Walks]
  BY DEF Shape, TypeOK, Walks, Copies, Stages
<1>2. ASSUME NEW p \in Requests PROVE Sound(request'[p]) /\ request'[p].end <= today'
  <2>1. CASE p = r
    BY <1>1, <2>1
  <2>2. CASE p # r
    <3>1. request'[p] = request[p] /\ request[p].end <= today /\ Sound(request[p])
      BY <1>1, <2>2, RequestSound
    <3>2. request[p].end \in 0..Horizon /\ today \in 0..Horizon
      BY <1>1 DEF Walks, Shape, TypeOK
    <3> QED
      BY <3>1, <3>2, RulesAssumption DEF World
  <2> QED
    BY <2>1, <2>2
<1>3. request' \in [Requests -> Walks]
  BY <1>1, <1>2 DEF Sound
<1>4. TypeOK'
  BY <1>2, <1>3 DEF TypeOK, World, Sound, Walks, Copies, Stages
<1>5. Fitting' /\ Once'
  BY <1>2 DEF Fitting, Once, Sound, GoesOn, Current
<1> QED
  BY <1>4, <1>5 DEF Shape

(* So does one that writes none. *)
LEMMA ShapeSame ==
    ASSUME Shape, World, UNCHANGED request
    PROVE  Shape'
PROOF
<1>1. request \in [Requests -> Walks] /\ today \in Nat /\ today' \in Nat
  BY NumbersHold, RulesAssumption DEF Numbers, World
<1>2. \A p \in Requests : request[p].end <= today'
  BY <1>1 DEF Shape, TypeOK, World, Walks
<1> QED
  BY <1>1, <1>2 DEF Shape, TypeOK, Fitting, Once, World, GoesOn, Current, Walks, Copies, Stages

(* NextRule drops the head of the list. *)
LEMMA NextRuleFacts ==
    ASSUME Shape, NEW r \in Requests, request[r].todo # <<>>
    PROVE  /\ Sound(NextRule(r)) /\ NextRule(r).end <= today
           /\ NextRule(r).n = 0 /\ NextRule(r).at # "create"
           /\ \A i \in DOMAIN NextRule(r).todo :
                 /\ i + 1 \in DOMAIN request[r].todo /\ i + 1 # 1
                 /\ NextRule(r).todo[i] = request[r].todo[i + 1]
PROOF
<1> DEFINE w == request[r]
<1> DEFINE v == [w EXCEPT !.at = "rule", !.todo = Tail(@), !.n = 0]
<1>1. Sound(w) /\ w.end <= today /\ w.todo \in Seq(Copies) /\ w \in Walks /\ today \in Nat
  <2>1. Sound(w) /\ w.end <= today /\ today \in Nat
    BY RequestSound, NumbersHold DEF Numbers
  <2> QED
    BY <2>1 DEF Sound, Walks
<1>2. CASE Len(w.todo) = 1
  <2>1. NextRule(r) = Idle
    BY <1>2 DEF NextRule
  <2>2. DOMAIN Idle.todo = {}
    BY EmptySeq DEF Idle
  <2> QED
    BY <1>1, <2>1, <2>2, IdleSound DEF Idle
<1>3. CASE Len(w.todo) # 1
  <2>1. NextRule(r) = v
    BY <1>3 DEF NextRule
  <2>2. /\ v.at = "rule" /\ v.todo = Tail(w.todo) /\ v.n = 0 /\ v.end = w.end
        /\ v \in [at : Stages, end : 0..Horizon, n : {0}, todo : {Tail(w.todo)}]
    BY <1>1 DEF Walks, Stages
  <2>3. /\ Tail(w.todo) \in Seq(Copies) /\ Tail(w.todo) # <<>>
        /\ DOMAIN w.todo = 1..Len(w.todo) /\ Len(w.todo) \in Nat
        /\ DOMAIN Tail(w.todo) = 1..(Len(w.todo) - 1)
        /\ \A i \in DOMAIN Tail(w.todo) :
              i + 1 \in DOMAIN w.todo /\ Tail(w.todo)[i] = w.todo[i + 1]
    BY <1>1, <1>3, ListFacts
  <2>4. v \in Walks
    <3>1. 0 \in 0..MaxCatchup
      BY CatchupAssumption
    <3> QED
      BY <2>2, <2>3, <3>1 DEF Walks
  <2> HIDE DEF v
  <2>5. \A i, j \in DOMAIN v.todo : v.todo[i].rule = v.todo[j].rule => i = j
    <3> SUFFICES ASSUME NEW i \in DOMAIN v.todo, NEW j \in DOMAIN v.todo,
                        v.todo[i].rule = v.todo[j].rule
                 PROVE  i = j
      OBVIOUS
    <3>1. /\ i \in Int /\ j \in Int
          /\ i + 1 \in DOMAIN w.todo /\ j + 1 \in DOMAIN w.todo
          /\ w.todo[i + 1].rule = w.todo[j + 1].rule
      BY <2>2, <2>3
    <3>2. i + 1 = j + 1
      BY <1>1, <3>1 DEF Sound
    <3> QED
      BY <3>1, <3>2
  <2>6. Sound(v)
    BY <2>2, <2>3, <2>4, <2>5 DEF Sound
  <2>7. \A i \in DOMAIN v.todo : i + 1 # 1
    BY <2>2, <2>3
  <2> QED
    BY <1>1, <2>1, <2>2, <2>3, <2>6, <2>7
<1> QED
  BY <1>2, <1>3

(* Stepped moves the head on and leaves the rest. *)
LEMMA SteppedFacts ==
    ASSUME Shape, NEW r \in Requests, request[r].todo # <<>>, GoesOn(r)
    PROVE  /\ Sound(Stepped(r)) /\ Stepped(r).end <= today
           /\ Stepped(r).n = request[r].n + 1 /\ Stepped(r).at = "look"
           /\ DOMAIN Stepped(r).todo = DOMAIN request[r].todo
           /\ Stepped(r).todo[1] = Advanced(Current(r)) /\ Stepped(r).todo # <<>>
           /\ Advanced(Current(r)).rule = Current(r).rule
           /\ Current(r).next < Advanced(Current(r)).next
           /\ \A i \in DOMAIN request[r].todo \ {1} : Stepped(r).todo[i] = request[r].todo[i]
PROOF
<1> DEFINE w == request[r]
<1> DEFINE c == Current(r)
<1> DEFINE a == Advanced(c)
<1> DEFINE list == <<a>> \o Tail(w.todo)
<1>1. Sound(w) /\ w.end <= today /\ w.todo \in Seq(Copies) /\ w \in Walks /\ w.todo # <<>>
  BY RequestSound DEF Sound, Walks
<1>2. c \in Copies /\ c = w.todo[1]
  BY <1>1, ListFacts DEF Current
<1>3. c.next \in 0..Horizon
  BY <1>1, <1>2, RulesAssumption DEF GoesOn, Walks, Copies, Days
<1>4. a \in Copies /\ a.rule = c.rule /\ c.next < a.next
  BY <1>2, <1>3, CalendarAssumption DEF Advanced, Copies
<1>5. /\ Tail(w.todo) \in Seq(Copies) /\ Len(w.todo) \in Nat \ {0}
      /\ DOMAIN w.todo = 1..Len(w.todo)
      /\ Len(Tail(w.todo)) = Len(w.todo) - 1
      /\ \A i \in 1..(Len(w.todo) - 1) : Tail(w.todo)[i] = w.todo[i + 1]
  BY <1>1, ListFacts, HeadTailProperties
<1>6. <<a>> \in Seq(Copies) /\ Len(<<a>>) = 1 /\ <<a>>[1] = a
  BY <1>4
<1>7. /\ list \in Seq(Copies) /\ Len(list) = Len(w.todo)
      /\ \A i \in 1..Len(w.todo) : list[i] = IF i <= 1 THEN a ELSE Tail(w.todo)[i - 1]
  <2>1. /\ list \in Seq(Copies) /\ Len(list) = 1 + (Len(w.todo) - 1)
        /\ \A i \in 1..(1 + (Len(w.todo) - 1)) :
               list[i] = IF i <= 1 THEN <<a>>[i] ELSE Tail(w.todo)[i - 1]
    BY <1>5, <1>6, ConcatProperties
  <2>2. 1 + (Len(w.todo) - 1) = Len(w.todo)
    BY <1>5
  <2> QED
    BY <1>5, <1>6, <2>1, <2>2
<1> HIDE DEF list, a, c
<1>8. /\ DOMAIN list = DOMAIN w.todo /\ list[1] = a /\ list # <<>>
      /\ \A i \in DOMAIN w.todo \ {1} : list[i] = w.todo[i]
  <2>1. DOMAIN list = 1..Len(w.todo)
    BY <1>7, LenProperties
  <2>2. list[1] = a
    BY <1>5, <1>7
  <2>3. \A i \in 2..Len(w.todo) : list[i] = w.todo[i]
    <3> SUFFICES ASSUME NEW i \in 2..Len(w.todo) PROVE list[i] = w.todo[i]
      OBVIOUS
    <3>1. list[i] = Tail(w.todo)[i - 1] /\ i - 1 \in 1..(Len(w.todo) - 1)
      BY <1>5, <1>7
    <3>2. Tail(w.todo)[i - 1] = w.todo[(i - 1) + 1] /\ (i - 1) + 1 = i
      BY <1>5, <3>1
    <3> QED
      BY <3>1, <3>2
  <2>4. list # <<>>
    BY <1>5, <1>7, EmptySeq
  <2> QED
    BY <1>5, <2>1, <2>2, <2>3, <2>4
<1>9. /\ Stepped(r) = [w EXCEPT !.at = "look", !.n = @ + 1, !.todo = list]
      /\ w.n + 1 \in 0..MaxCatchup
  BY <1>1, CatchupAssumption DEF Stepped, list, a, c, Current, GoesOn, Walks
<1>10. /\ Stepped(r).at = "look" /\ Stepped(r).n = w.n + 1 /\ Stepped(r).todo = list
       /\ Stepped(r).end = w.end
       /\ Stepped(r) \in Walks
  BY <1>1, <1>7, <1>9 DEF Walks, Stages
<1>11. \A i, j \in DOMAIN list : list[i].rule = list[j].rule => i = j
  <2>1. \A i \in DOMAIN list : list[i].rule = w.todo[i].rule
    BY <1>2, <1>4, <1>8
  <2> QED
    BY <1>1, <1>8, <2>1 DEF Sound
<1>12. Sound(Stepped(r))
  BY <1>8, <1>10, <1>11 DEF Sound
<1> QED
  BY <1>1, <1>4, <1>8, <1>10, <1>12 DEF a, c

(* A new label, where it fits, leaves the rest. *)
LEMMA RelabelFacts ==
    ASSUME Shape, NEW r \in Requests, request[r].todo # <<>>,
           NEW label \in {"look", "create", "save"},
           label = "create" => GoesOn(r), label = "save" => request[r].n > 0
    PROVE  LET w == [request[r] EXCEPT !.at = label] IN
           /\ Sound(w) /\ w.end <= today /\ w.at = label /\ w.n = request[r].n
           /\ w.todo = request[r].todo
PROOF
<1>1. Sound(request[r]) /\ request[r].end <= today /\ request[r] \in Walks
  BY RequestSound DEF Sound
<1> QED
  BY <1>1 DEF Sound, Walks, Stages, GoesOn, Current
-----------------------------------------------------------------------------
(* Placed, for one request over given rules.                               *)
InPlace(w, rules, apart) == \A i \in DOMAIN w.todo : w.todo[i].rule \notin apart =>
    /\ rules[w.todo[i].rule].status = "active"
    /\ IF i = 1 /\ w.n > 0 THEN rules[w.todo[i].rule].next < w.todo[i].next
       ELSE w.todo[i].next = rules[w.todo[i].rule].next

LEMMA PlacedMeans ==
    ASSUME Shape, Placed, NEW r \in Requests
    PROVE  InPlace(request[r], rule, raced)
PROOF
  BY DEF Placed, InPlace, Active

(* Rules held by a request are held by it alone, before and after a step   *)
(* that gives it no other.                                                 *)
LEMMA AloneOfStep ==
    ASSUME Alone, Numbers, NEW r \in Requests, NEW w, request' = [request EXCEPT ![r] = w],
           \A q \in Rules : Has(w, q) => Has(request[r], q), raced \subseteq raced'
    PROVE  Alone'
PROOF
<1>1. \A p \in Requests : request'[p] = IF p = r THEN w ELSE request[p]
  BY DEF Numbers
<1>2. \A p \in Requests, q \in Rules : Has(request'[p], q) => Has(request[p], q)
  BY <1>1
<1> QED
  BY <1>2 DEF Alone, Holds, Has

(* Copies stay in place when the rules that move belong to that request.   *)
LEMMA PlacedOfStep ==
    ASSUME Shape, Alone, Placed, NEW r \in Requests, NEW w,
           request' = [request EXCEPT ![r] = w], raced \subseteq raced',
           InPlace(w, rule', raced'),
           \A q \in Rules : rule'[q] = rule[q] \/ q \in raced' \/ Has(request[r], q)
    PROVE  Placed'
PROOF
<1>1. /\ \A p \in Requests : request'[p] = IF p = r THEN w ELSE request[p]
      /\ \A p \in Requests : InPlace(request[p], rule, raced)
      /\ \A p \in Requests : \A i \in DOMAIN request[p].todo : request[p].todo[i].rule \in Rules
  BY NumbersHold, PlacedMeans, RuleOf DEF Numbers
<1>2. ASSUME NEW p \in Requests, p # r PROVE InPlace(request'[p], rule', raced')
  <2> SUFFICES ASSUME NEW i \in DOMAIN request[p].todo,
                      request[p].todo[i].rule \notin raced'
               PROVE  rule'[request[p].todo[i].rule] = rule[request[p].todo[i].rule]
    BY <1>1, <1>2 DEF InPlace
  <2>1. Has(request[p], request[p].todo[i].rule) /\ request[p].todo[i].rule \in Rules \ raced
    BY <1>1 DEF Has
  <2>2. ~Has(request[r], request[p].todo[i].rule)
    BY <1>2, <2>1 DEF Alone, Holds, Has
  <2> QED
    BY <2>1, <2>2
<1>3. \A p \in Requests : InPlace(request'[p], rule', raced')
  BY <1>1, <1>2
<1> QED
  BY <1>3 DEF Placed, InPlace, Active

(* Drafts stay behind when the rules move forward only, and what the       *)
(* request had walked is saved or carried on.                              *)
LEMMA BehindOfStep ==
    ASSUME Shape, Shape', Behind, NEW r \in Requests, NEW w,
           request' = [request EXCEPT ![r] = w], raced \subseteq raced', reset \subseteq reset',
           \A q \in Rules \ (raced' \cup reset') :
              /\ rule[q].next <= rule'[q].next
              /\ Walked(r, q) =>
                    \/ Current(r).next <= rule'[q].next
                    \/ w.n > 0 /\ Head(w.todo).rule = q /\ Current(r).next <= Head(w.todo).next
              /\ \A d \in Days : made'[q][d] > 0 =>
                    \/ made[q][d] > 0
                    \/ w.n > 0 /\ Head(w.todo).rule = q /\ d < Head(w.todo).next
    PROVE  Behind'
PROOF
<1>1. /\ Days \subseteq Nat
      /\ \A p \in Requests : request'[p] = IF p = r THEN w ELSE request[p]
      /\ \A q \in Rules : rule[q].next \in Nat /\ rule'[q].next \in Nat
  BY NumbersHold, CalendarAssumption DEF Numbers, Shape, TypeOK
<1>2. \A p \in Requests : request[p].n > 0 => Current(p).next \in Nat
  <2> SUFFICES ASSUME NEW p \in Requests, request[p].n > 0 PROVE Current(p).next \in Nat
    OBVIOUS
  <2>1. Sound(request[p]) /\ request[p].n # 0
    BY RequestSound
  <2>2. request[p].todo # <<>> /\ request[p].todo \in Seq(Copies)
    BY <2>1 DEF Sound, Walks
  <2> QED
    BY <1>1, <2>2, ListFacts DEF Current, Copies
<1>3. w.n > 0 => Head(w.todo).next \in Nat
  <2> SUFFICES ASSUME w.n > 0 PROVE Head(w.todo).next \in Nat
    OBVIOUS
  <2>1. Sound(w)
    BY <1>1 DEF Shape, TypeOK, Fitting, Once, Sound, Walks, Copies, Stages, GoesOn, Current
  <2>2. w.todo # <<>> /\ w.todo \in Seq(Copies)
    BY <2>1 DEF Sound, Walks
  <2> QED
    BY <1>1, <2>2, ListFacts DEF Copies
<1> SUFFICES ASSUME NEW q \in Rules \ (raced' \cup reset'), NEW d \in Days, made'[q][d] > 0
             PROVE  \/ d < rule'[q].next
                    \/ \E p \in Requests : /\ request'[p].n > 0 /\ Head(request'[p].todo).rule = q
                                           /\ d < Head(request'[p].todo).next
  BY DEF Behind, Walked, Current
<1>4. CASE w.n > 0 /\ Head(w.todo).rule = q /\ d < Head(w.todo).next
  BY <1>1, <1>4
<1>5. CASE made[q][d] > 0 /\ d < rule[q].next
  BY <1>1, <1>5
<1>6. ASSUME NEW p \in Requests, Walked(p, q), d < Current(p).next
      PROVE  \/ d < rule'[q].next
             \/ \E x \in Requests : /\ request'[x].n > 0 /\ Head(request'[x].todo).rule = q
                                    /\ d < Head(request'[x].todo).next
  <2>1. CASE p = r
    BY <1>1, <1>2, <1>3, <1>6, <2>1 DEF Walked
  <2>2. CASE p # r
    BY <1>1, <1>6, <2>2 DEF Walked, Current
  <2> QED
    BY <2>1, <2>2
<1> QED
  BY <1>4, <1>5, <1>6 DEF Behind
-----------------------------------------------------------------------------
(* The head of a request that is not idle. *)
LEMMA HeadFacts ==
    ASSUME Shape, NEW r \in Requests, request[r].todo # <<>>
    PROVE  /\ Current(r) \in Copies /\ Current(r) = request[r].todo[1]
           /\ 1 \in DOMAIN request[r].todo /\ Has(request[r], Current(r).rule)
           /\ Current(r).rule \in Rules /\ Current(r).next \in Days
PROOF
<1>1. request[r].todo \in Seq(Copies)
  BY RequestSound DEF Sound, Walks
<1> QED
  BY <1>1, ListFacts DEF Current, Has, Copies

LEMMA InvShape == Inv => Shape
PROOF
  BY DEF Inv, Shape

(* A request gives a new place to its list, or drops the head of it.       *)
LEMMA WalkKeeps ==
    ASSUME Inv, NEW r \in Requests, NEW w,
           request' = [request EXCEPT ![r] = w], Sound(w), w.end <= today,
           UNCHANGED <<stored, today, raced>>, reset \subseteq reset', reset' \subseteq Rules,
           \/ /\ w.todo = request[r].todo /\ w.n = request[r].n
              /\ w.at = "create" => ~HasDraft(Current(r))
           \/ /\ w.n = 0 /\ w.at # "create"
              /\ \A i \in DOMAIN w.todo :
                    i + 1 \in DOMAIN request[r].todo /\ i + 1 # 1
                    /\ w.todo[i] = request[r].todo[i + 1]
              /\ request[r].n > 0 => Current(r).rule \in reset'
    PROVE  Inv'
PROOF
<1>0. Shape /\ Numbers /\ UNCHANGED <<rule, closed, shelved, live, made>>
  BY InvShape, NumbersHold DEF stored
<1>1. World
  <2>1. /\ rule \in [Rules -> [next : Days, interval : Intervals,
                               status : {"active", "paused", "archived"}]]
        /\ closed \subseteq Rules /\ shelved \subseteq Rules /\ today \in 0..Horizon
        /\ raced \subseteq Rules
        /\ live \in [Rules -> [Days -> Nat]] /\ made \in [Rules -> [Days -> 0..2]]
    BY DEF Inv, TypeOK
  <2> QED
    BY <1>0, <2>1, RulesAssumption DEF World, stored
<1>2. Shape'
  BY <1>0, <1>1, ShapeOfStep
<1>3. \A p \in Requests : request'[p] = IF p = r THEN w ELSE request[p]
  BY <1>0 DEF Numbers
<1>4. Alone'
  <2>1. \A q \in Rules : Has(w, q) => Has(request[r], q)
    BY DEF Has
  <2> QED
    BY <1>0, <2>1, AloneOfStep DEF Inv
<1>5. Placed'
  <2>1. InPlace(request[r], rule, raced)
    BY <1>0, PlacedMeans DEF Inv
  <2>2. InPlace(w, rule, raced)
    BY <2>1 DEF InPlace
  <2> QED
    BY <1>0, <2>2, PlacedOfStep DEF Inv
<1>6. Found'
  <2> SUFFICES ASSUME NEW p \in Requests, request'[p].at = "create",
                      Head(request'[p].todo).rule \notin raced'
               PROVE  ~(live'[Head(request'[p].todo).rule][Head(request'[p].todo).next] > 0)
    BY DEF Found, HasDraft, Current
  <2>1. CASE p = r
    BY <1>0, <1>3, <2>1 DEF HasDraft, Current
  <2>2. CASE p # r
    BY <1>0, <1>3, <2>2 DEF Inv, Found, HasDraft, Current
  <2> QED
    BY <2>1, <2>2
<1>7. Behind'
  <2>1. \A q \in Rules : rule[q].next \in Nat
    BY <1>0 DEF Inv, TypeOK, Numbers
  <2>2. request[r].n > 0 => Current(r).next \in Nat
    <3>1. request[r].n > 0 => request[r].todo # <<>>
      BY <1>0, RequestSound DEF Sound
    <3> QED
      BY <1>0, <3>1, HeadFacts DEF Numbers
  <2>3. \A q \in Rules \ (raced' \cup reset') : Walked(r, q) =>
           w.n > 0 /\ Head(w.todo).rule = q /\ Current(r).next <= Head(w.todo).next
    BY <2>2 DEF Walked, Current
  <2>4. rule' = rule /\ made' = made /\ raced \subseteq raced' /\ Behind
    BY <1>0 DEF Inv
  <2>5. \A q \in Rules : rule[q].next <= rule'[q].next
    BY <2>1, <2>4
  <2>6. \A q \in Rules \ (raced' \cup reset') :
           /\ rule[q].next <= rule'[q].next
           /\ Walked(r, q) =>
                 \/ Current(r).next <= rule'[q].next
                 \/ w.n > 0 /\ Head(w.todo).rule = q /\ Current(r).next <= Head(w.todo).next
           /\ \A d \in Days : made'[q][d] > 0 =>
                 \/ made[q][d] > 0
                 \/ w.n > 0 /\ Head(w.todo).rule = q /\ d < Head(w.todo).next
    BY <2>3, <2>4, <2>5
  <2> QED
    BY <1>0, <1>2, <2>4, <2>6, BehindOfStep
<1> QED
  BY <1>0, <1>2, <1>4, <1>5, <1>6, <1>7 DEF Inv, Shape, OneDraftPerDate, RemadeHasCause

(* A date is done with, whether its draft was there or is made now.        *)
LEMMA StepKeeps ==
    ASSUME Inv, NEW r \in Requests, request[r].todo # <<>>, GoesOn(r),
           request' = [request EXCEPT ![r] = Stepped(r)],
           UNCHANGED <<rule, closed, shelved, today, raced, reset>>,
           live' \in [Rules -> [Days -> Nat]], made' \in [Rules -> [Days -> 0..2]],
           \A q \in Rules, d \in Days : q # Current(r).rule \/ d # Current(r).next =>
              live'[q][d] = live[q][d] /\ made'[q][d] = made[q][d],
           Current(r).rule \notin raced => live'[Current(r).rule][Current(r).next] <= 1,
           Current(r).rule \notin raced \cup reset => made'[Current(r).rule][Current(r).next] <= 1
    PROVE  Inv'
PROOF
<1> DEFINE w == Stepped(r)
<1>0. Shape /\ Numbers
  BY InvShape, NumbersHold
<1>1. World
  <2>1. /\ rule' = rule /\ closed' = closed /\ shelved' = shelved /\ today' = today
        /\ raced' = raced /\ reset' = reset
        /\ today \in Nat
    BY <1>0 DEF Numbers
  <2>2. /\ rule \in [Rules -> [next : Days, interval : Intervals,
                              status : {"active", "paused", "archived"}]]
        /\ closed \subseteq Rules /\ shelved \subseteq Rules /\ today \in 0..Horizon
        /\ raced \subseteq Rules /\ reset \subseteq Rules
    BY DEF Inv, TypeOK
  <2>3. today <= today
    BY <2>1
  <2> QED
    BY <2>1, <2>2, <2>3 DEF World
<1>2. /\ Sound(w) /\ w.end <= today /\ w.n = request[r].n + 1 /\ w.at = "look"
      /\ DOMAIN w.todo = DOMAIN request[r].todo
      /\ w.todo[1] = Advanced(Current(r)) /\ w.todo # <<>>
      /\ Advanced(Current(r)).rule = Current(r).rule
      /\ Current(r).next < Advanced(Current(r)).next
      /\ \A i \in DOMAIN request[r].todo \ {1} : w.todo[i] = request[r].todo[i]
  BY <1>0, SteppedFacts
<1>3. /\ Current(r) = request[r].todo[1] /\ 1 \in DOMAIN request[r].todo
      /\ Current(r).rule \in Rules /\ Current(r).next \in Days /\ Has(request[r], Current(r).rule)
      /\ Head(w.todo) = Advanced(Current(r)) /\ Head(w.todo).next \in Nat
      /\ request[r].n \in Nat /\ w.n > 0
  <2>1. Head(w.todo) = w.todo[1] /\ Head(w.todo) \in Copies
    BY <1>2, ListFacts DEF Sound, Walks
  <2>2. request[r].n \in Nat
    BY <1>0, CatchupAssumption DEF Numbers, Walks
  <2> QED
    BY <1>0, <1>2, <2>1, <2>2, HeadFacts DEF Numbers, Copies
<1> HIDE DEF w
<1>3a. request' = [request EXCEPT ![r] = w]
  BY DEF w
<1>4. Shape'
  BY <1>0, <1>1, <1>2, <1>3a, ShapeOfStep
<1>5. \A p \in Requests : request'[p] = IF p = r THEN w ELSE request[p]
  BY <1>0, <1>3a DEF Numbers
<1>6. Alone'
  <2>1. \A q \in Rules : Has(w, q) => Has(request[r], q)
    <3>1. \A i \in DOMAIN w.todo : w.todo[i].rule = request[r].todo[i].rule
      <4> SUFFICES ASSUME NEW i \in DOMAIN w.todo
                   PROVE  w.todo[i].rule = request[r].todo[i].rule
        OBVIOUS
      <4>1. CASE i = 1
        BY <1>2, <1>3, <4>1
      <4>2. CASE i # 1
        BY <1>2, <4>2
      <4> QED
        BY <4>1, <4>2
    <3> QED
      BY <1>2, <3>1 DEF Has
  <2> QED
    BY <1>0, <1>3a, <2>1, AloneOfStep DEF Inv
<1>7. Placed'
  <2>1. InPlace(request[r], rule, raced)
    BY <1>0, PlacedMeans DEF Inv
  <2>2. InPlace(w, rule, raced)
    <3> SUFFICES ASSUME NEW i \in DOMAIN w.todo, w.todo[i].rule \notin raced
                 PROVE  /\ rule[w.todo[i].rule].status = "active"
                        /\ IF i = 1 /\ w.n > 0 THEN rule[w.todo[i].rule].next < w.todo[i].next
                           ELSE w.todo[i].next = rule[w.todo[i].rule].next
      BY DEF InPlace
    <3>1. CASE i = 1
      <4>1. /\ rule[Current(r).rule].status = "active"
            /\ rule[Current(r).rule].next <= Current(r).next
            /\ rule[Current(r).rule].next \in Nat /\ Current(r).next \in Nat
        <5>1. Current(r).rule \notin raced
          BY <1>2, <1>3, <3>1
        <5>2. /\ rule[Current(r).rule].status = "active"
              /\ \/ rule[Current(r).rule].next < Current(r).next
                 \/ Current(r).next = rule[Current(r).rule].next
          BY <1>3, <2>1, <5>1 DEF InPlace
        <5>3. rule[Current(r).rule].next \in Nat /\ Current(r).next \in Nat
          BY <1>0, <1>3 DEF Numbers
        <5> QED
          BY <5>2, <5>3
      <4>2. /\ w.todo[i].rule = Current(r).rule /\ w.todo[i].next \in Nat
            /\ Current(r).next < w.todo[i].next
        BY <1>2, <1>3, <3>1
      <4> QED
        BY <1>3, <3>1, <4>1, <4>2
    <3>2. CASE i # 1
      BY <1>2, <1>3, <2>1, <3>2 DEF InPlace
    <3> QED
      BY <3>1, <3>2
  <2> QED
    BY <1>0, <1>3a, <2>2, PlacedOfStep DEF Inv
<1>8. Found'
  <2> SUFFICES ASSUME NEW p \in Requests, request'[p].at = "create",
                      Head(request'[p].todo).rule \notin raced'
               PROVE  ~(live'[Head(request'[p].todo).rule][Head(request'[p].todo).next] > 0)
    BY DEF Found, HasDraft, Current
  <2>1. p # r /\ request'[p] = request[p]
    BY <1>2, <1>5
  <2>2. request[p].todo # <<>>
    BY <1>0, <2>1, RequestSound DEF Sound
  <2>3. /\ Has(request[p], Current(p).rule)
        /\ Current(p).rule \in Rules \ raced /\ Current(p).next \in Days
    BY <1>0, <2>1, <2>2, HeadFacts DEF Current
  <2>4. Current(p).rule # Current(r).rule
    BY <1>3, <2>1, <2>3 DEF Inv, Alone, Holds, Has
  <2> QED
    BY <2>1, <2>3, <2>4 DEF Inv, Found, HasDraft, Current
<1>9. Behind'
  <2>1. Days \subseteq Nat /\ \A q \in Rules : rule[q].next \in Nat
    BY <1>0 DEF Inv, TypeOK, Numbers
  <2>2. \A q \in Rules : Walked(r, q) =>
           w.n > 0 /\ Head(w.todo).rule = q /\ Current(r).next <= Head(w.todo).next
    <3>1. /\ Current(r).next \in Nat /\ Current(r).next <= Head(w.todo).next
          /\ Head(w.todo).rule = Current(r).rule
      <4>1. Current(r).next \in Nat
        BY <1>3, <2>1
      <4>2. Current(r).next < Head(w.todo).next
        BY <1>2, <1>3
      <4>3. Head(w.todo).rule = Current(r).rule
        BY <1>2, <1>3
      <4>4. Head(w.todo).next \in Nat
        BY <1>3
      <4> QED
        BY <4>1, <4>2, <4>3, <4>4
    <3> QED
      BY <1>3, <3>1 DEF Walked
  <2>3. \A q \in Rules, d \in Days : made'[q][d] > 0 =>
           \/ made[q][d] > 0
           \/ w.n > 0 /\ Head(w.todo).rule = q /\ d < Head(w.todo).next
    BY <1>2, <1>3
  <2> QED
    <3>1. /\ rule' = rule /\ raced \subseteq raced' /\ reset \subseteq reset' /\ Behind
      BY DEF Inv
    <3>2. \A q \in Rules : rule[q].next <= rule'[q].next
      BY <2>1, <3>1
    <3>3. \A q \in Rules \ (raced' \cup reset') :
             /\ rule[q].next <= rule'[q].next
             /\ Walked(r, q) =>
                   \/ Current(r).next <= rule'[q].next
                   \/ w.n > 0 /\ Head(w.todo).rule = q /\ Current(r).next <= Head(w.todo).next
             /\ \A d \in Days : made'[q][d] > 0 =>
                   \/ made[q][d] > 0
                   \/ w.n > 0 /\ Head(w.todo).rule = q /\ d < Head(w.todo).next
      BY <2>2, <2>3, <3>2
    <3> QED
      BY <1>0, <1>3a, <1>4, <3>1, <3>3, BehindOfStep
<1>10. OneDraftPerDate' /\ RemadeHasCause'
  <2>1. ASSUME NEW q \in Rules \ raced', NEW d \in Days PROVE live'[q][d] <= 1
    BY DEF Inv, OneDraftPerDate
  <2>2. ASSUME NEW q \in Rules \ (raced' \cup reset'), NEW d \in Days PROVE made'[q][d] <= 1
    BY DEF Inv, RemadeHasCause
  <2> QED
    BY <2>1, <2>2 DEF OneDraftPerDate, RemadeHasCause
<1> QED
  BY <1>4, <1>6, <1>7, <1>8, <1>9, <1>10 DEF Inv, Shape
-----------------------------------------------------------------------------
(* The steps of a request keep the invariant. *)
LEMMA CheckKeeps ==
    ASSUME Inv, NEW r \in Requests, Check(r)
    PROVE  Inv'
PROOF
<1>1. Shape /\ request[r].todo # <<>> /\ request[r].n = 0
  BY InvShape, RequestSound DEF Check, Sound
<1>2. UNCHANGED <<stored, today, raced>> /\ reset' = reset /\ reset \subseteq Rules
  BY DEF Check, history, Inv, TypeOK
<1>3. CASE Barred(Current(r).rule)
  <2>1. request' = [request EXCEPT ![r] = Idle]
    BY <1>3 DEF Check
  <2>2. DOMAIN Idle.todo = {} /\ Idle.at # "create" /\ Idle.end <= today
    BY <1>1, IdleSound, EmptySeq, RulesAssumption DEF Idle, Shape, TypeOK
  <2>3. /\ reset \subseteq reset' /\ reset' \subseteq Rules
        /\ request[r].n > 0 => Current(r).rule \in reset'
    BY <1>1, <1>2
  <2> QED
    BY <1>2, <2>1, <2>2, <2>3, IdleSound, WalkKeeps
<1>4. CASE ~Barred(Current(r).rule)
  <2> DEFINE w == [request[r] EXCEPT !.at = "look"]
  <2>1. /\ Sound(w) /\ w.end <= today /\ w.at = "look" /\ w.n = request[r].n
        /\ w.todo = request[r].todo
    BY <1>1, RelabelFacts
  <2>2. request' = [request EXCEPT ![r] = w]
    BY <1>4 DEF Check
  <2> HIDE DEF w
  <2>3. w.at # "create"
    BY <2>1
  <2> QED
    BY <1>2, <2>1, <2>2, <2>3, WalkKeeps
<1> QED
  BY <1>3, <1>4

LEMMA LookKeeps ==
    ASSUME Inv, NEW r \in Requests, Look(r)
    PROVE  Inv'
PROOF
<1>1. Shape /\ request[r].todo # <<>> /\ request[r].n \in Nat
  BY InvShape, RequestSound, CatchupAssumption DEF Look, Sound, Walks
<1>2. /\ UNCHANGED <<stored, today, raced, reset>>
      /\ reset \subseteq reset' /\ reset' \subseteq Rules
  BY DEF Look, history, Inv, TypeOK
<1>3. ASSUME NEW label \in {"look", "create", "save"},
             request' = [request EXCEPT ![r] = [request[r] EXCEPT !.at = label]],
             label = "create" => GoesOn(r) /\ ~HasDraft(Current(r)),
             label = "save" => request[r].n > 0
      PROVE  Inv'
  <2> DEFINE w == [request[r] EXCEPT !.at = label]
  <2>1. /\ Sound(w) /\ w.end <= today /\ w.at = label /\ w.n = request[r].n
        /\ w.todo = request[r].todo
    BY <1>1, <1>3, RelabelFacts
  <2>2. request' = [request EXCEPT ![r] = w]
    BY <1>3
  <2> HIDE DEF w
  <2> QED
    BY <1>2, <1>3, <2>1, <2>2, WalkKeeps
<1>4. CASE ~GoesOn(r) /\ request[r].n > 0
  BY <1>3, <1>4 DEF Look
<1>5. CASE ~GoesOn(r) /\ ~(request[r].n > 0)
  <2>1. request' = [request EXCEPT ![r] = NextRule(r)]
    BY <1>5 DEF Look
  <2> QED
    BY <1>1, <1>2, <1>5, <2>1, NextRuleFacts, WalkKeeps
<1>6. CASE GoesOn(r) /\ HasDraft(Current(r))
  <2>1. request' = [request EXCEPT ![r] = Stepped(r)]
    BY <1>6 DEF Look
  <2>2. UNCHANGED <<rule, closed, shelved, live, made>>
    BY <1>2 DEF stored
  <2>3. Current(r).rule \in Rules /\ Current(r).next \in Days
    BY <1>1, HeadFacts
  <2> QED
    BY <1>1, <1>2, <1>6, <2>1, <2>2, <2>3, StepKeeps
    DEF Inv, TypeOK, OneDraftPerDate, RemadeHasCause
<1>7. CASE GoesOn(r) /\ ~HasDraft(Current(r))
  BY <1>3, <1>7 DEF Look
<1> QED
  BY <1>4, <1>5, <1>6, <1>7

(* No draft of the date was there or had been made. *)
LEMMA CreateKeeps ==
    ASSUME Inv, NEW r \in Requests, Create(r)
    PROVE  Inv'
PROOF
<1> DEFINE q == Current(r).rule
<1> DEFINE d == Current(r).next
<1>1. Shape /\ request[r].todo # <<>> /\ GoesOn(r)
  BY InvShape, RequestSound DEF Create, Sound, GoesOn, Current
<1>2. /\ q \in Rules /\ d \in Days /\ Has(request[r], q) /\ Days \subseteq Nat
      /\ Current(r) = request[r].todo[1] /\ 1 \in DOMAIN request[r].todo
      /\ rule[q].next \in Nat
  BY <1>1, HeadFacts, NumbersHold DEF Numbers, Inv, TypeOK
<1>2b. live[q][d] \in Nat /\ made[q][d] \in Nat
  <2>1. live \in [Rules -> [Days -> Nat]] /\ made \in [Rules -> [Days -> 0..2]]
    BY DEF Inv, TypeOK
  <2>2. q \in Rules /\ d \in Days
    BY <1>2
  <2> HIDE DEF q, d
  <2> QED
    BY <2>1, <2>2
<1>2c. request[r].at = "create" /\ Current(r).rule = q /\ Current(r).next = d
  BY DEF Create
<1> HIDE DEF q, d
<1>3. q \notin raced => live[q][d] = 0
  <2>1. q \notin raced => ~(live[q][d] > 0)
    BY <1>2c DEF Inv, Found, HasDraft
  <2> QED
    BY <1>2b, <2>1
<1>4. q \notin raced \cup reset => made[q][d] = 0
  <2> SUFFICES ASSUME q \notin raced \cup reset, made[q][d] # 0 PROVE FALSE
    OBVIOUS
  <2>1. made[q][d] > 0
    BY <1>2b
  <2>2. rule[q].next <= d
    <3>1. InPlace(request[r], rule, raced)
      BY <1>1, PlacedMeans DEF Inv
    <3>2. /\ request[r].todo[1].rule = q /\ request[r].todo[1].next = d
          /\ 1 \in DOMAIN request[r].todo /\ q \notin raced
      BY <1>2, <1>2c
    <3>3. rule[q].next < d \/ d = rule[q].next
      BY <3>1, <3>2 DEF InPlace
    <3> QED
      BY <1>2, <3>3
  <2>3. PICK p \in Requests : Walked(p, q) /\ d < Current(p).next
    <3>1. ~(d < rule[q].next) /\ q \in Rules \ (raced \cup reset)
      BY <1>2, <2>2
    <3> QED
      BY <1>2, <2>1, <3>1 DEF Inv, Behind
  <2>4. request[p].todo # <<>>
    BY <1>1, <2>3, RequestSound DEF Walked, Sound
  <2>5. Has(request[p], q)
    BY <1>1, <2>3, <2>4, HeadFacts DEF Walked
  <2>6. p = r
    BY <1>2, <2>5 DEF Inv, Alone, Holds, Has
  <2> QED
    BY <1>2, <1>2c, <2>3, <2>6
<1>5. /\ request' = [request EXCEPT ![r] = Stepped(r)]
      /\ UNCHANGED <<rule, closed, shelved, today, raced, reset>>
      /\ live' = [live EXCEPT ![q][d] = @ + 1]
      /\ made' = [made EXCEPT ![q][d] = IF @ = 2 THEN 2 ELSE @ + 1]
  BY <1>2c DEF Create, history
<1>6. /\ live' \in [Rules -> [Days -> Nat]] /\ made' \in [Rules -> [Days -> 0..2]]
      /\ live'[q][d] = live[q][d] + 1
      /\ made'[q][d] = IF made[q][d] = 2 THEN 2 ELSE made[q][d] + 1
      /\ \A x \in Rules, y \in Days : x # q \/ y # d =>
            live'[x][y] = live[x][y] /\ made'[x][y] = made[x][y]
  <2>1. live \in [Rules -> [Days -> Nat]] /\ made \in [Rules -> [Days -> 0..2]]
    BY DEF Inv, TypeOK
  <2> QED
    BY <1>2, <1>5, <2>1
<1> QED
  <2>1. /\ q \notin raced => live'[q][d] <= 1
        /\ q \notin raced \cup reset => made'[q][d] <= 1
    BY <1>3, <1>4, <1>6
  <2> QED
    BY <1>1, <1>2c, <1>5, <1>6, <2>1, StepKeeps

(* The stored rule comes to where the walk ended. *)
LEMMA SaveKeeps ==
    ASSUME Inv, NEW r \in Requests, Save(r)
    PROVE  Inv'
PROOF
<1> DEFINE w == NextRule(r)
<1> DEFINE c == Current(r)
<1>1. Shape /\ Numbers /\ request[r].todo # <<>> /\ request[r].n > 0
  BY InvShape, NumbersHold, RequestSound DEF Save, Sound
<1>2. /\ c.rule \in Rules /\ c.next \in Days /\ Has(request[r], c.rule)
      /\ c = request[r].todo[1] /\ 1 \in DOMAIN request[r].todo
  BY <1>1, HeadFacts
<1>3. /\ Sound(w) /\ w.end <= today /\ w.n = 0 /\ w.at # "create"
      /\ \A i \in DOMAIN w.todo :
            /\ i + 1 \in DOMAIN request[r].todo /\ i + 1 # 1
            /\ w.todo[i] = request[r].todo[i + 1]
  BY <1>1, NextRuleFacts
<1>4. /\ request' = [request EXCEPT ![r] = w]
      /\ rule' = [rule EXCEPT ![c.rule].next = c.next]
      /\ UNCHANGED <<closed, shelved, live, made, today, raced, reset>>
  BY DEF Save, history
<1> HIDE DEF w, c
<1>5. /\ rule' \in [Rules -> [next : Days, interval : Intervals,
                              status : {"active", "paused", "archived"}]]
      /\ \A q \in Rules \ {c.rule} : rule'[q] = rule[q]
      /\ rule'[c.rule].next = c.next
  <2>1. /\ rule \in [Rules -> [next : Days, interval : Intervals,
                              status : {"active", "paused", "archived"}]]
        /\ rule' = [rule EXCEPT ![c.rule] = [rule[c.rule] EXCEPT !.next = c.next]]
    BY <1>4 DEF Inv, TypeOK
  <2>2. /\ [rule[c.rule] EXCEPT !.next = c.next] \in
              [next : Days, interval : Intervals, status : {"active", "paused", "archived"}]
        /\ [rule[c.rule] EXCEPT !.next = c.next].next = c.next
    BY <1>2, <2>1
  <2> QED
    BY <1>2, <2>1, <2>2
<1>6. World
  BY <1>4, <1>5, RulesAssumption DEF Inv, TypeOK, World
<1>7. Shape'
  BY <1>1, <1>3, <1>4, <1>6, ShapeOfStep
<1>8. \A p \in Requests : request'[p] = IF p = r THEN w ELSE request[p]
  BY <1>1, <1>4 DEF Numbers
<1>9. Alone'
  <2>1. \A q \in Rules : Has(w, q) => Has(request[r], q)
    BY <1>3 DEF Has
  <2> QED
    BY <1>1, <1>4, <2>1, AloneOfStep DEF Inv
<1>10. Placed'
  <2>1. InPlace(request[r], rule, raced)
    BY <1>1, PlacedMeans DEF Inv
  <2>2. \A i \in DOMAIN w.todo : w.todo[i].rule # c.rule /\ w.todo[i].rule \in Rules
    <3>1. \A i \in DOMAIN request[r].todo : request[r].todo[i].rule \in Rules
      BY <1>1, RuleOf
    <3>2. \A i \in DOMAIN request[r].todo : request[r].todo[i].rule = c.rule => i = 1
      BY <1>2 DEF Inv, Once
    <3> QED
      BY <1>3, <3>1, <3>2
  <2>3. InPlace(w, rule', raced')
    BY <1>3, <1>4, <1>5, <2>1, <2>2 DEF InPlace
  <2> QED
    <3>1. \A q \in Rules : rule'[q] = rule[q] \/ q \in raced' \/ Has(request[r], q)
      BY <1>2, <1>5
    <3>2. raced \subseteq raced' /\ Alone /\ Placed
      BY <1>4 DEF Inv
    <3> QED
      BY <1>1, <1>4, <2>3, <3>1, <3>2, PlacedOfStep
<1>11. Found'
  <2> SUFFICES ASSUME NEW p \in Requests, request'[p].at = "create",
                      Head(request'[p].todo).rule \notin raced'
               PROVE  ~(live'[Head(request'[p].todo).rule][Head(request'[p].todo).next] > 0)
    BY DEF Found, HasDraft, Current
  <2> QED
    BY <1>3, <1>4, <1>8 DEF Inv, Found, HasDraft, Current
<1>12. Behind'
  <2>1. /\ Days \subseteq Nat /\ \A q \in Rules : rule[q].next \in Nat /\ rule'[q].next \in Nat
    BY <1>1, <1>5 DEF Inv, TypeOK, Numbers
  <2>2. \A q \in Rules \ raced : rule[q].next <= rule'[q].next
    <3>1. c.rule \notin raced => rule[c.rule].next < c.next
      BY <1>1, <1>2 DEF Inv, Placed
    <3> QED
      BY <1>2, <1>5, <2>1, <3>1
  <2>3. \A q \in Rules : Walked(r, q) => Current(r).next <= rule'[q].next
    BY <1>5, <2>1 DEF Walked, c
  <2> QED
    BY <1>1, <1>4, <1>7, <2>2, <2>3, BehindOfStep DEF Inv
<1> QED
  BY <1>4, <1>7, <1>9, <1>10, <1>11, <1>12 DEF Inv, Shape, OneDraftPerDate, RemadeHasCause

(* What was walked and is not saved is remembered as reset. *)
LEMMA FailKeeps ==
    ASSUME Inv, NEW r \in Requests, Fail(r)
    PROVE  Inv'
PROOF
<1>1. Shape /\ request[r].todo # <<>> /\ Current(r).rule \in Rules
  BY InvShape, RequestSound, HeadFacts DEF Fail, Sound
<1>2. /\ request' = [request EXCEPT ![r] = Idle] /\ UNCHANGED <<stored, today, raced>>
      /\ reset \subseteq reset' /\ reset' \subseteq Rules
      /\ request[r].n > 0 => Current(r).rule \in reset'
  BY <1>1 DEF Fail, Inv, TypeOK
<1>3. DOMAIN Idle.todo = {} /\ Idle.at # "create" /\ Idle.end <= today
  BY <1>1, IdleSound, EmptySeq, RulesAssumption DEF Idle, Shape, TypeOK
<1> QED
  BY <1>2, <1>3, IdleSound, WalkKeeps

(* A request begins with copies of rules that are due, each of them once.  *)
LEMMA BeginKeeps ==
    ASSUME Inv, NEW r \in Requests, NEW todo \in Seq(Copies), Begin(r, todo),
           \A i \in DOMAIN todo : todo[i] = Copy(todo[i].rule) /\ Active(todo[i].rule),
           \A i, j \in DOMAIN todo : todo[i].rule = todo[j].rule => i = j
    PROVE  Inv'
PROOF
<1> DEFINE w == [Idle EXCEPT !.at = "rule", !.end = today, !.todo = todo]
<1>1. /\ Shape /\ Numbers /\ request[r].at = "idle" /\ todo # <<>>
      /\ request' = [request EXCEPT ![r] = w]
      /\ UNCHANGED <<rule, closed, shelved, live, made, today, reset>>
      /\ raced' = raced \cup {q \in Rules : Held(q) /\ \E i \in DOMAIN todo : todo[i].rule = q}
  BY InvShape, NumbersHold DEF Begin, stored
<1>2. w.at = "rule" /\ w.end = today /\ w.todo = todo /\ w.n = 0
  BY DEF Idle
<1>3. w \in Walks
  <2>1. Idle \in Walks
    BY IdleSound DEF Sound
  <2>2. today \in 0..Horizon
    BY <1>1 DEF Numbers
  <2> QED
    BY <2>1, <2>2 DEF Walks, Stages
<1> HIDE DEF w
<1>4. Sound(w) /\ w.end <= today'
  <2>1. today <= today
    BY <1>1, RulesAssumption DEF Shape, TypeOK
  <2> QED
    BY <1>1, <1>2, <1>3, <2>1 DEF Sound
<1>5. World
  BY <1>1, RulesAssumption DEF Inv, TypeOK, World
<1>6. Shape'
  BY <1>1, <1>4, <1>5, ShapeOfStep
<1>7. /\ \A p \in Requests : request'[p] = IF p = r THEN w ELSE request[p]
      /\ request[r].todo = <<>> /\ DOMAIN request[r].todo = {} /\ request[r].n = 0
  <2>1. request[r].todo = <<>> /\ request[r].n = 0
    BY <1>1, RequestSound DEF Sound
  <2> QED
    BY <1>1, <2>1, EmptySeq DEF Numbers
<1>8. \A p \in Requests, q \in Rules \ raced' :
         Has(w, q) => ~Has(request[p], q)
  BY <1>1, <1>2 DEF Has, Held, Holds
<1>9. Alone'
  <2> SUFFICES ASSUME NEW q \in Rules \ raced', NEW x \in Requests, NEW y \in Requests,
                      Has(request'[x], q), Has(request'[y], q)
               PROVE  x = y
    BY DEF Alone, Holds, Has
  <2>1. Has(request[x], q) /\ Has(request[y], q) => x = y
    BY <1>1 DEF Inv, Alone, Holds, Has
  <2> QED
    BY <1>7, <1>8, <2>1
<1>10. Placed'
  <2>1. InPlace(w, rule', raced')
    BY <1>1, <1>2 DEF InPlace, Copy, Active
  <2> QED
    BY <1>1, <2>1, PlacedOfStep DEF Inv
<1>11. Found'
  <2> SUFFICES ASSUME NEW p \in Requests, request'[p].at = "create",
                      Head(request'[p].todo).rule \notin raced'
               PROVE  ~(live'[Head(request'[p].todo).rule][Head(request'[p].todo).next] > 0)
    BY DEF Found, HasDraft, Current
  <2> QED
    BY <1>1, <1>2, <1>7 DEF Inv, Found, HasDraft, Current
<1>12. Behind'
  <2>1. \A q \in Rules : rule[q].next \in Nat /\ ~Walked(r, q)
    BY <1>1, <1>7 DEF Inv, TypeOK, Numbers, Walked
  <2> QED
    <3>1. /\ rule' = rule /\ made' = made /\ raced \subseteq raced' /\ reset \subseteq reset'
          /\ Behind
      BY <1>1 DEF Inv
    <3>2. \A q \in Rules : rule[q].next <= rule'[q].next
      BY <2>1, <3>1
    <3> QED
      BY <1>1, <1>6, <2>1, <3>1, <3>2, BehindOfStep
<1> QED
  BY <1>1, <1>6, <1>9, <1>10, <1>11, <1>12 DEF Inv, Shape, OneDraftPerDate, RemadeHasCause

LEMMA GenerateKeeps ==
    ASSUME Inv, NEW r \in Requests, GenerateAll(r) \/ GenerateOne(r)
    PROVE  Inv'
PROOF
<1>1. \A q \in Rules : Copy(q) \in Copies /\ Copy(q).rule = q
  BY DEF Inv, TypeOK, Copy, Copies
<1>2. CASE GenerateAll(r)
  <2> DEFINE due == {q \in Rules : Due(q)}
  <2> DEFINE n == Cardinality(due)
  <2>1. n \in Nat
    BY RulesAssumption, FS_Subset, FS_CardinalityType
  <2>2. PICK order \in [1..n -> due] :
           /\ \A i, j \in 1..n : i < j => order[i] # order[j]
           /\ Begin(r, [i \in 1..n |-> Copy(order[i])])
    BY <1>2 DEF GenerateAll
  <2> HIDE DEF n
  <2> DEFINE todo == [i \in 1..n |-> Copy(order[i])]
  <2>3. \A i \in 1..n : order[i] \in Rules /\ Active(order[i])
    BY DEF Due
  <2>4. todo \in Seq(Copies) /\ DOMAIN todo = 1..n
    BY <1>1, <2>1, <2>3, IsASeq
  <2>5. \A i \in DOMAIN todo : /\ todo[i].rule = order[i] /\ todo[i] = Copy(order[i])
    BY <1>1, <2>3
  <2>6. \A i, j \in DOMAIN todo : todo[i].rule = todo[j].rule => i = j
    BY <2>1, <2>2, <2>4, <2>5
  <2> HIDE DEF todo
  <2>7. Begin(r, todo)
    BY <2>2 DEF todo
  <2> QED
    BY <2>3, <2>4, <2>5, <2>6, <2>7, BeginKeeps
<1>3. CASE GenerateOne(r)
  <2>1. PICK q \in Rules : Due(q) /\ Begin(r, <<Copy(q)>>)
    BY <1>3 DEF GenerateOne
  <2>2. /\ <<Copy(q)>> \in Seq(Copies) /\ DOMAIN <<Copy(q)>> = {1} /\ <<Copy(q)>>[1] = Copy(q)
    BY <1>1
  <2> QED
    BY <1>1, <2>1, <2>2, BeginKeeps DEF Due
<1> QED
  BY <1>2, <1>3
-----------------------------------------------------------------------------
(* Drafts leave the inbox; days pass. *)
LEMMA UserKeeps ==
    ASSUME Inv, NextDay \/ \E q \in Rules, d \in 0..Horizon : Confirm(q, d) \/ Dismiss(q, d)
    PROVE  Inv'
PROOF
<1>0. Shape /\ Numbers
  BY InvShape, NumbersHold
<1>1. /\ UNCHANGED <<rule, closed, shelved, made, request, raced, reset>>
      /\ live' \in [Rules -> [Days -> Nat]]
      /\ \A q \in Rules, d \in Days : live'[q][d] <= live[q][d]
      /\ today' \in 0..Horizon /\ today <= today'
  <2>1. live \in [Rules -> [Days -> Nat]] /\ today \in 0..Horizon /\ 0..Horizon \subseteq Days
    BY CalendarAssumption DEF Inv, TypeOK
  <2>2. CASE NextDay
    <3>1. /\ UNCHANGED <<rule, closed, shelved, live, made, request, raced, reset>>
          /\ today < Horizon /\ today' = today + 1
      BY <2>2 DEF NextDay, stored, history
    <3>2. today' \in 0..Horizon /\ today <= today'
      BY <2>1, <3>1, RulesAssumption
    <3>3. \A q \in Rules, d \in Days : live[q][d] <= live[q][d]
      BY <2>1
    <3> QED
      BY <2>1, <3>1, <3>2, <3>3
  <2>3. ASSUME NEW q \in Rules, NEW d \in 0..Horizon, Confirm(q, d) \/ Dismiss(q, d)
        PROVE  /\ live' = [live EXCEPT ![q][d] = @ - 1] /\ live[q][d] > 0
               /\ UNCHANGED <<rule, closed, shelved, made, today, request, raced, reset>>
    BY <2>3 DEF Confirm, Dismiss, history
  <2>4. ASSUME NEW q \in Rules, NEW d \in 0..Horizon,
               live' = [live EXCEPT ![q][d] = @ - 1], live[q][d] > 0
        PROVE  /\ live' \in [Rules -> [Days -> Nat]]
               /\ \A x \in Rules, y \in Days : live'[x][y] <= live[x][y]
    BY <2>1, <2>4
  <2>5. CASE \E q \in Rules, d \in 0..Horizon : Confirm(q, d) \/ Dismiss(q, d)
    <3>1. PICK q \in Rules, d \in 0..Horizon : Confirm(q, d) \/ Dismiss(q, d)
      BY <2>5
    <3>2. today <= today
      BY <2>1, RulesAssumption
    <3> QED
      BY <2>1, <2>3, <2>4, <3>1, <3>2
  <2> QED
    BY <2>2, <2>5
<1>2. World
  BY <1>1 DEF Inv, TypeOK, World
<1>3. Shape'
  BY <1>0, <1>1, <1>2, ShapeSame
<1>4. Alone' /\ Placed'
  BY <1>1 DEF Inv, Alone, Holds, Placed, Active
<1>5. Found'
  <2> SUFFICES ASSUME NEW r \in Requests, request[r].at = "create", Current(r).rule \notin raced
               PROVE  ~(live'[Current(r).rule][Current(r).next] > 0)
    BY <1>1 DEF Found, HasDraft, Current
  <2>1. request[r].todo # <<>>
    BY <1>0, RequestSound DEF Sound
  <2>2. Current(r).rule \in Rules /\ Current(r).next \in Days
    BY <1>0, <2>1, HeadFacts
  <2> QED
    BY <1>1, <2>2 DEF Inv, Found, HasDraft, TypeOK
<1>6. Behind' /\ RemadeHasCause'
  BY <1>1 DEF Inv, Behind, Walked, Current, RemadeHasCause
<1>7. OneDraftPerDate'
  BY <1>1 DEF Inv, TypeOK, OneDraftPerDate
<1> QED
  BY <1>3, <1>4, <1>5, <1>6, <1>7 DEF Inv, Shape

(* Edits: a rule in the hands of a request counts as raced from then on,   *)
(* one set back as reset.                                                  *)
LEMMA TouchedKeeps ==
    ASSUME Inv, NEW q \in Rules, Touched(q), NEW new,
           rule' = [rule EXCEPT ![q] = new],
           new \in [next : Days, interval : Intervals, status : {"active", "paused", "archived"}],
           closed' \subseteq Rules, shelved' \subseteq Rules,
           reset' = reset \/ reset' = reset \cup {q},
           q \notin reset' => rule[q].next <= new.next
    PROVE  Inv'
PROOF
<1>0. Shape /\ Numbers
  BY InvShape, NumbersHold
<1>1. /\ UNCHANGED <<live, made, today, request>>
      /\ raced' = IF Held(q) THEN raced \cup {q} ELSE raced
      /\ raced \subseteq raced' /\ reset \subseteq reset'
      /\ raced' \subseteq Rules /\ reset' \subseteq Rules
      /\ rule' \in [Rules -> [next : Days, interval : Intervals,
                              status : {"active", "paused", "archived"}]]
      /\ \A x \in Rules : rule'[x] = IF x = q THEN new ELSE rule[x]
  BY DEF Touched, Inv, TypeOK
<1>2. World
  BY <1>1, RulesAssumption DEF Inv, TypeOK, World
<1>3. Shape'
  BY <1>0, <1>1, <1>2, ShapeSame
<1>4. Alone'
  BY <1>1 DEF Inv, Alone, Holds
<1>5. Placed'
  <2> SUFFICES ASSUME NEW r \in Requests, NEW i \in DOMAIN request[r].todo,
                      request[r].todo[i].rule \notin raced'
               PROVE  rule'[request[r].todo[i].rule] = rule[request[r].todo[i].rule]
    BY <1>1 DEF Inv, Placed, Active
  <2>1. request[r].todo[i].rule \in Rules
    BY <1>0, RuleOf
  <2> QED
    BY <1>1, <2>1 DEF Held, Holds
<1>6. Found' /\ OneDraftPerDate' /\ RemadeHasCause'
  BY <1>1 DEF Inv, Found, HasDraft, Current, OneDraftPerDate, RemadeHasCause
<1>7. Behind'
  <2>1. \A x \in Rules : rule[x].next \in Nat /\ rule'[x].next \in Nat
    BY <1>0, <1>1 DEF Inv, TypeOK, Numbers
  <2>2. \A x \in Rules \ reset' : rule[x].next <= rule'[x].next
    BY <1>1, <2>1
  <2>3. Days \subseteq Nat
    BY <1>0 DEF Numbers
  <2> QED
    BY <1>1, <2>1, <2>2, <2>3 DEF Inv, Behind, Walked, Current
<1> QED
  BY <1>3, <1>4, <1>5, <1>6, <1>7 DEF Inv, Shape

LEMMA EditsKeep ==
    ASSUME Inv, NEW q \in Rules,
           \/ Reschedule(q) \/ Reinterval(q) \/ Toggle(q) \/ Repoint(q)
           \/ Archive(q) \/ ArchiveAccount(q) \/ ArchiveCategory(q)
    PROVE  Inv'
PROOF
<1>1. /\ rule[q] \in [next : Days, interval : Intervals, status : {"active", "paused", "archived"}]
      /\ rule = [rule EXCEPT ![q] = rule[q]] /\ closed \subseteq Rules /\ shelved \subseteq Rules
      /\ 0..Horizon \subseteq Days /\ rule[q].next \in Nat
  <2>1. Days \subseteq Nat
    BY InvShape, NumbersHold DEF Numbers
  <2> QED
    BY <2>1, CalendarAssumption DEF Inv, TypeOK
<1>2. CASE Reschedule(q)
  <2>1. PICK d \in 0..Horizon :
           /\ rule' = [rule EXCEPT ![q] = [rule[q] EXCEPT !.next = d]]
           /\ reset' = IF d < rule[q].next THEN reset \cup {q} ELSE reset
    BY <1>2 DEF Reschedule
  <2>2. /\ [rule[q] EXCEPT !.next = d] \in
              [next : Days, interval : Intervals, status : {"active", "paused", "archived"}]
        /\ [rule[q] EXCEPT !.next = d].next = d
    BY <1>1
  <2>3. q \notin reset' => rule[q].next <= d
    BY <1>1, <2>1, RulesAssumption
  <2> QED
    BY <1>1, <1>2, <2>1, <2>2, <2>3, TouchedKeeps DEF Reschedule, Edited
<1>3. CASE Reinterval(q)
  <2>1. PICK i \in Intervals : rule' = [rule EXCEPT ![q] = [rule[q] EXCEPT !.interval = i]]
    BY <1>3 DEF Reinterval
  <2>2. /\ [rule[q] EXCEPT !.interval = i] \in
              [next : Days, interval : Intervals, status : {"active", "paused", "archived"}]
        /\ rule[q].next <= [rule[q] EXCEPT !.interval = i].next
    BY <1>1
  <2> QED
    BY <1>1, <1>3, <2>1, <2>2, TouchedKeeps DEF Reinterval, Edited
<1>4. ASSUME NEW status \in {"active", "paused", "archived"}, Edited(q),
             rule' = [rule EXCEPT ![q] = [rule[q] EXCEPT !.status = status]],
             UNCHANGED <<closed, shelved, reset>>
      PROVE  Inv'
  <2>1. /\ [rule[q] EXCEPT !.status = status] \in
              [next : Days, interval : Intervals, status : {"active", "paused", "archived"}]
        /\ rule[q].next <= [rule[q] EXCEPT !.status = status].next
    BY <1>1
  <2> QED
    BY <1>1, <1>4, <2>1, TouchedKeeps DEF Edited
<1>5. CASE Toggle(q)
  <2>1. (IF rule[q].status = "active" THEN "paused" ELSE "active") \in {"active", "paused", "archived"}
    OBVIOUS
  <2> QED
    BY <1>4, <1>5, <2>1 DEF Toggle
<1>6. CASE Archive(q)
  BY <1>4, <1>6 DEF Archive
<1>7. CASE Repoint(q) \/ ArchiveAccount(q) \/ ArchiveCategory(q)
  BY <1>1, <1>7, TouchedKeeps DEF Repoint, ArchiveAccount, ArchiveCategory, Edited
<1> QED
  BY <1>2, <1>3, <1>5, <1>6, <1>7
-----------------------------------------------------------------------------
LEMMA InitInv == Init => Inv
PROOF
<1> SUFFICES ASSUME Init PROVE Inv
  OBVIOUS
<1>1. /\ \A r \in Requests : request[r] = Idle
      /\ Sound(Idle) /\ Idle.at = "idle" /\ Idle.n = 0 /\ Idle.end = 0
      /\ Idle.todo = <<>> /\ DOMAIN Idle.todo = {} /\ Idle \in Walks
  BY IdleSound, EmptySeq DEF Init, Idle, Sound
<1>2. live = [q \in Rules |-> [d \in Days |-> 0]] /\ made = live
  BY DEF Init
<1>3. rule \in [Rules -> [next : Days, interval : Intervals,
                         status : {"active", "paused", "archived"}]]
  <2>1. \A q \in Rules : FirstRule[q].next \in Days /\ FirstRule[q].interval \in Intervals
    BY RulesAssumption, CalendarAssumption
  <2> QED
    BY <2>1 DEF Init
<1>4. request \in [Requests -> Walks]
  BY <1>1 DEF Init
<1>5. TypeOK
  BY <1>1, <1>2, <1>3, <1>4, RulesAssumption DEF Init, TypeOK, Walks, Stages, Copies
<1>6. Fitting /\ Once /\ Alone /\ Placed /\ Found
  BY <1>1 DEF Fitting, Once, Alone, Placed, Found, Holds
<1>7. Behind /\ OneDraftPerDate /\ RemadeHasCause
  BY <1>2 DEF Behind, OneDraftPerDate, RemadeHasCause
<1> QED
  BY <1>5, <1>6, <1>7 DEF Inv

LEMMA InvStep ==
    ASSUME Inv, [Next]_vars
    PROVE  Inv'
PROOF
<1>1. CASE UNCHANGED vars
  <2>1. UNCHANGED <<rule, closed, shelved, live, made, today, request, raced, reset>>
    BY <1>1 DEF vars, stored, history
  <2>2. TypeOK' /\ Fitting' /\ Once'
    BY <2>1 DEF Inv, TypeOK, Fitting, Once, GoesOn, Current
  <2>3. Alone' /\ Placed' /\ Found'
    BY <2>1 DEF Inv, Alone, Placed, Found, Holds, Active, HasDraft, Current
  <2>4. Behind' /\ OneDraftPerDate' /\ RemadeHasCause'
    BY <2>1 DEF Inv, Behind, Walked, Current, OneDraftPerDate, RemadeHasCause
  <2> QED
    BY <2>2, <2>3, <2>4 DEF Inv
<1>2. CASE Next
  BY <1>2, GenerateKeeps, CheckKeeps, LookKeeps, CreateKeeps, SaveKeeps, FailKeeps,
     UserKeeps, EditsKeep DEF Next, Step
<1> QED
  BY <1>1, <1>2

(* The drafts that are made are those of the rule in hand. *)
LEMMA SilentStep ==
    ASSUME Inv, [Next]_vars, NEW q \in Rules \ raced, made'[q] # made[q]
    PROVE  Active(q)
PROOF
<1>1. ASSUME NEW r \in Requests, Create(r) PROVE Active(q)
  <2>1. Shape /\ request[r].todo # <<>>
    BY <1>1, InvShape, RequestSound DEF Create, Sound
  <2>2. Current(r) = request[r].todo[1] /\ 1 \in DOMAIN request[r].todo
    BY <2>1, HeadFacts
  <2>3. Current(r).rule = q
    BY <1>1 DEF Create, Inv, TypeOK
  <2> QED
    BY <2>2, <2>3 DEF Inv, Placed
<1>2. CASE UNCHANGED made
  BY <1>2
<1>3. (\E r \in Requests : Create(r)) \/ UNCHANGED made
  BY DEF Next, vars, stored, NextDay, GenerateAll, GenerateOne, Begin, Step, Check, Look,
         Save, Fail, Confirm, Dismiss, Reschedule, Reinterval, Toggle, Repoint, Archive,
         ArchiveAccount, ArchiveCategory, Edited, Touched
<1> QED
  BY <1>1, <1>2, <1>3
-----------------------------------------------------------------------------
(* The way a walk has gone: days with a draft, from the stored rule to the *)
(* copy, each followed by the one the schedule advances to.                *)
Trodden(days, from, c, drafts) ==
    /\ from \in days \cup {c.next}
    /\ \A d \in days : /\ d < c.next /\ drafts[d] > 0
                       /\ Advance(d, c.interval) \in days \cup {c.next}
Paved(w, rules, drafts, apart) == w.n > 0 /\ Head(w.todo).rule \notin apart =>
    \E days \in SUBSET (0..Horizon) :
        Trodden(days, rules[Head(w.todo).rule].next, Head(w.todo), drafts[Head(w.todo).rule])

(* The copies of an unraced rule have its interval. *)
Matching(w, rules, apart) == \A i \in DOMAIN w.todo :
    w.todo[i].rule \notin apart => w.todo[i].interval = rules[w.todo[i].rule].interval

(* What is in the inbox was made, copies match the stored rules, and every *)
(* walk of an unraced rule has left a draft at each date.                  *)
Recorded == \A q \in Rules, d \in Days : live[q][d] > 0 => made[q][d] > 0
Way ==
    /\ events \in Nat /\ Recorded
    /\ \A r \in Requests : Matching(request[r], rule, raced)
    /\ \A r \in Requests : Paved(request[r], rule, made, raced)

(* The other requests keep their way: the rules they hold do not move.     *)
LEMMA WayOfStep ==
    ASSUME Inv, Way, NEW r \in Requests, NEW w, request' = [request EXCEPT ![r] = w],
           raced \subseteq raced', events' \in Nat, Recorded',
           \A q \in Rules, d \in Days : made[q][d] > 0 => made'[q][d] > 0,
           \A q \in Rules : rule'[q] = rule[q] \/ q \in raced' \/ Has(request[r], q),
           Matching(w, rule', raced'), Paved(w, rule', made', raced')
    PROVE  Way'
PROOF
<1>1. Shape /\ \A p \in Requests : request'[p] = IF p = r THEN w ELSE request[p]
  BY InvShape, NumbersHold DEF Numbers
<1>2. ASSUME NEW p \in Requests \ {r}, NEW i \in DOMAIN request[p].todo,
             request[p].todo[i].rule \notin raced'
      PROVE  /\ request[p].todo[i].rule \in Rules \ raced
             /\ rule'[request[p].todo[i].rule] = rule[request[p].todo[i].rule]
  <2>1. request[p].todo[i].rule \in Rules \ raced
    BY <1>1, <1>2, RuleOf
  <2>2. Has(request[p], request[p].todo[i].rule)
    BY DEF Has
  <2>3. ~Has(request[r], request[p].todo[i].rule)
    BY <2>1, <2>2 DEF Inv, Alone, Holds, Has
  <2> QED
    BY <1>2, <2>1, <2>3
<1>3. ASSUME NEW p \in Requests \ {r} PROVE Matching(request[p], rule', raced')
  BY <1>2 DEF Way, Matching
<1>4. ASSUME NEW p \in Requests \ {r} PROVE Paved(request[p], rule', made', raced')
  <2> SUFFICES ASSUME request[p].n > 0, Head(request[p].todo).rule \notin raced'
               PROVE  \E days \in SUBSET (0..Horizon) :
                         Trodden(days, rule'[Head(request[p].todo).rule].next, Head(request[p].todo),
                                 made'[Head(request[p].todo).rule])
    BY DEF Paved
  <2>1. request[p].todo # <<>>
    BY <1>1, RequestSound DEF Sound
  <2>2. /\ Head(request[p].todo) = request[p].todo[1] /\ 1 \in DOMAIN request[p].todo
    BY <1>1, <2>1, HeadFacts DEF Current
  <2>3. /\ Head(request[p].todo).rule \in Rules \ raced
        /\ rule'[Head(request[p].todo).rule] = rule[Head(request[p].todo).rule]
    BY <1>2, <2>2
  <2>4. PICK days \in SUBSET (0..Horizon) :
           Trodden(days, rule[Head(request[p].todo).rule].next, Head(request[p].todo),
                   made[Head(request[p].todo).rule])
    BY <2>3 DEF Way, Paved
  <2>5. \A d \in days : d \in Days
    BY CalendarAssumption
  <2>6. Trodden(days, rule'[Head(request[p].todo).rule].next, Head(request[p].todo),
                made'[Head(request[p].todo).rule])
    BY <2>3, <2>4, <2>5 DEF Trodden
  <2> QED
    BY <2>6
<1>5. \A p \in Requests : Matching(request'[p], rule', raced') /\ Paved(request'[p], rule', made', raced')
  BY <1>1, <1>3, <1>4
<1> QED
  BY <1>5 DEF Way

(* A request that keeps its list and count, or drops the head and begins   *)
(* anew, has its way.                                                      *)
LEMMA WalkWay ==
    ASSUME Inv, Way, NEW r \in Requests, NEW w, request' = [request EXCEPT ![r] = w],
           UNCHANGED <<stored, raced>>, events' \in Nat,
           \/ w.todo = request[r].todo /\ w.n = request[r].n
           \/ /\ w.n = 0
              /\ \A i \in DOMAIN w.todo :
                    i + 1 \in DOMAIN request[r].todo /\ w.todo[i] = request[r].todo[i + 1]
    PROVE  Way'
PROOF
<1>1. rule' = rule /\ live' = live /\ made' = made /\ raced' = raced
  BY DEF stored
<1>2. Matching(request[r], rule, raced) /\ Paved(request[r], rule, made, raced) /\ Recorded
  BY DEF Way
<1>3. Recorded'
  BY <1>1, <1>2 DEF Recorded
<1>4. Matching(w, rule', raced')
  BY <1>1, <1>2 DEF Matching
<1>5. Paved(w, rule', made', raced')
  BY <1>1, <1>2 DEF Paved
<1> QED
  BY <1>1, <1>3, <1>4, <1>5, WayOfStep

(* A date is done with: it has had its draft. *)
LEMMA StepWay ==
    ASSUME Inv, Way, NEW r \in Requests, request[r].todo # <<>>, GoesOn(r),
           request' = [request EXCEPT ![r] = Stepped(r)],
           UNCHANGED <<rule, raced, events>>, Recorded',
           \A q \in Rules, d \in Days : made[q][d] > 0 => made'[q][d] > 0,
           made'[Current(r).rule][Current(r).next] > 0
    PROVE  Way'
PROOF
<1>1. PICK w : w = Stepped(r)
  OBVIOUS
<1>2. PICK c : c = Current(r)
  OBVIOUS
<1>3. PICK a : a = Advanced(c)
  OBVIOUS
<1>4. Shape /\ Numbers
  BY InvShape, NumbersHold
<1>5. /\ Sound(w) /\ w.n = request[r].n + 1 /\ w.todo # <<>> /\ w.todo[1] = a
      /\ DOMAIN w.todo = DOMAIN request[r].todo /\ a.rule = c.rule /\ c.next < a.next
      /\ \A i \in DOMAIN request[r].todo \ {1} : w.todo[i] = request[r].todo[i]
  BY <1>1, <1>2, <1>3, <1>4, SteppedFacts
<1>6. /\ c \in Copies /\ c = request[r].todo[1] /\ 1 \in DOMAIN request[r].todo
      /\ c.rule \in Rules /\ c.next \in Days
  BY <1>2, <1>4, HeadFacts
<1>7. Head(w.todo) = a
  BY <1>5, ListFacts DEF Sound, Walks
<1>8. /\ a.next = Advance(c.next, c.interval) /\ a.interval = c.interval
      /\ a.next \in Nat /\ c.next \in Nat /\ c.next \in 0..Horizon
  <2>1. c.next \in Nat /\ c.next <= request[r].end /\ request[r].end \in 0..Horizon
    BY <1>2, <1>4, <1>6 DEF GoesOn, Numbers, Walks
  <2>2. c.next \in 0..Horizon
    BY <2>1, RulesAssumption
  <2>3. c.interval \in Intervals
    BY <1>6 DEF Copies
  <2>4. a.next = Advance(c.next, c.interval) /\ a.interval = c.interval
    BY <1>3, <1>6 DEF Advanced, Copies
  <2> QED
    BY <2>1, <2>2, <2>3, <2>4, CalendarAssumption
<1>9. Matching(w, rule', raced')
  <2>1. Matching(request[r], rule, raced)
    BY DEF Way
  <2>2. w.todo[1].rule = request[r].todo[1].rule /\ w.todo[1].interval = request[r].todo[1].interval
    BY <1>5, <1>6, <1>8
  <2>3. \A i \in DOMAIN w.todo : /\ w.todo[i].rule = request[r].todo[i].rule
                                 /\ w.todo[i].interval = request[r].todo[i].interval
    BY <1>5, <2>2
  <2> QED
    BY <1>5, <2>1, <2>3 DEF Matching
<1>10. Paved(w, rule', made', raced')
  <2> SUFFICES ASSUME c.rule \notin raced
               PROVE  \E days \in SUBSET (0..Horizon) :
                         Trodden(days, rule[c.rule].next, a, made'[c.rule])
    BY <1>5, <1>7 DEF Paved
  <2>1. PICK days \in SUBSET (0..Horizon) : Trodden(days, rule[c.rule].next, c, made[c.rule])
    <3>1. CASE request[r].n > 0
      BY <1>2, <3>1 DEF Way, Paved, Current
    <3>2. CASE ~(request[r].n > 0)
      <4>1. c.next = rule[c.rule].next
        BY <1>6, <3>2 DEF Inv, Placed
      <4>2. Trodden({}, rule[c.rule].next, c, made[c.rule])
        BY <4>1 DEF Trodden
      <4> QED
        BY <4>2
    <3> QED
      BY <3>1, <3>2
  <2>2. \A d \in days : d \in Days /\ d \in Nat
    BY <1>4 DEF Numbers
  <2>3. made'[c.rule][c.next] > 0
    BY <1>2
  <2>4. \A d \in days \cup {c.next} : /\ d < a.next /\ made'[c.rule][d] > 0
    <3> SUFFICES ASSUME NEW d \in days \cup {c.next} PROVE d < a.next /\ made'[c.rule][d] > 0
      OBVIOUS
    <3>1. CASE d = c.next
      BY <1>5, <2>3, <3>1
    <3>2. CASE d \in days
      <4>1. d < c.next /\ made[c.rule][d] > 0
        BY <2>1, <3>2 DEF Trodden
      <4>2. made'[c.rule][d] > 0
        BY <1>6, <2>2, <3>2, <4>1
      <4> QED
        BY <1>5, <1>8, <2>2, <3>2, <4>1, <4>2
    <3> QED
      BY <3>1, <3>2
  <2>5. Trodden(days \cup {c.next}, rule[c.rule].next, a, made'[c.rule])
    BY <1>8, <2>1, <2>4 DEF Trodden
  <2>6. days \cup {c.next} \in SUBSET (0..Horizon)
    BY <1>8
  <2> QED
    BY <2>5, <2>6
<1>11. request' = [request EXCEPT ![r] = w] /\ events' \in Nat /\ raced \subseteq raced'
  BY <1>1 DEF Way
<1>12. \A q \in Rules : rule'[q] = rule[q]
  OBVIOUS
<1> QED
  BY <1>9, <1>10, <1>11, <1>12, WayOfStep

LEMMA RequestWay ==
    ASSUME Inv, Way, NEW r \in Requests, Check(r) \/ Look(r) \/ Create(r) \/ Fail(r)
    PROVE  Way'
PROOF
<1>1. Shape /\ Numbers /\ request[r].todo # <<>> /\ events \in Nat
  BY InvShape, NumbersHold, RequestSound DEF Check, Look, Create, Fail, Sound, Way
<1>2. /\ DOMAIN Idle.todo = {} /\ Idle.n = 0
  BY EmptySeq DEF Idle
<1>3. ASSUME NEW label, request' = [request EXCEPT ![r] = [request[r] EXCEPT !.at = label]],
             UNCHANGED <<stored, raced, events>>
      PROVE  Way'
  <2>1. PICK w : w = [request[r] EXCEPT !.at = label]
    OBVIOUS
  <2>2. w.todo = request[r].todo /\ w.n = request[r].n
    BY <1>1, <2>1 DEF Numbers, Walks
  <2> QED
    BY <1>1, <1>3, <2>1, <2>2, WalkWay
<1>4. CASE Check(r)
  <2>1. UNCHANGED <<stored, raced, events>>
    BY <1>4 DEF Check, history
  <2>2. CASE Barred(Current(r).rule)
    <3>1. request' = [request EXCEPT ![r] = Idle]
      BY <1>4, <2>2 DEF Check
    <3> QED
      BY <1>1, <1>2, <2>1, <3>1, WalkWay
  <2>3. CASE ~Barred(Current(r).rule)
    <3>1. request' = [request EXCEPT ![r] = [request[r] EXCEPT !.at = "look"]]
      BY <1>4, <2>3 DEF Check
    <3> QED
      BY <1>3, <2>1, <3>1
  <2> QED
    BY <2>2, <2>3
<1>5. CASE Fail(r)
  <2>1. UNCHANGED <<stored, raced>> /\ events' \in Nat /\ request' = [request EXCEPT ![r] = Idle]
    BY <1>1, <1>5 DEF Fail
  <2> QED
    BY <1>2, <2>1, WalkWay
<1>6. CASE Look(r)
  <2>1. UNCHANGED <<stored, raced, events>> /\ UNCHANGED <<rule, live, made>>
    BY <1>6 DEF Look, history, stored
  <2>2. CASE ~GoesOn(r) /\ request[r].n > 0
    BY <1>3, <1>6, <2>1, <2>2 DEF Look
  <2>3. CASE ~GoesOn(r) /\ ~(request[r].n > 0)
    <3>1. PICK w : w = NextRule(r)
      OBVIOUS
    <3>2. request' = [request EXCEPT ![r] = w]
      BY <1>6, <2>3, <3>1 DEF Look
    <3>3. /\ w.n = 0
          /\ \A i \in DOMAIN w.todo :
                i + 1 \in DOMAIN request[r].todo /\ w.todo[i] = request[r].todo[i + 1]
      BY <1>1, <3>1, NextRuleFacts
    <3> QED
      BY <1>1, <2>1, <3>2, <3>3, WalkWay
  <2>4. CASE GoesOn(r) /\ HasDraft(Current(r))
    <3>1. request' = [request EXCEPT ![r] = Stepped(r)]
      BY <1>6, <2>4 DEF Look
    <3>2. Recorded' /\ Recorded
      BY <2>1 DEF Way, Recorded
    <3>3. Current(r).rule \in Rules /\ Current(r).next \in Days
      BY <1>1, HeadFacts
    <3>4. made'[Current(r).rule][Current(r).next] > 0
      BY <2>1, <2>4, <3>2, <3>3 DEF Recorded, HasDraft
    <3> QED
      BY <1>1, <2>1, <2>4, <3>1, <3>2, <3>4, StepWay
  <2>5. CASE GoesOn(r) /\ ~HasDraft(Current(r))
    BY <1>3, <1>6, <2>1, <2>5 DEF Look
  <2> QED
    BY <2>2, <2>3, <2>4, <2>5
<1>7. CASE Create(r)
  <2>1. PICK q : q = Current(r).rule
    OBVIOUS
  <2>2. PICK d : d = Current(r).next
    OBVIOUS
  <2>3. /\ request' = [request EXCEPT ![r] = Stepped(r)]
        /\ live' = [live EXCEPT ![q][d] = @ + 1]
        /\ made' = [made EXCEPT ![q][d] = IF @ = 2 THEN 2 ELSE @ + 1]
        /\ UNCHANGED <<rule, raced, events>>
    BY <1>7, <2>1, <2>2 DEF Create, history
  <2>4. GoesOn(r)
    BY <1>7 DEF Create, Inv, Fitting
  <2>5. q \in Rules /\ d \in Days
    BY <1>1, <2>1, <2>2, HeadFacts
  <2>6. live \in [Rules -> [Days -> Nat]] /\ made \in [Rules -> [Days -> 0..2]]
    BY DEF Inv, TypeOK
  <2>7. /\ made'[q][d] > 0
        /\ \A x \in Rules, y \in Days :
              made[x][y] > 0 => made'[x][y] > 0
    BY <2>3, <2>5, <2>6
  <2>8. \A x \in Rules, y \in Days : x # q \/ y # d => live'[x][y] = live[x][y]
    BY <2>3, <2>5, <2>6
  <2>9. Recorded'
    <3> SUFFICES ASSUME NEW x \in Rules, NEW y \in Days, live'[x][y] > 0
                 PROVE  made'[x][y] > 0
      BY DEF Recorded
    <3> QED
      BY <2>7, <2>8 DEF Way, Recorded
  <2> QED
    BY <1>1, <2>1, <2>2, <2>3, <2>4, <2>7, <2>9, StepWay
<1> QED
  BY <1>4, <1>5, <1>6, <1>7

(* The rule is saved where its walk ended; no other request holds it. *)
LEMMA SaveWay ==
    ASSUME Inv, Way, NEW r \in Requests, Save(r)
    PROVE  Way'
PROOF
<1>1. Shape /\ Numbers /\ request[r].todo # <<>>
  BY InvShape, NumbersHold, RequestSound DEF Save, Sound
<1>2. PICK c : c = Current(r)
  OBVIOUS
<1>3. /\ c.rule \in Rules /\ Has(request[r], c.rule)
      /\ c = request[r].todo[1] /\ 1 \in DOMAIN request[r].todo
  BY <1>1, <1>2, HeadFacts
<1>4. PICK w : w = NextRule(r)
  OBVIOUS
<1>5. /\ w.n = 0
      /\ \A i \in DOMAIN w.todo :
            /\ i + 1 \in DOMAIN request[r].todo /\ i + 1 # 1
            /\ w.todo[i] = request[r].todo[i + 1]
  BY <1>1, <1>4, NextRuleFacts
<1>6. /\ request' = [request EXCEPT ![r] = w]
      /\ rule' = [rule EXCEPT ![c.rule].next = c.next]
      /\ UNCHANGED <<live, made, raced, events>>
  BY <1>2, <1>4 DEF Save, history
<1>7. \A q \in Rules \ {c.rule} : rule'[q] = rule[q]
  BY <1>6 DEF Inv, TypeOK
<1>8. Matching(w, rule', raced')
  <2>1. \A i \in DOMAIN w.todo : w.todo[i].rule \in Rules \ {c.rule}
    <3>1. \A i \in DOMAIN request[r].todo : request[r].todo[i].rule \in Rules
      BY <1>1, RuleOf
    <3>2. \A i \in DOMAIN request[r].todo : request[r].todo[i].rule = c.rule => i = 1
      BY <1>3 DEF Inv, Once
    <3> QED
      BY <1>5, <3>1, <3>2
  <2> QED
    BY <1>5, <1>6, <1>7, <2>1 DEF Way, Matching
<1>9. Paved(w, rule', made', raced')
  BY <1>5 DEF Paved
<1>10. Recorded' /\ events' \in Nat /\ raced \subseteq raced'
  BY <1>6 DEF Way, Recorded
<1> QED
  BY <1>3, <1>6, <1>7, <1>8, <1>9, <1>10, WayOfStep

(* A request begins with copies of the stored rules. *)
LEMMA BeginWay ==
    ASSUME Inv, Way, NEW r \in Requests, NEW todo, Begin(r, todo),
           \A i \in DOMAIN todo : todo[i] = Copy(todo[i].rule)
    PROVE  Way'
PROOF
<1>1. PICK w : w = [Idle EXCEPT !.at = "rule", !.end = today, !.todo = todo]
  OBVIOUS
<1>2. /\ request' = [request EXCEPT ![r] = w] /\ w.todo = todo /\ w.n = 0
      /\ UNCHANGED <<rule, live, made, events>> /\ raced \subseteq raced'
  BY <1>1 DEF Begin, stored, Idle
<1>3. Matching(w, rule', raced')
  BY <1>2 DEF Matching, Copy
<1>4. Paved(w, rule', made', raced')
  BY <1>2 DEF Paved
<1>5. Recorded' /\ events' \in Nat
  BY <1>2 DEF Way, Recorded
<1>6. \A q \in Rules : rule'[q] = rule[q]
  BY <1>2
<1> QED
  BY <1>2, <1>3, <1>4, <1>5, <1>6, WayOfStep

LEMMA GenerateWay ==
    ASSUME Inv, Way, NEW r \in Requests, GenerateAll(r) \/ GenerateOne(r)
    PROVE  Way'
PROOF
<1>1. CASE GenerateAll(r)
  <2>1. PICK n, order : Begin(r, [i \in 1..n |-> Copy(order[i])])
    BY <1>1 DEF GenerateAll
  <2>2. PICK todo : todo = [i \in 1..n |-> Copy(order[i])]
    OBVIOUS
  <2>3. \A i \in DOMAIN todo : todo[i] = Copy(todo[i].rule)
    BY <2>2 DEF Copy
  <2> QED
    BY <2>1, <2>2, <2>3, BeginWay
<1>2. CASE GenerateOne(r)
  <2>1. PICK q \in Rules : Begin(r, <<Copy(q)>>)
    BY <1>2 DEF GenerateOne
  <2>2. PICK todo : todo = <<Copy(q)>>
    OBVIOUS
  <2>3. DOMAIN todo = {1} /\ todo[1] = Copy(q) /\ Copy(q).rule = q
    BY <2>2 DEF Copy
  <2> QED
    BY <2>1, <2>2, <2>3, BeginWay
<1> QED
  BY <1>1, <1>2

(* Requests are left alone; a rule in the hands of one counts as raced     *)
(* when it is edited.                                                      *)
LEMMA UserWay ==
    ASSUME Inv, Way, UNCHANGED <<request, made>>, raced \subseteq raced', events' \in Nat,
           \A q \in Rules, d \in Days : live'[q][d] > 0 => live[q][d] > 0,
           \A q \in Rules : rule'[q] = rule[q] \/ q \in raced' \/ ~Held(q)
    PROVE  Way'
PROOF
<1>1. Shape
  BY InvShape
<1>2. ASSUME NEW r \in Requests, NEW i \in DOMAIN request[r].todo,
             request[r].todo[i].rule \notin raced'
      PROVE  rule'[request[r].todo[i].rule] = rule[request[r].todo[i].rule]
  BY <1>1, <1>2, RuleOf DEF Held, Holds
<1>3. ASSUME NEW r \in Requests PROVE Matching(request[r], rule', raced')
  BY <1>2 DEF Way, Matching
<1>4. ASSUME NEW r \in Requests PROVE Paved(request[r], rule', made', raced')
  <2>1. request[r].n > 0 => Head(request[r].todo) = request[r].todo[1] /\ 1 \in DOMAIN request[r].todo
    BY <1>1, RequestSound, HeadFacts DEF Sound, Current
  <2>2. request[r].n > 0 /\ Head(request[r].todo).rule \notin raced' =>
           rule'[Head(request[r].todo).rule] = rule[Head(request[r].todo).rule]
    BY <1>2, <2>1
  <2> QED
    BY <2>2 DEF Way, Paved
<1>5. Recorded'
  BY DEF Way, Recorded
<1> QED
  BY <1>3, <1>4, <1>5 DEF Way

LEMMA WayStep ==
    ASSUME Inv, Way, [Next]_vars
    PROVE  Way'
PROOF
<1>1. events \in Nat /\ rule = rule
  BY DEF Way
<1>2. CASE UNCHANGED vars \/ NextDay
  <2>1. UNCHANGED <<request, made, raced, events, live, rule>>
    BY <1>2 DEF vars, stored, history, NextDay
  <2> QED
    BY <1>1, <2>1, UserWay
<1>3. ASSUME NEW r \in Requests, GenerateAll(r) \/ GenerateOne(r) \/ Step(r) \/ Fail(r)
      PROVE  Way'
  BY <1>3, GenerateWay, RequestWay, SaveWay DEF Step
<1>4. ASSUME NEW q \in Rules, NEW d \in 0..Horizon, Confirm(q, d) \/ Dismiss(q, d)
      PROVE  Way'
  <2>1. /\ UNCHANGED <<request, made, raced, events, rule>>
        /\ live' = [live EXCEPT ![q][d] = @ - 1] /\ live[q][d] > 0
    BY <1>4 DEF Confirm, Dismiss, history
  <2>2. live \in [Rules -> [Days -> Nat]] /\ d \in Days
    BY CalendarAssumption DEF Inv, TypeOK
  <2>3. \A x \in Rules, y \in Days : live'[x][y] > 0 => live[x][y] > 0
    BY <2>1, <2>2
  <2> QED
    BY <1>1, <2>1, <2>3, UserWay
<1>5. ASSUME NEW q \in Rules, Reschedule(q) \/ Reinterval(q) \/ Toggle(q) \/ Repoint(q)
                                \/ Archive(q) \/ ArchiveAccount(q) \/ ArchiveCategory(q)
      PROVE  Way'
  <2>1. Touched(q) /\ events' \in Nat /\ \A x \in Rules \ {q} : rule'[x] = rule[x]
    BY <1>1, <1>5 DEF Reschedule, Reinterval, Toggle, Repoint, Archive,
                      ArchiveAccount, ArchiveCategory, Edited,
                      Inv, TypeOK
  <2>2. /\ UNCHANGED <<live, made, request>> /\ raced \subseteq raced'
        /\ Held(q) => q \in raced'
    BY <2>1 DEF Touched
  <2> QED
    BY <2>1, <2>2, UserWay
<1> QED
  BY <1>2, <1>3, <1>4, <1>5 DEF Next

LEMMA InitWay == Init => Way
PROOF
<1> SUFFICES ASSUME Init PROVE Way
  OBVIOUS
<1>1. \A r \in Requests : request[r] = Idle /\ Idle.n = 0 /\ DOMAIN Idle.todo = {}
  BY EmptySeq DEF Init, Idle
<1>2. Recorded /\ events \in Nat
  BY DEF Init, Recorded
<1> QED
  BY <1>1, <1>2 DEF Way, Matching, Paved

(* The due dates between the stored rule and the end of a walk are among   *)
(* the days that were trodden.                                             *)
LEMMA DatesTrodden ==
    ASSUME NEW c \in Copies, NEW q, q.interval = c.interval, NEW days \in SUBSET (0..Horizon),
           NEW drafts, Trodden(days, q.next, c, drafts), NEW d \in DueDates(q, c.next)
    PROVE  drafts[d] > 0
PROOF
<1>1. PICK all : all = days \cup {x \in Days : c.next <= x}
  OBVIOUS
<1>2. /\ Days \subseteq Nat /\ days \subseteq Days /\ c.next \in Days /\ c.next \in Nat
      /\ c.interval \in Intervals /\ c.next \in all /\ days \subseteq all
  <2>1. Days \subseteq Nat /\ days \subseteq Days
    BY CalendarAssumption
  <2>2. c.next \in Days /\ c.interval \in Intervals
    BY DEF Copies
  <2>3. c.next \in Nat
    BY <2>1, <2>2
  <2>4. c.next <= c.next
    BY <2>3
  <2> QED
    BY <1>1, <2>1, <2>2, <2>3, <2>4
<1>3. /\ q.next \in all
      /\ \A x \in days : x < c.next /\ drafts[x] > 0 /\ Advance(x, c.interval) \in all
  BY <1>2 DEF Trodden
<1>4. ASSUME NEW x \in all \cap 0..Horizon PROVE Advance(x, c.interval) \in all
  <2>1. PICK y : y = Advance(x, c.interval)
    OBVIOUS
  <2>2. y \in Days /\ x < y /\ x \in Nat /\ y \in Nat
    BY <1>2, <2>1, CalendarAssumption
  <2>3. c.next <= x => c.next <= y
    BY <1>2, <2>2
  <2> QED
    BY <1>1, <1>3, <2>1, <2>2, <2>3
<1>5. Scheduled(all, q) /\ all \in SUBSET Days
  BY <1>1, <1>2, <1>3, <1>4 DEF Scheduled
<1>6. d \in all /\ d < c.next /\ d \in Days
  BY <1>5 DEF DueDates
<1>7. d \in days
  BY <1>1, <1>2, <1>6
<1> QED
  BY <1>3, <1>7

(* Only a request moves a rule on without an event. *)
LEMMA NoSkipStep ==
    ASSUME Inv, Way, [Next]_vars, NEW q \in Rules \ raced,
           rule'[q].next # rule[q].next, events' = events,
           NEW d \in DueDates(rule[q], rule'[q].next)
    PROVE  made[q][d] > 0
PROOF
<1>1. PICK r \in Requests : Save(r)
  <2>1. events \in Nat /\ events + 1 # events
    BY DEF Way
  <2>2. rule' # rule
    OBVIOUS
  <2>3. ~\E x \in Rules : \/ Reschedule(x) \/ Reinterval(x) \/ Toggle(x) \/ Repoint(x)
                          \/ Archive(x) \/ ArchiveAccount(x) \/ ArchiveCategory(x)
    BY <2>1, <2>2 DEF Reschedule, Reinterval, Toggle, Repoint, Archive,
                      ArchiveAccount, ArchiveCategory, Edited
  <2> QED
    BY <2>2, <2>3 DEF Next, vars, stored, NextDay, GenerateAll, GenerateOne, Begin, Step,
       Check, Look, Create, Fail, Confirm, Dismiss
<1>2. Shape /\ request[r].todo # <<>> /\ request[r].n > 0
  BY <1>1, InvShape, RequestSound DEF Save, Sound
<1>3. PICK c : c = Current(r)
  OBVIOUS
<1>4. c \in Copies /\ c = request[r].todo[1] /\ 1 \in DOMAIN request[r].todo
  BY <1>2, <1>3, HeadFacts
<1>5. c.rule = q /\ rule'[q].next = c.next
  <2>1. rule' = [rule EXCEPT ![c.rule].next = c.next]
    BY <1>1, <1>3 DEF Save
  <2> QED
    BY <2>1 DEF Inv, TypeOK
<1>6. rule[q].interval = c.interval
  BY <1>4, <1>5 DEF Way, Matching
<1>7. PICK days \in SUBSET (0..Horizon) : Trodden(days, rule[q].next, c, made[q])
  BY <1>2, <1>3, <1>5 DEF Way, Paved, Current
<1> QED
  BY <1>4, <1>5, <1>6, <1>7, DatesTrodden

-----------------------------------------------------------------------------
(* The inductive invariant holds whatever requests overlap, fail and are   *)
(* edited under (generateDraftsForRule).                                   *)
THEOREM InvHolds == Spec => []Inv
PROOF
  BY InitInv, InvStep, PTL DEF Spec

(* Every variable keeps its type; no request goes beyond the cap. *)
THEOREM TypeCorrect == Spec => []TypeOK
PROOF
<1>1. Inv => TypeOK
  BY DEF Inv
<1> QED
  BY <1>1, InvHolds, PTL

(* A rule that is walked by one request at a time never has two drafts of  *)
(* one due date in the inbox (hasDraftForDueDate).                         *)
THEOREM OneDraft == Spec => []OneDraftPerDate
PROOF
<1>1. Inv => OneDraftPerDate
  BY DEF Inv
<1> QED
  BY <1>1, InvHolds, PTL

(* A date that was confirmed or dismissed is not drafted again, unless the *)
(* rule was raced or set back behind its drafts.                           *)
THEOREM RemadeOnlyForCause == Spec => []RemadeHasCause
PROOF
<1>1. Inv => RemadeHasCause
  BY DEF Inv
<1> QED
  BY <1>1, InvHolds, PTL

(* A rule at rest gets no drafts, except from a request that had it in     *)
(* hand when the user put it to rest.                                      *)
THEOREM RestIsSilent == Spec => RestingRulesAreSilent
PROOF
<1>1. Inv /\ [Next]_vars => [\A q \in Rules \ raced : made'[q] # made[q] => Active(q)]_vars
  BY SilentStep
<1> QED
  BY <1>1, InvHolds, PTL DEF Spec, RestingRulesAreSilent

(* No due date is skipped, whatever the cap, the calendar and the requests *)
(* that fail or overlap: a rule that no two requests walked at a time is   *)
(* moved past a date only when the date has had its draft                  *)
(* (generateDraftsForRule).                                                *)
THEOREM NothingSkipped == Spec => NoDueDateIsSkipped
PROOF
<1>1. Inv /\ Way /\ [Next]_vars =>
         [\A q \in Rules : rule'[q].next # rule[q].next /\ events' = events /\ q \notin raced =>
             \A d \in DueDates(rule[q], rule'[q].next) : made[q][d] > 0]_vars
  BY NoSkipStep
<1>2. Init => Way
  BY InitWay
<1>3. Inv /\ Way /\ [Next]_vars => Way'
  BY WayStep
<1> QED
  BY <1>1, <1>2, <1>3, InvHolds, PTL DEF Spec, NoDueDateIsSkipped
=============================================================================
