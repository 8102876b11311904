-------------------------- MODULE Workspaces_proofs --------------------------
(* That nothing is left of a deleted account, that a workspace has its     *)
(* owner and its members once, and what a step may not do.                 *)
EXTENDS Workspaces, TLAPS, SequenceTheorems, FiniteSetTheorems, FunctionTheorems,
    WellFoundedInduction

Kinds == {"none", "create", "invite", "role", "remove", "accept", "decline", "record", "delete"}
Places == {"none", "load", "write", "join", "push", "settle", "check", "impact", "personal",
           "sever", "raze", "close", "invites", "pull", "user"}
Cascading == {"check", "impact", "personal", "sever", "raze", "close", "invites", "pull", "user"}
Someone == Users \cup {NoUser}
Entries == [user : Someone, role : InviteRoles \cup {"owner", "none"}]
Invitations == [to : Users, by : Users, role : InviteRoles,
                status : {"pending", "accepted", "declined", "deleted"}]
Made == [by : Someone \cup {Removed}, shared : BOOLEAN]
Asked == [op : Kinds, at : Places, user : Someone, who : Someone, role : InviteRoles \cup {"none"},
          invite : Nat, members : Seq(Entries), v : Nat, shared : BOOLEAN,
          fate : {"none", "retained", "emptied"}]

In(m) == {m[i].user : i \in DOMAIN m}
Joins(q, u) == q.op = "accept" /\ q.user = u
Invites(q, u) == q.op = "invite" /\ q.who = u
Tag(q, u) == IF q.user = u THEN "own" ELSE q.op
Back(u) == u \in doubled \/ Beside(u, {"own", "remove"})
Disowned == Beside(workspace.owner, {"own", "accept", "remove"})
Leftover == \E u \in Users : Beside(u, {"own", "record"})
Kept(u) == Beside(u, {"own"}) \/ u \in quit \/ workspace.state = "gone"
Pending(i) == invites[i].status = "pending"
Of(i, u) == u = invites[i].to \/ u = invites[i].by
Mine(x, u) == record[x].by = u

(* A request is at a place its kind has, with what it has there. *)
Fit(q) ==
    /\ q \in Asked /\ q.invite \in {0} \cup DOMAIN invites
    /\ q.op # "none" => q.user \in Users
    /\ q.op = "create" => q.at = "write" /\ workspace.state = "none"
    /\ q.op \in {"invite", "role", "remove"} =>
          /\ q.who \in Users /\ q.at \in {"load", "write"}
          /\ q.at = "write" => workspace.state # "none"
    /\ q.op \in {"invite", "role"} => q.role \in InviteRoles
    /\ q.op = "role" /\ q.at = "write" => Place(q.members, q.who) # 0
    /\ q.op \in {"accept", "decline"} =>
          /\ q.at \in {"load", "join", "push", "settle"}
          /\ q.invite \in DOMAIN invites /\ invites[q.invite].to = q.user
    /\ q.op = "record" =>
          /\ q.at \in {"load", "write"}
          /\ q.at = "load" => q.shared
          /\ q.at = "write" /\ q.shared => workspace.state # "none"
    /\ q.op = "delete" =>
          /\ q.at \in Cascading
          /\ q.at \in {"raze", "close"} => q.fate = "emptied"
          /\ q.fate # "none" => workspace.state # "none"

(* Whom a request is from and for has an account, or was deleted beside it.*)
Known(q) ==
    /\ q.op # "none" /\ q.user \notin users => Beside(q.user, {"own"})
    /\ q.op = "invite" /\ q.at = "write" /\ q.who \notin users => Beside(q.who, {"own", "invite"})

(* What the histories remember of requests that run at the same time. *)
Meet(q, p) ==
    /\ q.op = "delete" /\ p.op # "none" => Tag(p, q.user) \in overlapped[q.user]
    /\ q.op = "accept" /\ (Joins(p, q.user) \/ Invites(p, q.user)) => q.user \in doubled
    /\ ~(q.op = "create" /\ p.op = "create")

(* The members a request has loaded, and those there are by now. *)
Aligned(m, l) == Len(m) = Len(l) /\ \A i \in DOMAIN m : m[i].user = l[i].user
Led(m) == Len(m) > 0 /\ m[1] = Entry(workspace.owner, "owner")
Twins(m) == \A i, j \in DOMAIN m : m[i].user = m[j].user /\ i # j =>
    m[i].user = NoUser \/ Back(m[i].user)
Writes(q, op) == q.op = op /\ q.at = "write"
Current(q) == q.v = workspace.v /\ workspace.state = "live"
Copied(q) ==
    /\ Writes(q, "role") \/ Writes(q, "remove") =>
          /\ q.v <= workspace.v
          /\ RoleOf(q.members, q.who) \in InviteRoles
          /\ workspace.state = "live" => Disowned \/ Led(q.members)
    /\ Writes(q, "remove") => Sane(q.members) /\ Twins(q.members)
    /\ Writes(q, "remove") /\ Current(q) =>
          /\ Members \subseteq In(q.members) \cup {NoUser}
          /\ \A u \in Users : u \in In(q.members) /\ u \notin Members =>
              Beside(u, {"own", "remove"})
    /\ Writes(q, "role") /\ Current(q) =>
          Aligned(q.members, workspace.members) \/ \E u \in Users : Beside(u, {"own", "role"})

(* The owner, until he deletes his account as the last member. *)
Owned(q) ==
    q.op = "delete" /\ q.user = workspace.owner /\ workspace.state = "live" =>
       \/ Disowned
       \/ /\ q.at \notin {"sever", "invites", "pull", "user"}
          /\ q.at = "impact" => Members \subseteq {workspace.owner, NoUser}
          /\ q.at = "personal" => q.fate = "emptied"

(* Who may come in, and how often. *)
Entering(q) ==
    /\ q.op = "accept" /\ q.at \in {"join", "push"} =>
          /\ q.user \in Members => Back(q.user)
          /\ q.invite <= left[q.user] => Back(q.user)
          /\ \A i \in DOMAIN invites :
                i # q.invite /\ invites[i].to = q.user /\ Pending(i) => Back(q.user)
    /\ Writes(q, "invite") /\ q.who \in Members => Back(q.who)

(* What there is of a user who is being deleted, or records something. *)
Leaving(q) ==
    /\ q.op = "delete" =>
          /\ q.at \in {"sever", "raze", "close", "invites", "pull", "user"} =>
                \A x \in Records : Mine(x, q.user) /\ ~record[x].shared => Beside(q.user, {"own"})
          /\ q.at \in {"invites", "pull", "user"} \/ (q.at = "personal" /\ q.fate = "none") =>
                \A x \in Records : Mine(x, q.user) /\ record[x].shared => Kept(q.user)
          /\ q.at = "user" /\ q.user \in Members => Beside(q.user, {"own", "remove"})
          /\ q.at \in {"pull", "user"} => \A i \in DOMAIN invites :
                Pending(i) /\ Of(i, q.user) => Beside(q.user, {"own", "invite"})
    /\ Writes(q, "record") /\ q.shared => q.user \in Members \/ Kept(q.user)

(* A workspace that is razed. *)
Razing(q) ==
    /\ q.op = "delete" /\ q.at = "close" => \A x \in Records : record[x].shared => Leftover
    /\ Writes(q, "record") /\ q.shared /\ workspace.state = "gone" => Leftover
    /\ q.op = "delete" /\ q.at \in {"personal", "raze"} /\ q.fate = "emptied" =>
          Members \subseteq {q.user, NoUser} \/ Beside(q.user, {"own", "accept", "remove"})

Ok(q) == Fit(q) /\ Known(q) /\ Copied(q) /\ Owned(q) /\ Entering(q) /\ Leaving(q) /\ Razing(q)

Stored ==
    /\ users \subseteq Users
    /\ workspace \in [state : {"none", "live", "gone"}, owner : Someone, members : Seq(Entries),
        v : Nat]
    /\ invites \in Seq(Invitations)
    /\ record \in [Records -> Made]
    /\ overlapped \in [Users -> SUBSET (Kinds \cup {"own"})]
    /\ doubled \subseteq Users /\ quit \subseteq Users
    /\ left \in [Users -> Nat] /\ \A u \in Users : left[u] <= Len(invites)
    /\ workspace.state = "live" => workspace.owner \in Users
    /\ workspace.state = "none" =>
          /\ workspace.members = <<>> /\ invites = <<>>
          /\ \A x \in Records : ~record[x].shared
          /\ \A u \in Users : left[u] = 0

(* The workspace has its owner, at the head of its members, each once. *)
Ruled ==
    workspace.state = "live" =>
       /\ Disowned \/ (workspace.owner \in users /\ Led(workspace.members))
       /\ Twins(workspace.members)

(* Invites that somebody may come back by. *)
Settles(q, i) == q.op = "accept" /\ q.at = "settle" /\ q.invite = i
Invited ==
    /\ \A i, j \in DOMAIN invites :
          invites[i].to = invites[j].to /\ i # j => ~(Pending(i) /\ Pending(j))
    /\ \A i \in DOMAIN invites :
          Pending(i) /\ (invites[i].to \in Members \/ i <= left[invites[i].to]) =>
             Back(invites[i].to) \/ \E r \in Requests : Settles(request[r], i)

(* What there is of a user who is gone, and of a workspace that is. *)
Traces ==
    /\ \A x \in Records, u \in Users : Mine(x, u) /\ record[x].shared => u \in Members \/ Kept(u)
    /\ \A u \in Users : u \notin users =>
          /\ \A x \in Records : Mine(x, u) => Beside(u, {"own"}) \/ (record[x].shared /\ Kept(u))
          /\ u \in Members => Beside(u, {"own", "remove"})
          /\ \A i \in DOMAIN invites : Pending(i) /\ Of(i, u) => Beside(u, {"own", "invite"})
Razed == workspace.state = "gone" => \A x \in Records : record[x].shared => Leftover

Requested ==
    /\ request \in [Requests -> Asked]
    /\ \A r \in Requests : Ok(request[r])
    /\ \A r \in Requests : \A p \in Requests \ {r} : Meet(request[r], request[p])
IInv == Stored /\ Ruled /\ Invited /\ Traces /\ Razed /\ Requested
-----------------------------------------------------------------------------
(* Positions in a list of members. *)
LEMMA WsLeast ==
    ASSUME NEW S \in SUBSET Nat, S # {}
    PROVE  \E x \in S : \A y \in S : x <= y
PROOF
<1>1. \E x \in S : \A y \in S : <<y, x>> \notin OpToRel(<, Nat)
  BY WFMin, NatLessThanWellFounded, Zenon
<1>2. \A x, y \in S : <<y, x>> \notin OpToRel(<, Nat) => x <= y
  BY DEF OpToRel
<1> QED
  BY <1>1, <1>2

(* A set of positions, counted from its beginning. *)
RankIn(stay) == [i \in stay |-> Cardinality({j \in stay : j <= i})]
LEMMA Ranks ==
    ASSUME NEW n \in Nat, NEW stay \in SUBSET (1..n)
    PROVE  /\ Cardinality(stay) \in Nat
           /\ \A i \in stay : RankIn(stay)[i] \in 1..Cardinality(stay)
           /\ \A i, j \in stay : RankIn(stay)[i] = RankIn(stay)[j] => i = j
           /\ \A k \in 1..Cardinality(stay) : \E i \in stay : RankIn(stay)[i] = k
           /\ 1 \in stay => RankIn(stay)[1] = 1
PROOF
<1>0. /\ \A i \in stay : i \in Int /\ i >= 1
      /\ \A i \in stay : RankIn(stay)[i] = Cardinality({j \in stay : j <= i})
  BY DEF RankIn
<1>1. IsFiniteSet(stay) /\ Cardinality(stay) \in Nat
  <2>1. IsFiniteSet(1..n)
    BY FS_Interval
  <2> QED
    BY <2>1, FS_Subset, FS_CardinalityType
<1>2. ASSUME NEW i \in stay PROVE RankIn(stay)[i] \in 1..Cardinality(stay)
  <2>1. PICK S : S = {j \in stay : j <= i}
    OBVIOUS
  <2>2. S \in SUBSET stay /\ i \in S
    BY <1>0, <2>1
  <2>3. IsFiniteSet(S) /\ Cardinality(S) <= Cardinality(stay) /\ Cardinality(S) \in Nat
    BY <1>1, <2>2, FS_Subset, FS_CardinalityType
  <2>4. Cardinality(S) # 0
    BY <2>2, <2>3, FS_EmptySet
  <2>5. RankIn(stay)[i] = Cardinality(S)
    BY <1>0, <2>1
  <2> QED
    BY <1>1, <2>3, <2>4, <2>5
<1>3. ASSUME NEW i \in stay, NEW j \in stay, RankIn(stay)[i] = RankIn(stay)[j], i < j PROVE FALSE
  <2>1. PICK S : S = {k \in stay : k <= i}
    OBVIOUS
  <2>2. PICK T : T = {k \in stay : k <= j}
    OBVIOUS
  <2>3. S \in SUBSET T /\ T \in SUBSET stay /\ j \in T /\ j \notin S
    <3>1. \A k \in stay : k <= i => k <= j
      BY <1>0, <1>3
    <3>2. j <= j /\ ~(j <= i)
      BY <1>0, <1>3
    <3> QED
      BY <2>1, <2>2, <3>1, <3>2
  <2>4. IsFiniteSet(T)
    BY <1>1, <2>3, FS_Subset
  <2>5. Cardinality(T) = Cardinality(S)
    BY <1>0, <1>3, <2>1, <2>2
  <2> QED
    BY <2>3, <2>4, <2>5, FS_Subset
<1>4. \A i, j \in stay : RankIn(stay)[i] = RankIn(stay)[j] => i = j
  BY <1>3
<1>5. IsFiniteSet(1..Cardinality(stay)) /\ Cardinality(1..Cardinality(stay)) = Cardinality(stay)
  BY <1>1, FS_Interval
<1>6. RankIn(stay) \in Injection(stay, 1..Cardinality(stay))
  BY <1>2, <1>4 DEF Injection, IsInjective, RankIn
<1>7. RankIn(stay) \in Surjection(stay, 1..Cardinality(stay))
  BY <1>5, <1>6, FS_Injection
<1>8. \A k \in 1..Cardinality(stay) : \E i \in stay : RankIn(stay)[i] = k
  BY <1>7 DEF Surjection
<1>9. ASSUME 1 \in stay PROVE RankIn(stay)[1] = 1
  <2>1. \A j \in stay : j <= 1 <=> j = 1
    BY <1>0
  <2>2. {j \in stay : j <= 1} = {1}
    BY <1>9, <2>1
  <2> QED
    BY <1>0, <1>9, <2>2, FS_Singleton
<1> QED
  BY <1>1, <1>2, <1>4, <1>8, <1>9

(* Without keeps the entries of the others, each of them once. *)
LEMMA WithoutFacts ==
    ASSUME NEW S, NEW m \in Seq(S), NEW u
    PROVE  /\ Without(m, u) \in Seq(S)
           /\ \A k \in DOMAIN Without(m, u) : Without(m, u)[k].user # u
           /\ \A k \in DOMAIN Without(m, u) : \E i \in DOMAIN m : Without(m, u)[k] = m[i]
           /\ \A i \in DOMAIN m : m[i].user # u => \E k \in DOMAIN Without(m, u) :
               Without(m, u)[k] = m[i]
           /\ \A k, l \in DOMAIN Without(m, u) : k # l =>
                 \E i, j \in DOMAIN m : i # j /\ Without(m, u)[k] = m[i] /\ Without(m, u)[l] = m[j]
           /\ Len(m) > 0 /\ m[1].user # u =>
                 Len(Without(m, u)) > 0 /\ Without(m, u)[1] = m[1]
PROOF
<1>1. PICK stay : stay = {i \in DOMAIN m : m[i].user # u}
  OBVIOUS
<1>2. PICK rank : rank = RankIn(stay)
  OBVIOUS
<1>3. PICK n : n = Len(m)
  OBVIOUS
<1>4. n \in Nat /\ DOMAIN m = 1..n /\ stay \in SUBSET (1..n)
  BY <1>1, <1>3, LenProperties
<1>5. PICK c : c = Cardinality(stay)
  OBVIOUS
<1>6. /\ c \in Nat
      /\ \A i \in stay : rank[i] \in 1..c
      /\ \A i, j \in stay : rank[i] = rank[j] => i = j
      /\ \A k \in 1..c : \E i \in stay : rank[i] = k
      /\ 1 \in stay => rank[1] = 1
  <2>1. /\ Cardinality(stay) \in Nat
        /\ \A i \in stay : RankIn(stay)[i] \in 1..Cardinality(stay)
        /\ \A i, j \in stay : RankIn(stay)[i] = RankIn(stay)[j] => i = j
        /\ \A k \in 1..Cardinality(stay) : \E i \in stay : RankIn(stay)[i] = k
        /\ 1 \in stay => RankIn(stay)[1] = 1
    BY <1>4, Ranks
  <2> QED
    BY <1>2, <1>5, <2>1
<1>7. PICK f : f = [k \in 1..c |-> CHOOSE i \in stay : rank[i] = k]
  OBVIOUS
<1>8. \A k \in 1..c : f[k] \in stay /\ rank[f[k]] = k
  BY <1>6, <1>7
<1>9. Without(m, u) = [k \in 1..c |-> m[f[k]]]
  <2>1. \A k \in 1..c : (CHOOSE i \in stay : Cardinality({j \in stay : j <= i}) = k) = f[k]
    <3> SUFFICES ASSUME NEW k \in 1..c
                 PROVE  (CHOOSE i \in stay : Cardinality({j \in stay : j <= i}) = k) = f[k]
      OBVIOUS
    <3>1. \A i \in stay : rank[i] = Cardinality({j \in stay : j <= i})
      BY <1>2 DEF RankIn
    <3>2. (CHOOSE i \in stay : Cardinality({j \in stay : j <= i}) = k) =
           (CHOOSE i \in stay : rank[i] = k)
      BY <3>1
    <3> QED
      BY <1>7, <3>2
  <2>2. Without(m, u) = [k \in 1..c |-> m[CHOOSE i \in stay :
         Cardinality({j \in stay : j <= i}) = k]]
    BY <1>1, <1>5 DEF Without
  <2> QED
    BY <2>1, <2>2
<1>10. \A k \in 1..c : m[f[k]] \in S
  <2>1. \A i \in 1..n : m[i] \in S
    BY <1>3, ElementOfSeq
  <2> QED
    BY <1>4, <1>8, <2>1
<1>11. Without(m, u) \in Seq(S) /\ DOMAIN Without(m, u) = 1..c /\ Len(Without(m, u)) = c
  <2>1. [k \in 1..c |-> m[f[k]]] \in Seq(S)
    BY <1>6, <1>10, IsASeq
  <2>2. Without(m, u) \in Seq(S) /\ DOMAIN Without(m, u) = 1..c
    BY <1>9, <2>1
  <2> QED
    BY <1>6, <2>2, LenProperties
<1>12. \A k \in 1..c : Without(m, u)[k] = m[f[k]] /\ m[f[k]].user # u
  BY <1>1, <1>8, <1>9
<1>13. \A k, l \in 1..c : f[k] = f[l] => k = l
  BY <1>8
<1>14. \A i \in DOMAIN m : m[i].user # u => \E k \in 1..c : f[k] = i
  <2> SUFFICES ASSUME NEW i \in DOMAIN m, m[i].user # u PROVE \E k \in 1..c : f[k] = i
    OBVIOUS
  <2>1. i \in stay
    BY <1>1
  <2>2. rank[i] \in 1..c /\ f[rank[i]] = i
    BY <1>6, <1>8, <2>1
  <2> QED
    BY <2>2
<1>15. ASSUME Len(m) > 0, m[1].user # u
       PROVE  Len(Without(m, u)) > 0 /\ Without(m, u)[1] = m[1]
  <2>1. 1 \in stay
    BY <1>1, <1>3, <1>4, <1>15
  <2>2. 1 \in 1..c /\ f[1] = 1
    BY <1>6, <1>8, <2>1
  <2> QED
    BY <1>6, <1>11, <1>12, <2>2
<1>16. DOMAIN Without(m, u) = 1..c /\ \A k \in 1..c : f[k] \in DOMAIN m
  BY <1>1, <1>8, <1>11
<1>17. PICK W : W = Without(m, u)
  OBVIOUS
<1>18. /\ DOMAIN W = 1..c /\ \A k \in 1..c : f[k] \in DOMAIN m
       /\ \A k \in 1..c : W[k] = m[f[k]] /\ m[f[k]].user # u
       /\ \A k, l \in 1..c : f[k] = f[l] => k = l
       /\ \A i \in DOMAIN m : m[i].user # u => \E k \in 1..c : f[k] = i
  BY <1>12, <1>13, <1>14, <1>16, <1>17
<1>19. /\ \A k \in DOMAIN W : W[k].user # u
       /\ \A k \in DOMAIN W : \E i \in DOMAIN m : W[k] = m[i]
       /\ \A i \in DOMAIN m : m[i].user # u => \E k \in DOMAIN W : W[k] = m[i]
       /\ \A k, l \in DOMAIN W : k # l =>
             \E i, j \in DOMAIN m : i # j /\ W[k] = m[i] /\ W[l] = m[j]
  BY <1>18
<1>20. W \in Seq(S) /\ (Len(m) > 0 /\ m[1].user # u => Len(W) > 0 /\ W[1] = m[1])
  BY <1>11, <1>15, <1>17
<1> QED
  BY <1>17, <1>19, <1>20

(* The others of a list, one by one. *)
LEMMA WithoutIn ==
    ASSUME NEW m \in Seq(Entries), NEW u
    PROVE  /\ Without(m, u) \in Seq(Entries)
           /\ \A w : w \in In(Without(m, u)) <=> w \in In(m) /\ w # u
           /\ m = <<>> => Without(m, u) = <<>>
           /\ Twins(m) => Twins(Without(m, u))
           /\ Led(m) /\ u # workspace.owner => Led(Without(m, u))
PROOF
<1>1. PICK W : W = Without(m, u)
  OBVIOUS
<1>2. /\ W \in Seq(Entries)
      /\ \A k \in DOMAIN W : W[k].user # u
      /\ \A k \in DOMAIN W : \E i \in DOMAIN m : W[k] = m[i]
      /\ \A i \in DOMAIN m : m[i].user # u => \E k \in DOMAIN W : W[k] = m[i]
      /\ \A k, l \in DOMAIN W : k # l =>
            \E i, j \in DOMAIN m : i # j /\ W[k] = m[i] /\ W[l] = m[j]
      /\ Len(m) > 0 /\ m[1].user # u => Len(W) > 0 /\ W[1] = m[1]
  BY <1>1, WithoutFacts
<1>3. \A w : w \in In(W) <=> w \in In(m) /\ w # u
  <2>1. ASSUME NEW w, w \in In(W) PROVE w \in In(m) /\ w # u
    <3>1. PICK k \in DOMAIN W : w = W[k].user
      BY <2>1 DEF In
    <3>2. PICK i \in DOMAIN m : W[k] = m[i]
      BY <1>2
    <3> QED
      BY <1>2, <3>1, <3>2 DEF In
  <2>2. ASSUME NEW w, w \in In(m), w # u PROVE w \in In(W)
    <3>1. PICK i \in DOMAIN m : w = m[i].user
      BY <2>2 DEF In
    <3>2. PICK k \in DOMAIN W : W[k] = m[i]
      BY <1>2, <2>2, <3>1
    <3> QED
      BY <3>1, <3>2 DEF In
  <2> QED
    BY <2>1, <2>2
<1>4. ASSUME m = <<>> PROVE W = <<>>
  <2>1. DOMAIN m = {}
    BY <1>4
  <2>2. DOMAIN W = {}
    BY <1>2, <2>1
  <2>3. Len(W) = 0
    BY <1>2, <2>2, LenProperties
  <2> QED
    BY <1>2, <2>3, EmptySeq
<1>5. ASSUME Twins(m) PROVE Twins(W)
  <2> SUFFICES ASSUME NEW k \in DOMAIN W, NEW l \in DOMAIN W, W[k].user = W[l].user, k # l
               PROVE  W[k].user = NoUser \/ Back(W[k].user)
    BY DEF Twins
  <2>1. PICK i \in DOMAIN m, j \in DOMAIN m : i # j /\ W[k] = m[i] /\ W[l] = m[j]
    BY <1>2
  <2> QED
    BY <1>5, <2>1 DEF Twins
<1>6. ASSUME Led(m), u # workspace.owner PROVE Led(W)
  <2>1. m[1].user = workspace.owner
    BY <1>6 DEF Led, Entry
  <2> QED
    BY <1>2, <1>6, <2>1 DEF Led
<1> QED
  BY <1>1, <1>2, <1>3, <1>4, <1>5, <1>6, Zenon

(* findWorkspaceMember finds whom there is, in a list without a gap. *)
LEMMA PlaceFacts ==
    ASSUME NEW m \in Seq(Entries), NEW u \in Users
    PROVE  /\ Place(m, u) \in Nat
           /\ Place(m, u) # 0 => Place(m, u) \in DOMAIN m /\ m[Place(m, u)].user = u /\ u \in In(m)
           /\ Sane(m) /\ u \in In(m) => Place(m, u) # 0
           /\ RoleOf(m, u) # "none" => Place(m, u) # 0 /\ RoleOf(m, u) = m[Place(m, u)].role
           /\ Len(m) > 0 /\ m[1].user = u => Place(m, u) = 1
PROOF
<1>1. PICK n : n = Len(m)
  OBVIOUS
<1>2. n \in Nat /\ DOMAIN m = 1..n
  BY <1>1, LenProperties
<1>3. PICK here : here = {i \in DOMAIN m : m[i].user = u /\ \A j \in 1..(i - 1) :
       m[j].user \notin {u, NoUser}}
  OBVIOUS
<1>4. Place(m, u) = IF here = {} THEN 0 ELSE CHOOSE i \in here : TRUE
  BY <1>3 DEF Place
<1>5. here = {} \/ Place(m, u) \in here
  BY <1>4
<1>6. Place(m, u) # 0 <=> here # {}
  BY <1>2, <1>3, <1>4, <1>5
<1>7. Place(m, u) # 0 => Place(m, u) \in DOMAIN m /\ m[Place(m, u)].user = u
  BY <1>3, <1>5, <1>6
<1>8. Place(m, u) \in Nat
  BY <1>2, <1>4, <1>6, <1>7
<1>9. ASSUME Sane(m), u \in In(m) PROVE here # {}
  <2>1. PICK S : S = {i \in DOMAIN m : m[i].user = u}
    OBVIOUS
  <2>2. S \in SUBSET Nat /\ S # {}
    BY <1>2, <1>9, <2>1 DEF In
  <2>3. PICK i \in S : \A j \in S : i <= j
    BY <2>2, WsLeast
  <2>4. i \in DOMAIN m /\ m[i].user = u /\ i \in 1..n
    BY <1>2, <2>1
  <2>5. ASSUME NEW j \in 1..(i - 1) PROVE m[j].user \notin {u, NoUser}
    <3>1. j \in DOMAIN m /\ j < i
      BY <1>2, <2>4
    <3>2. j \notin S
      BY <2>3, <2>4, <3>1
    <3> QED
      BY <1>9, <2>1, <3>1, <3>2 DEF Sane
  <2> QED
    BY <1>3, <2>4, <2>5
<1>10. ASSUME Len(m) > 0, m[1].user = u PROVE Place(m, u) = 1
  <2>1. 1 \in here
    BY <1>1, <1>2, <1>3, <1>10
  <2>2. ASSUME NEW i \in here PROVE i = 1
    <3>1. i \in 1..n
      BY <1>2, <1>3
    <3>2. i > 1 => 1 \in 1..(i - 1)
      BY <3>1
    <3> QED
      BY <1>3, <1>10, <3>1, <3>2
  <2> QED
    BY <1>5, <2>1, <2>2
<1> QED
  BY <1>6, <1>7, <1>8, <1>9, <1>10 DEF RoleOf, In

(* A role that is set names no new user. *)
LEMMA RoleSetFacts ==
    ASSUME NEW m \in Seq(Entries), NEW i \in Nat \ {0}, NEW role \in InviteRoles
    PROVE  /\ RoleSetAt(m, i, role) \in Seq(Entries)
           /\ Len(RoleSetAt(m, i, role)) >= Len(m)
           /\ i <= Len(m) => Len(RoleSetAt(m, i, role)) = Len(m)
           /\ \A j \in DOMAIN m : j \in DOMAIN RoleSetAt(m, i, role) /\ RoleSetAt(m, i,
               role)[j].user = m[j].user
           /\ \A j \in DOMAIN m : j # i => RoleSetAt(m, i, role)[j] = m[j]
           /\ \A j \in DOMAIN RoleSetAt(m, i, role) :
                 j \notin DOMAIN m => RoleSetAt(m, i, role)[j].user = NoUser
PROOF
<1>1. PICK n : n = Len(m)
  OBVIOUS
<1>2. n \in Nat /\ DOMAIN m = 1..n /\ \A j \in 1..n : m[j] \in Entries
  BY <1>1, LenProperties, ElementOfSeq
<1>3. PICK W : W = RoleSetAt(m, i, role)
  OBVIOUS
<1>4. CASE i <= n
  <2>1. W = [m EXCEPT ![i].role = role]
    BY <1>1, <1>3, <1>4 DEF RoleSetAt
  <2>2. i \in 1..n
    BY <1>2, <1>4
  <2>3. PICK e : e = [m[i] EXCEPT !.role = role]
    OBVIOUS
  <2>4. e \in Entries /\ e.user = m[i].user
    BY <1>2, <2>2, <2>3 DEF Entries
  <2>5. W = [m EXCEPT ![i] = e]
    BY <2>1, <2>3
  <2>6. W \in Seq(Entries) /\ Len(W) = n
    BY <1>1, <1>2, <2>2, <2>4, <2>5, ExceptSeq
  <2>7. DOMAIN W = 1..n
    BY <2>6, LenProperties
  <2>8. \A j \in 1..n : W[j].user = m[j].user /\ (j # i => W[j] = m[j])
    BY <1>2, <2>4, <2>5
  <2> QED
    BY <1>1, <1>2, <1>3, <2>6, <2>7, <2>8
<1>5. CASE i > n
  <2>1. W = [j \in 1..i |-> IF j <= n THEN m[j] ELSE Entry(NoUser, IF j = i THEN role ELSE "none")]
    BY <1>1, <1>2, <1>3, <1>5 DEF RoleSetAt
  <2>2. \A j \in 1..i : W[j] =
         IF j <= n THEN m[j] ELSE Entry(NoUser, IF j = i THEN role ELSE "none")
    BY <2>1
  <2>3. \A j \in 1..i : j <= n => j \in 1..n
    BY <1>2
  <2>4. \A j \in 1..i : W[j] \in Entries /\ (j \notin 1..n => W[j].user = NoUser)
    <3>1. \A rl \in {role, "none"} : Entry(NoUser, rl) \in Entries /\ Entry(NoUser, rl).user =
           NoUser
      BY DEF Entries, Entry, Someone, InviteRoles
    <3>2. \A j \in 1..i : j <= n <=> j \in 1..n
      BY <1>2
    <3> QED
      BY <1>2, <2>2, <3>1, <3>2
  <2>5. W \in Seq(Entries)
    BY <2>1, <2>4, IsASeq
  <2>6. DOMAIN W = 1..i
    BY <2>1
  <2>7. Len(W) = i
    BY <2>5, <2>6, LenProperties
  <2>8. \A j \in 1..n : j \in 1..i /\ W[j] = m[j]
    BY <1>2, <1>5, <2>2
  <2> QED
    BY <1>1, <1>2, <1>3, <1>5, <2>4, <2>5, <2>6, <2>7, <2>8
<1> QED
  BY <1>2, <1>4, <1>5
-----------------------------------------------------------------------------
(* What the histories remember is not forgotten. *)
Grows ==
    /\ \A u \in Users : overlapped[u] \subseteq overlapped'[u]
    /\ doubled \subseteq doubled'

LEMMA BesideOf ==
    ASSUME NEW u, NEW kinds, NEW t \in kinds, t \in overlapped[u]
    PROVE  Beside(u, kinds)
PROOF
  BY DEF Beside
LEMMA BesideGrows ==
    ASSUME Grows, NEW u \in Users, NEW kinds, Beside(u, kinds)
    PROVE  Beside(u, kinds)'
PROOF
  BY DEF Beside, Grows
LEMMA BesideMore ==
    ASSUME NEW u, NEW kinds, NEW more, kinds \subseteq more, Beside(u, kinds)
    PROVE  Beside(u, more)
PROOF
  BY DEF Beside
LEMMA Grown ==
    ASSUME Grows
    PROVE  /\ \A u \in Users : Beside(u, {"own"}) => Beside(u, {"own"})'
           /\ \A u \in Users : Beside(u, {"own", "remove"}) => Beside(u, {"own", "remove"})'
           /\ \A u \in Users : Beside(u, {"own", "invite"}) => Beside(u, {"own", "invite"})'
           /\ \A u \in Users : Beside(u, {"own", "role"}) => Beside(u, {"own", "role"})'
           /\ \A u \in Users : Beside(u, {"own", "record"}) => Beside(u, {"own", "record"})'
           /\ \A u \in Users : Beside(u, {"own", "accept", "remove"}) =>
               Beside(u, {"own", "accept", "remove"})'
           /\ \A u \in Users : Back(u) => Back(u)'
           /\ Leftover => Leftover'
PROOF
<1>1. \A u \in Users : Beside(u, {"own"}) => Beside(u, {"own"})'
  BY BesideGrows
<1>2. \A u \in Users : Beside(u, {"own", "remove"}) => Beside(u, {"own", "remove"})'
  BY BesideGrows
<1>3. \A u \in Users : Beside(u, {"own", "invite"}) => Beside(u, {"own", "invite"})'
  BY BesideGrows
<1>4. \A u \in Users : Beside(u, {"own", "role"}) => Beside(u, {"own", "role"})'
  BY BesideGrows
<1>5. \A u \in Users : Beside(u, {"own", "record"}) => Beside(u, {"own", "record"})'
  BY BesideGrows
<1>6. \A u \in Users : Beside(u, {"own", "accept", "remove"}) =>
       Beside(u, {"own", "accept", "remove"})'
  BY BesideGrows
<1>7. \A u \in Users : Back(u) => Back(u)'
  BY <1>2 DEF Back, Grows
<1>8. Leftover => Leftover'
  BY <1>5 DEF Leftover
<1> QED
  BY <1>1, <1>2, <1>3, <1>4, <1>5, <1>6, <1>7, <1>8

(* Who deletes his account beside another request. *)
LEMMA DeletionMeets ==
    ASSUME NEW q, NEW p, Meet(q, p), q.op = "delete", q.user \in Users, p.op # "none"
    PROVE  /\ p.user = q.user =>
                 /\ Beside(q.user, {"own"}) /\ Beside(q.user, {"own", "remove"})
                 /\ Beside(q.user, {"own", "invite"}) /\ Beside(q.user, {"own", "role"})
                 /\ Beside(q.user, {"own", "accept", "remove"}) /\ Leftover /\ Back(q.user)
           /\ p.op = "remove" =>
                 /\ Beside(q.user, {"own", "remove"}) /\ Beside(q.user, {"own", "accept", "remove"})
                 /\ Back(q.user)
           /\ p.op = "accept" => Beside(q.user, {"own", "accept", "remove"})
           /\ p.op = "role" => Beside(q.user, {"own", "role"})
           /\ p.op = "invite" => Beside(q.user, {"own", "invite"})
           /\ p.op = "record" => Leftover
PROOF
<1>1. Tag(p, q.user) \in overlapped[q.user]
  BY DEF Meet
<1>2. p.user = q.user => "own" \in overlapped[q.user]
  BY <1>1 DEF Tag
<1>3. p.user # q.user => p.op \in overlapped[q.user]
  BY <1>1 DEF Tag
<1>4. "own" \in overlapped[q.user] =>
         /\ Beside(q.user, {"own"}) /\ Beside(q.user, {"own", "remove"})
         /\ Beside(q.user, {"own", "invite"}) /\ Beside(q.user, {"own", "role"})
         /\ Beside(q.user, {"own", "accept", "remove"}) /\ Beside(q.user, {"own", "record"})
  BY BesideOf
<1>5. /\ "remove" \in overlapped[q.user] =>
             Beside(q.user, {"own", "remove"}) /\ Beside(q.user, {"own", "accept", "remove"})
      /\ "accept" \in overlapped[q.user] => Beside(q.user, {"own", "accept", "remove"})
      /\ "role" \in overlapped[q.user] => Beside(q.user, {"own", "role"})
      /\ "invite" \in overlapped[q.user] => Beside(q.user, {"own", "invite"})
      /\ "record" \in overlapped[q.user] => Beside(q.user, {"own", "record"})
  BY BesideOf
<1>6. Beside(q.user, {"own", "record"}) => Leftover
  BY DEF Leftover
<1>7. Beside(q.user, {"own", "remove"}) => Back(q.user)
  BY DEF Back
<1> QED
  BY <1>2, <1>3, <1>4, <1>5, <1>6, <1>7

-----------------------------------------------------------------------------
(* What a request relies on stays, whatever the others do.                 *)
SameInvites == \A i \in DOMAIN invites :
    i \in DOMAIN invites' /\ invites'[i].to = invites[i].to /\ invites'[i].by = invites[i].by
FewerPending ==
    /\ SameInvites /\ DOMAIN invites' = DOMAIN invites
    /\ \A i \in DOMAIN invites : invites'[i].status = "pending" => invites[i].status = "pending"
FewerRecords == \A x \in Records :
    /\ record'[x].shared => record[x].shared
    /\ record'[x].by \in Users => record'[x] = record[x]
StillLive == workspace'.state = "live" =>
    workspace.state = "live" /\ workspace'.owner = workspace.owner /\ workspace.owner \in Users

LEMMA FitKept ==
    ASSUME NEW q, Fit(q), SameInvites,
           q.op = "create" => workspace'.state = "none",
           workspace.state # "none" => workspace'.state # "none"
    PROVE  Fit(q)'
PROOF
<1>1. q.invite \in {0} \cup DOMAIN invites'
  BY DEF Fit, SameInvites
<1>2. q.op \in {"accept", "decline"} =>
          /\ q.at \in {"load", "join", "push", "settle"}
          /\ q.invite \in DOMAIN invites' /\ invites'[q.invite].to = q.user
  BY DEF Fit, SameInvites
<1> QED
  BY <1>1, <1>2 DEF Fit

LEMMA KnownKept ==
    ASSUME NEW q, Fit(q), Known(q), Grows, users' = users
    PROVE  Known(q)'
PROOF
<1>1. q.op # "none" => q.user \in Users
  BY DEF Fit
<1>2. q.op = "invite" => q.who \in Users
  BY DEF Fit
<1> QED
  BY <1>1, <1>2, Grown DEF Known

LEMMA TwinsKept ==
    ASSUME NEW m \in Seq(Entries), Twins(m), Grows
    PROVE  Twins(m)'
PROOF
<1>1. \A i \in DOMAIN m : m[i].user # NoUser => m[i].user \in Users
  <2>1. \A i \in DOMAIN m : m[i] \in Entries
    BY LenProperties, ElementOfSeq
  <2> QED
    BY <2>1 DEF Entries, Someone
<1> QED
  BY <1>1, Grown DEF Twins

(* As long as its copy is not the current one. *)
LEMMA CopiedStill ==
    ASSUME NEW q \in Asked, Copied(q), Grows, StillLive,
           workspace.v \in Nat, workspace'.v \in Nat, workspace.v <= workspace'.v,
           ~((Writes(q, "role") \/ Writes(q, "remove")) /\ Current(q)')
    PROVE  Copied(q)'
PROOF
<1>1. q.members \in Seq(Entries) /\ q.v \in Nat
  BY DEF Asked
<1>2. Writes(q, "role") \/ Writes(q, "remove") => q.v <= workspace'.v
  BY <1>1 DEF Copied
<1>3. Writes(q, "remove") => Sane(q.members) /\ Twins(q.members)'
  BY <1>1, TwinsKept DEF Copied
<1>4. (Writes(q, "role") \/ Writes(q, "remove")) /\ workspace'.state = "live" =>
         Disowned' \/ Led(q.members)'
  <2>1. workspace'.state = "live" /\ Disowned => Disowned'
    BY Grown DEF Disowned, StillLive
  <2>2. workspace'.state = "live" /\ Led(q.members) => Led(q.members)'
    BY DEF Led, StillLive, Entry
  <2> QED
    BY <2>1, <2>2 DEF Copied, StillLive
<1>5. Writes(q, "role")' = Writes(q, "role") /\ Writes(q, "remove")' = Writes(q, "remove")
  BY DEF Writes
<1> QED
  BY <1>2, <1>3, <1>4, <1>5 DEF Copied

LEMMA CopiedPart ==
    ASSUME NEW q \in Asked, Copied(q), Grows, StillLive,
           workspace.v \in Nat, workspace'.v = workspace.v,
           Writes(q, "remove") /\ Current(q) =>
              /\ Members' \subseteq Members \cup {NoUser}
              /\ \A u \in Users : u \in Members /\ u \notin Members' =>
                  Beside(u, {"own", "remove"})',
           Writes(q, "role") /\ Current(q) /\ Aligned(q.members, workspace.members) =>
              Aligned(q.members, workspace'.members) \/ \E u \in Users : Beside(u, {"own", "role"})'
    PROVE  Copied(q)'
PROOF
<1>1. CASE ~((Writes(q, "role") \/ Writes(q, "remove")) /\ Current(q)')
  BY <1>1, CopiedStill
<1>2. CASE (Writes(q, "role") \/ Writes(q, "remove")) /\ Current(q)'
  <2>1. Current(q) /\ workspace'.state = "live" /\ workspace.state = "live"
    BY <1>2 DEF Current, StillLive
  <2>2. q.members \in Seq(Entries) /\ q.v \in Nat /\ q.v <= workspace'.v
    BY <1>2 DEF Asked, Copied
  <2>3. Disowned' \/ Led(q.members)'
    <3>1. Disowned => Disowned'
      BY <2>1, Grown DEF Disowned, StillLive
    <3>2. Led(q.members) => Led(q.members)'
      BY <2>1 DEF Led, StillLive, Entry
    <3> QED
      BY <1>2, <2>1, <3>1, <3>2 DEF Copied
  <2>4. Writes(q, "remove") => Sane(q.members) /\ Twins(q.members)'
    BY <2>2, TwinsKept DEF Copied
  <2>5. Writes(q, "remove") =>
          /\ Members' \subseteq In(q.members) \cup {NoUser}
          /\ \A u \in Users : u \in In(q.members) /\ u \notin Members' =>
              Beside(u, {"own", "remove"})'
    BY <2>1, Grown DEF Copied
  <2>6. Writes(q, "role") =>
          Aligned(q.members, workspace'.members) \/ \E u \in Users : Beside(u, {"own", "role"})'
    BY <2>1, Grown DEF Copied
  <2>7. Writes(q, "role")' = Writes(q, "role") /\ Writes(q, "remove")' = Writes(q, "remove")
    BY DEF Writes
  <2>8. RoleOf(q.members, q.who) \in InviteRoles
    BY <1>2 DEF Copied
  <2>9. Aligned(q.members, workspace.members)' = Aligned(q.members, workspace'.members)
    BY DEF Aligned
  <2> QED
    BY <2>2, <2>3, <2>4, <2>5, <2>6, <2>7, <2>8, <2>9 DEF Copied
<1> QED
  BY <1>1, <1>2

LEMMA OwnedKept ==
    ASSUME NEW q, Owned(q), Grows, StillLive, Members' \subseteq Members \cup {NoUser}
    PROVE  Owned(q)'
PROOF
<1> SUFFICES ASSUME q.op = "delete", q.user = workspace'.owner, workspace'.state = "live",
       ~Disowned'
             PROVE  /\ q.at \notin {"sever", "invites", "pull", "user"}
                    /\ q.at = "impact" => Members' \subseteq {workspace'.owner, NoUser}
                    /\ q.at = "personal" => q.fate = "emptied"
  BY DEF Owned
<1>1. workspace.state = "live" /\ workspace.owner = workspace'.owner /\ workspace.owner \in Users
  BY DEF StillLive
<1>2. ~Disowned
  BY <1>1, Grown DEF Disowned
<1> QED
  BY <1>1, <1>2 DEF Owned

LEMMA EnteringPart ==
    ASSUME NEW q, Fit(q), Entering(q), Grows, FewerPending,
           q.op = "accept" => /\ q.user \in Members' => q.user \in Members \/ Back(q.user)'
                              /\ left'[q.user] = left[q.user] \/ q.user \in Members \/ Back(q.user)',
           q.op = "invite" => (q.who \in Members' => q.who \in Members \/ Back(q.who)')
    PROVE  Entering(q)'
PROOF
<1>1. ASSUME q.op = "accept", q.at \in {"join", "push"}
      PROVE  /\ q.user \in Members' => Back(q.user)'
             /\ q.invite <= left'[q.user] => Back(q.user)'
             /\ \A i \in DOMAIN invites' :
                   i # q.invite /\ invites'[i].to = q.user /\ Pending(i)' => Back(q.user)'
  <2>1. q.user \in Users
    BY <1>1 DEF Fit
  <2>2. Back(q.user) => Back(q.user)'
    BY <2>1, Grown
  <2>3. \A i \in DOMAIN invites' :
         i \in DOMAIN invites /\ (Pending(i)' => Pending(i)) /\ invites'[i].to = invites[i].to
    BY DEF FewerPending, SameInvites, Pending
  <2> QED
    BY <1>1, <2>1, <2>2, <2>3 DEF Entering
<1>2. ASSUME Writes(q, "invite"), q.who \in Members' PROVE Back(q.who)'
  <2>1. q.who \in Users /\ q.op = "invite"
    BY <1>2 DEF Fit, Writes
  <2> QED
    BY <1>2, <2>1, Grown DEF Entering
<1> QED
  BY <1>1, <1>2 DEF Entering, Writes

LEMMA EnteringKept ==
    ASSUME NEW q, Fit(q), Entering(q), Grows, FewerPending,
           \A u \in Users : u \in Members' => u \in Members \/ Back(u)',
           \A u \in Users : left'[u] = left[u] \/ u \in Members \/ Back(u)'
    PROVE  Entering(q)'
PROOF
<1>1. (q.op = "accept" => q.user \in Users) /\ (q.op = "invite" => q.who \in Users)
  BY DEF Fit
<1> QED
  BY <1>1, EnteringPart

LEMMA LeavingPart ==
    ASSUME NEW q, Fit(q), Leaving(q), Grows, FewerRecords, FewerPending,
           q.op = "delete" /\ Kept(q.user) => Kept(q.user)',
           q.op = "delete" /\ q.user \in Members' =>
               q.user \in Members \/ Beside(q.user, {"own", "remove"})',
           q.op = "record" /\ (q.user \in Members \/ Kept(q.user)) =>
               q.user \in Members' \/ Kept(q.user)'
    PROVE  Leaving(q)'
PROOF
<1>1. ASSUME q.op = "delete"
      PROVE  /\ q.at \in {"sever", "raze", "close", "invites", "pull", "user"} =>
                   \A x \in Records : Mine(x, q.user)' /\ ~record'[x].shared =>
                       Beside(q.user, {"own"})'
             /\ q.at \in {"invites", "pull", "user"} \/ (q.at = "personal" /\ q.fate = "none") =>
                   \A x \in Records : Mine(x, q.user)' /\ record'[x].shared => Kept(q.user)'
             /\ q.at = "user" /\ q.user \in Members' => Beside(q.user, {"own", "remove"})'
             /\ q.at \in {"pull", "user"} => \A i \in DOMAIN invites' :
                   Pending(i)' /\ Of(i, q.user)' => Beside(q.user, {"own", "invite"})'
  <2>1. q.user \in Users
    BY <1>1 DEF Fit
  <2>2. \A x \in Records : Mine(x, q.user)' => Mine(x, q.user) /\ record'[x] = record[x]
    BY <2>1 DEF Mine, FewerRecords
  <2>3. \A i \in DOMAIN invites' :
         i \in DOMAIN invites /\ (Pending(i)' => Pending(i)) /\ (Of(i, q.user)' => Of(i, q.user))
    BY DEF FewerPending, SameInvites, Pending, Of
  <2> QED
    BY <1>1, <2>1, <2>2, <2>3, Grown DEF Leaving
<1>2. ASSUME Writes(q, "record"), q.shared PROVE q.user \in Members' \/ Kept(q.user)'
  BY <1>2 DEF Leaving, Writes
<1> QED
  BY <1>1, <1>2 DEF Leaving, Writes

LEMMA LeavingKept ==
    ASSUME NEW q, Fit(q), Leaving(q), Grows, FewerRecords, FewerPending,
           q.op # "none" /\ Kept(q.user) => Kept(q.user)',
           q.op = "delete" /\ q.user \in Members' =>
               q.user \in Members \/ Beside(q.user, {"own", "remove"})',
           q.op = "record" /\ q.user \in Members => q.user \in Members' \/ Kept(q.user)'
    PROVE  Leaving(q)'
PROOF
  BY LeavingPart

LEMMA RazingKept ==
    ASSUME NEW q, Fit(q), Razing(q), Grows,
           \A x \in Records : record'[x].shared => record[x].shared,
           workspace'.state = "gone" => workspace.state = "gone",
           q.op = "delete" => Members' \subseteq Members \cup {NoUser}
                              \/ Beside(q.user, {"own", "accept", "remove"})'
    PROVE  Razing(q)'
PROOF
<1>1. q.op = "delete" => q.user \in Users
  BY DEF Fit
<1>2. q.op = "delete" /\ q.at = "close" => \A x \in Records : record'[x].shared => Leftover'
  BY Grown DEF Razing
<1>3. Writes(q, "record") /\ q.shared /\ workspace'.state = "gone" => Leftover'
  BY Grown DEF Razing
<1>4. q.op = "delete" /\ q.at \in {"personal", "raze"} /\ q.fate = "emptied" =>
          Members' \subseteq {q.user, NoUser} \/ Beside(q.user, {"own", "accept", "remove"})'
  BY <1>1, Grown DEF Razing
<1> QED
  BY <1>2, <1>3, <1>4 DEF Razing, Writes
-----------------------------------------------------------------------------
(* What the server has stored stays, too. *)
LEMMA RuledKept ==
    ASSUME Stored, Ruled, Grows, users' = users, workspace' = workspace
    PROVE  Ruled'
PROOF
<1> SUFFICES ASSUME workspace.state = "live"
             PROVE  (Disowned' \/ (workspace'.owner \in users' /\ Led(workspace.members)')) /\ Twins(workspace.members)'
  BY DEF Ruled
<1>1. workspace.members \in Seq(Entries) /\ workspace.owner \in Users
  BY DEF Stored
<1>2. Twins(workspace.members)'
  <2>1. PICK m : m = workspace.members
    OBVIOUS
  <2>2. Twins(m)'
    BY <1>1, <2>1, TwinsKept DEF Ruled
  <2> QED
    BY <2>1, <2>2 DEF Twins
<1>3. Disowned => Disowned'
  BY <1>1, Grown DEF Disowned
<1>4. Led(workspace.members) => Led(workspace.members)'
  BY DEF Led, Entry
<1> QED
  BY <1>2, <1>3, <1>4 DEF Ruled

LEMMA InvitesTyped ==
    ASSUME Stored
    PROVE  /\ DOMAIN invites = 1..Len(invites) /\ Len(invites) \in Nat
           /\ \A i \in DOMAIN invites :
               invites[i] \in Invitations /\ invites[i].to \in Users /\ invites[i].by \in Users
PROOF
<1>1. invites \in Seq(Invitations)
  BY DEF Stored
<1>2. DOMAIN invites = 1..Len(invites) /\ Len(invites) \in Nat
  BY <1>1, LenProperties
<1>3. \A i \in 1..Len(invites) : invites[i] \in Invitations
  BY <1>1, ElementOfSeq
<1>4. \A e \in Invitations : e.to \in Users /\ e.by \in Users
  BY DEF Invitations
<1> QED
  BY <1>2, <1>3, <1>4

LEMMA InvitedPart ==
    ASSUME Stored, Invited, Grows, FewerPending,
           \A i \in DOMAIN invites :
              /\ invites'[i].status = "pending"
              /\ invites[i].to \in Members' \/ i <= left'[invites[i].to]
              => invites[i].to \in Members \/ i <= left[invites[i].to] \/ Back(invites[i].to)'
                 \/ \E p \in Requests : Settles(request'[p], i),
           \A i \in DOMAIN invites, r \in Requests :
              Settles(request[r], i) /\ invites'[i].status = "pending" =>
                 Back(invites[i].to)' \/ \E p \in Requests : Settles(request'[p], i)
    PROVE  Invited'
PROOF
<1>1. \A i \in DOMAIN invites : invites[i].to \in Users
  BY InvitesTyped
<1>2. \A i \in DOMAIN invites' :
       i \in DOMAIN invites /\ (Pending(i)' => Pending(i)) /\ invites'[i].to = invites[i].to
  BY DEF FewerPending, SameInvites, Pending
<1>3. \A i, j \in DOMAIN invites' :
          invites'[i].to = invites'[j].to /\ i # j => ~(Pending(i)' /\ Pending(j)')
  BY <1>2 DEF Invited
<1>4. ASSUME NEW i \in DOMAIN invites', Pending(i)',
             invites'[i].to \in Members' \/ i <= left'[invites'[i].to],
             ~Back(invites[i].to)'
      PROVE  \E r \in Requests : Settles(request[r], i)'
  <2>1. PICK u \in Users : u = invites[i].to /\ u = invites'[i].to
    BY <1>1, <1>2
  <2>2. i \in DOMAIN invites /\ invites'[i].status = "pending" /\ ~Back(u)' /\ ~Back(u)
    BY <1>2, <1>4, <2>1, Grown DEF Pending
  <2>3. \E p \in Requests : Settles(request'[p], i)
    <3>1. CASE u \in Members \/ i <= left[u]
      <4>1. \E r \in Requests : Settles(request[r], i)
        BY <1>2, <1>4, <2>1, <2>2, <3>1 DEF Invited
      <4> QED
        BY <2>1, <2>2, <4>1
    <3>2. CASE ~(u \in Members \/ i <= left[u])
      BY <1>4, <2>1, <2>2, <3>2
    <3> QED
      BY <3>1, <3>2
  <2> QED
    BY <2>3 DEF Settles
<1>5. \A i \in DOMAIN invites' : invites'[i].to = invites[i].to
  BY <1>2
<1> QED
  BY <1>3, <1>4, <1>5 DEF Invited

LEMMA InvitedKept ==
    ASSUME Stored, Invited, Grows, FewerPending,
           \A u \in Users : u \in Members' => u \in Members \/ Back(u)',
           \A u \in Users : left'[u] = left[u] \/ u \in Members \/ Back(u)',
           \A i \in DOMAIN invites, r \in Requests :
              Settles(request[r], i) /\ invites'[i].status = "pending" =>
                 Back(invites[i].to)' \/ \E p \in Requests : Settles(request'[p], i)
    PROVE  Invited'
PROOF
<1>1. \A i \in DOMAIN invites :
         /\ invites'[i].status = "pending"
         /\ invites[i].to \in Members' \/ i <= left'[invites[i].to]
         => invites[i].to \in Members \/ i <= left[invites[i].to] \/ Back(invites[i].to)'
            \/ \E p \in Requests : Settles(request'[p], i)
  <2> SUFFICES ASSUME NEW i \in DOMAIN invites,
                      invites[i].to \in Members' \/ i <= left'[invites[i].to]
               PROVE  invites[i].to \in Members \/ i <= left[invites[i].to] \/ Back(invites[i].to)'
    OBVIOUS
  <2>1. PICK u \in Users : u = invites[i].to /\ u = invites'[i].to
    BY InvitesTyped DEF FewerPending, SameInvites
  <2>2. u \in Members \/ i <= left[u] \/ Back(u)'
    BY <2>1
  <2> QED
    BY <2>1, <2>2
<1> QED
  BY <1>1, InvitedPart

LEMMA TracesKept ==
    ASSUME Traces, Grows, users' = users, FewerRecords, FewerPending,
           \A u \in Users : u \in Members \/ Kept(u) => u \in Members' \/ Kept(u)',
           \A u \in Users : u \notin users /\ Kept(u) => Kept(u)',
           \A u \in Users : u \notin users /\ u \in Members' =>
               u \in Members \/ Beside(u, {"own", "remove"})'
    PROVE  Traces'
PROOF
<1>1. \A x \in Records, u \in Users : Mine(x, u)' => Mine(x, u) /\ record'[x] = record[x]
  BY DEF Mine, FewerRecords
<1>2. \A i \in DOMAIN invites', u \in Users :
         i \in DOMAIN invites /\ (Pending(i)' => Pending(i)) /\ (Of(i, u)' => Of(i, u))
  BY DEF FewerPending, SameInvites, Pending, Of
<1>3. \A x \in Records, u \in Users : Mine(x, u)' /\ record'[x].shared => u \in Members' \/ Kept(u)'
  BY <1>1 DEF Traces
<1>4. ASSUME NEW u \in Users, u \notin users
      PROVE  /\ \A x \in Records : Mine(x, u)' => Beside(u, {"own"})' \/ (record'[x].shared /\ Kept(u)')
             /\ u \in Members' => Beside(u, {"own", "remove"})'
             /\ \A i \in DOMAIN invites' : Pending(i)' /\ Of(i, u)' => Beside(u, {"own", "invite"})'
  <2>1. \A x \in Records : Mine(x, u)' => Beside(u, {"own"})' \/ (record'[x].shared /\ Kept(u)')
    BY <1>1, <1>4, Grown DEF Traces
  <2>2. u \in Members' => Beside(u, {"own", "remove"})'
    BY <1>4, Grown DEF Traces
  <2>3. \A i \in DOMAIN invites' : Pending(i)' /\ Of(i, u)' => Beside(u, {"own", "invite"})'
    BY <1>2, <1>4, Grown DEF Traces
  <2> QED
    BY <2>1, <2>2, <2>3
<1> QED
  BY <1>3, <1>4 DEF Traces

LEMMA RazedKept ==
    ASSUME Razed, Grows, \A x \in Records : record'[x].shared => record[x].shared,
           workspace'.state = "gone" => workspace.state = "gone"
    PROVE  Razed'
PROOF
  BY Grown DEF Razed

(* One request moves on, the others meet it as before. *)
Moves(r, q) == request' = [request EXCEPT ![r] = q]
SameOrNone(q, p) == (q.op = p.op /\ q.user = p.user /\ q.who = p.who) \/ q.op = "none"

LEMMA MeetKept ==
    ASSUME NEW q, NEW p, Meet(q, p), Grows, q.op # "none" => q.user \in Users
    PROVE  Meet(q, p)'
PROOF
<1>1. q.op = "delete" /\ p.op # "none" => Tag(p, q.user) \in overlapped'[q.user]
  BY DEF Meet, Grows
<1>2. q.op = "accept" /\ (Joins(p, q.user) \/ Invites(p, q.user)) => q.user \in doubled'
  BY DEF Meet, Grows
<1> QED
  BY <1>1, <1>2 DEF Meet

LEMMA MeetMoved ==
    ASSUME NEW q, NEW p, NEW q2, Meet(q, p), SameOrNone(q2, q) PROVE Meet(q2, p)
PROOF
  BY DEF Meet, SameOrNone
LEMMA MeetMoved2 ==
    ASSUME NEW q, NEW p, NEW q2, Meet(p, q), SameOrNone(q2, q) PROVE Meet(p, q2)
PROOF
  BY DEF Meet, SameOrNone, Tag, Joins, Invites

LEMMA OneMoves ==
    ASSUME Requested, NEW r \in Requests, NEW q, Moves(r, q), Grows,
           q \in Asked, Ok(q)', SameOrNone(q, request[r]),
           \A p \in Asked : Ok(p) /\ Meet(request[r], p) /\ Meet(p, request[r]) => Ok(p)'
    PROVE  Requested'
PROOF
<1>1. /\ request' \in [Requests -> Asked] /\ request'[r] = q
      /\ \A p \in Requests \ {r} : request'[p] = request[p]
  BY DEF Moves, Requested
<1>2. \A p \in Requests :
       request[p] \in Asked /\ Ok(request[p]) /\ (request[p].op # "none" =>
           request[p].user \in Users)
  BY DEF Requested, Ok, Fit
<1>3. ASSUME NEW p \in Requests PROVE Ok(request[p])'
  <2>1. CASE p = r
    <3>1. PICK s : s = request'[p]
      OBVIOUS
    <3>2. Ok(s)'
      BY <1>1, <2>1, <3>1
    <3> QED
      BY <3>1, <3>2
  <2>2. CASE p # r
    <3>1. PICK s : s = request[p] /\ s = request'[p]
      BY <1>1, <2>2
    <3>2. Meet(request[r], s) /\ Meet(s, request[r])
      BY <2>2, <3>1 DEF Requested
    <3>3. Ok(s)'
      BY <1>2, <3>1, <3>2
    <3> QED
      BY <3>1, <3>3
  <2> QED
    BY <2>1, <2>2
<1>4. ASSUME NEW p \in Requests, NEW o \in Requests, p # o PROVE Meet(request[p], request[o])'
  <2>1. PICK s, t : s = request'[p] /\ t = request'[o]
    OBVIOUS
  <2>2. Meet(s, t)
    <3>1. CASE p # r /\ o # r
      BY <1>1, <1>4, <2>1, <3>1 DEF Requested
    <3>2. CASE p = r
      <4>1. s = q /\ t = request[o] /\ Meet(request[r], t)
        BY <1>1, <1>4, <2>1, <3>2 DEF Requested
      <4> QED
        BY <4>1, MeetMoved
    <3>3. CASE o = r
      <4>1. t = q /\ s = request[p] /\ Meet(s, request[r])
        BY <1>1, <1>4, <2>1, <3>3 DEF Requested
      <4> QED
        BY <4>1, MeetMoved2
    <3> QED
      BY <3>1, <3>2, <3>3
  <2>3. s.op # "none" => s.user \in Users
    <3>1. q.op # "none" => q.user \in Users
      BY <1>2 DEF SameOrNone
    <3> QED
      BY <1>1, <1>2, <2>1, <3>1
  <2>4. Meet(s, t)'
    BY <2>2, <2>3, MeetKept
  <2> QED
    BY <2>1, <2>4
<1> QED
  BY <1>1, <1>3, <1>4 DEF Requested

(* A step that changes no store. *)
Quiet ==
    /\ UNCHANGED <<users, workspace, invites, record, left, quit>>
    /\ Grows

LEMMA QuietFrame ==
    ASSUME Stored, Quiet
    PROVE  /\ FewerRecords /\ FewerPending /\ StillLive /\ Members' = Members
           /\ \A u \in Users : Kept(u) => Kept(u)'
PROOF
<1>1. FewerPending
  BY DEF Quiet, FewerPending, SameInvites
<1>2. FewerRecords
  BY DEF Quiet, FewerRecords
<1>3. StillLive
  BY DEF Quiet, StillLive, Stored
<1>4. Members' = Members
  BY DEF Quiet, Members
<1>5. \A u \in Users : Kept(u) => Kept(u)'
  BY Grown DEF Quiet, Kept
<1> QED
  BY <1>1, <1>2, <1>3, <1>4, <1>5

LEMMA QuietOk ==
    ASSUME Stored, Quiet, NEW q, Ok(q)
    PROVE  Ok(q)'
PROOF
<1>0. Grows /\ q \in Asked /\ (q.op # "none" => q.user \in Users)
      /\ users' = users /\ workspace' = workspace /\ record' = record /\ left' = left
  BY DEF Quiet, Ok, Fit
<1>1. Fit(q)'
  BY QuietFrame, FitKept DEF Ok, Fit, Quiet, FewerPending
<1>2. Known(q)'
  BY <1>0, KnownKept DEF Ok
<1>3. Copied(q)'
  <2>1. workspace.v \in Nat
    BY DEF Stored
  <2> QED
    BY <1>0, <2>1, QuietFrame, CopiedPart DEF Ok
<1>4. Owned(q)'
  BY <1>0, QuietFrame, OwnedKept DEF Ok
<1>5. Entering(q)'
  BY <1>0, QuietFrame, EnteringKept DEF Ok
<1>6. Leaving(q)'
  BY <1>0, QuietFrame, LeavingKept DEF Ok
<1>7. Razing(q)'
  BY <1>0, QuietFrame, RazingKept DEF Ok
<1> QED
  BY <1>1, <1>2, <1>3, <1>4, <1>5, <1>6, <1>7 DEF Ok

LEMMA QuietStores ==
    ASSUME Stored, Ruled, Invited, Traces, Razed, Quiet,
           overlapped' \in [Users -> SUBSET (Kinds \cup {"own"})], doubled' \subseteq Users,
           \A i \in DOMAIN invites, r \in Requests :
              Settles(request[r], i) /\ Pending(i) =>
                 Back(invites[i].to)' \/ \E p \in Requests : Settles(request'[p], i)
    PROVE  Stored' /\ Ruled' /\ Invited' /\ Traces' /\ Razed'
PROOF
<1>0. Grows /\ users' = users /\ workspace' = workspace /\ record' = record /\ left' =
       left /\ invites' = invites
  BY DEF Quiet
<1>1. Stored'
  BY DEF Stored, Quiet
<1>2. Ruled'
  BY <1>0, RuledKept
<1>3. Invited'
  BY <1>0, QuietFrame, InvitedKept DEF Pending
<1>4. Traces'
  BY <1>0, QuietFrame, TracesKept
<1>5. Razed'
  BY <1>0, RazedKept
<1> QED
  BY <1>1, <1>2, <1>3, <1>4, <1>5
-----------------------------------------------------------------------------
(* A request that goes on or ends. *)
LEMMA IdleOk == Idle \in Asked /\ Ok(Idle) /\ Ok(Idle)'
PROOF
<1>1. Idle \in Asked
  <2>1. <<>> \in Seq(Entries)
    BY EmptySeq
  <2> QED
    BY <2>1 DEF Idle, Asked, Kinds, Places, Someone
<1>2. Idle.op = "none" /\ Idle.invite = 0
  BY DEF Idle
<1>3. Ok(Idle)
  BY <1>1, <1>2 DEF Ok, Fit, Known, Copied, Writes, Owned, Entering, Leaving, Razing
<1>4. Ok(Idle)'
  BY <1>1, <1>2 DEF Ok, Fit, Known, Copied, Writes, Owned, Entering, Leaving, Razing
<1> QED
  BY <1>1, <1>3, <1>4

LEMMA EndsMoves ==
    ASSUME NEW r \in Requests, Ends(r)
    PROVE  Moves(r, Idle) /\ SameOrNone(Idle, request[r])
PROOF
  BY DEF Ends, Moves, SameOrNone, Idle

LEMMA GoesMoves ==
    ASSUME Requested, NEW r \in Requests, NEW at \in Places, Goes(r, at),
           NEW q, q = [request[r] EXCEPT !.at = at]
    PROVE  /\ Moves(r, q) /\ SameOrNone(q, request[r]) /\ q \in Asked
           /\ q.op = request[r].op /\ q.at = at /\ q.user = request[r].user /\ q.who =
               request[r].who
           /\ q.role = request[r].role /\ q.invite = request[r].invite /\ q.members =
               request[r].members
           /\ q.v = request[r].v /\ q.shared = request[r].shared /\ q.fate = request[r].fate
PROOF
<1>1. request \in [Requests -> Asked] /\ request[r] \in Asked
  BY DEF Requested
<1>2. /\ q \in Asked
      /\ q.op = request[r].op /\ q.at = at /\ q.user = request[r].user /\ q.who = request[r].who
      /\ q.role = request[r].role /\ q.invite = request[r].invite /\ q.members = request[r].members
      /\ q.v = request[r].v /\ q.shared = request[r].shared /\ q.fate = request[r].fate
  BY <1>1 DEF Asked
<1>3. Moves(r, q)
  BY <1>1 DEF Goes, Moves
<1> QED
  BY <1>2, <1>3 DEF SameOrNone

LEMMA QuietStep ==
    ASSUME IInv, Quiet, NEW r \in Requests, NEW q \in Asked, Moves(r, q), Ok(q)',
           SameOrNone(q, request[r]),
           overlapped' \in [Users -> SUBSET (Kinds \cup {"own"})], doubled' \subseteq Users,
           request[r].op = "accept" /\ request[r].at = "settle" => request[r].user \in doubled'
    PROVE  IInv'
PROOF
<1>1. /\ Stored /\ Ruled /\ Invited /\ Traces /\ Razed /\ Requested /\ Grows
      /\ \A p \in Requests \ {r} : request'[p] = request[p]
      /\ \A p \in Requests : Ok(request[p])
  BY DEF IInv, Quiet, Moves, Requested
<1>2. \A i \in DOMAIN invites, p \in Requests :
         Settles(request[p], i) /\ Pending(i) =>
            Back(invites[i].to)' \/ \E o \in Requests : Settles(request'[o], i)
  <2> SUFFICES ASSUME NEW i \in DOMAIN invites, NEW p \in Requests, Settles(request[p], i)
               PROVE  Back(invites[i].to)' \/ \E o \in Requests : Settles(request'[o], i)
    OBVIOUS
  <2>1. CASE p # r
    BY <1>1, <2>1
  <2>2. CASE p = r
    <3>1. request[r].user \in doubled' /\ invites[i].to = request[r].user
      BY <1>1, <2>2 DEF Settles, Ok, Fit
    <3>2. invites' = invites
      BY DEF Quiet
    <3> QED
      BY <3>1, <3>2 DEF Back
  <2> QED
    BY <2>1, <2>2
<1>3. Stored' /\ Ruled' /\ Invited' /\ Traces' /\ Razed'
  BY <1>1, <1>2, QuietStores
<1>4. \A p \in Asked : Ok(p) => Ok(p)'
  BY <1>1, QuietOk
<1>5. Requested'
  BY <1>1, <1>4, OneMoves
<1> QED
  BY <1>3, <1>5 DEF IInv

LEMMA QuietEnds ==
    ASSUME IInv, NEW r \in Requests, Ends(r), UNCHANGED <<users, workspace, invites, record,
           history>>,
           request[r].at # "settle"
    PROVE  IInv'
PROOF
<1>1. Quiet /\ overlapped' = overlapped /\ doubled' = doubled
  BY DEF Quiet, Grows, history
<1>2. overlapped' \in [Users -> SUBSET (Kinds \cup {"own"})] /\ doubled' \subseteq Users
  BY <1>1 DEF IInv, Stored
<1> QED
  BY <1>1, <1>2, IdleOk, EndsMoves, QuietStep

LEMMA QuietGoes ==
    ASSUME IInv, NEW r \in Requests, NEW q \in Asked, Moves(r, q), SameOrNone(q, request[r]), Ok(q),
           UNCHANGED <<users, workspace, invites, record, history>>, request[r].at # "settle"
    PROVE  IInv'
PROOF
<1>1. Quiet /\ overlapped' = overlapped /\ doubled' = doubled
  BY DEF Quiet, Grows, history
<1>2. overlapped' \in [Users -> SUBSET (Kinds \cup {"own"})] /\ doubled' \subseteq Users
  BY <1>1 DEF IInv, Stored
<1>3. Ok(q)'
  BY <1>1, QuietOk DEF IInv
<1> QED
  BY <1>1, <1>2, <1>3, QuietStep

LEMMA CrashStep ==
    ASSUME IInv, NEW r \in Requests, Crash(r)
    PROVE  IInv'
PROOF
<1>1. request[r] \in Asked /\ (request[r].op # "none" => request[r].user \in Users)
  BY DEF IInv, Requested, Ok, Fit
<1>2. Quiet
  BY DEF Crash, Quiet, Grows
<1>3. overlapped' \in [Users -> SUBSET (Kinds \cup {"own"})] /\ doubled' \subseteq Users
  BY <1>1 DEF Crash, IInv, Stored, Busy
<1>4. request[r].op = "accept" /\ request[r].at = "settle" => request[r].user \in doubled'
  BY DEF Crash, At
<1> QED
  BY <1>2, <1>3, <1>4, IdleOk, EndsMoves, QuietStep DEF Crash
-----------------------------------------------------------------------------
(* A request that begins meets those that run. *)
Fresh(q) ==
    /\ q.op \in Kinds \ {"none"}
    /\ q.op \in {"invite", "role", "remove", "accept", "decline"} => q.at = "load"
    /\ q.op = "record" => q.at = "load" \/ ~q.shared
    /\ q.op = "delete" => q.at = "check"
    /\ q.op = "create" => \A p \in Requests : request[p].op # "create"

LEMMA FreshOk ==
    ASSUME NEW q, Fresh(q), Fit(q), q.user \in users
    PROVE  Ok(q)
PROOF
<1>1. Known(q)
  BY DEF Fresh, Known
<1>2. Copied(q)
  BY DEF Fresh, Copied, Writes
<1>3. Owned(q)
  BY DEF Fresh, Owned
<1>4. Entering(q)
  BY DEF Fresh, Entering, Writes
<1>5. Leaving(q)
  BY DEF Fresh, Leaving, Writes
<1>6. Razing(q)
  BY DEF Fresh, Razing, Writes
<1> QED
  BY <1>1, <1>2, <1>3, <1>4, <1>5, <1>6 DEF Ok

LEMMA BeginMeets ==
    ASSUME Stored, request \in [Requests -> Asked], NEW r \in Requests, NEW q \in Asked,
           q.user \in Users,
           Begin(r, q)
    PROVE  /\ Grows
           /\ overlapped' \in [Users -> SUBSET (Kinds \cup {"own"})] /\ doubled' \subseteq Users
           /\ \A p \in Requests : Busy(p) =>
                 /\ q.op = "delete" => Tag(request[p], q.user) \in overlapped'[q.user]
                 /\ request[p].op = "delete" /\ request[p].user \in Users =>
                       Tag(q, request[p].user) \in overlapped'[request[p].user]
                 /\ \A u \in Users :
                       /\ Joins(q, u) /\ (Joins(request[p], u) \/ Invites(request[p], u)) =>
                           u \in doubled'
                       /\ Joins(request[p], u) /\ (Joins(q, u) \/ Invites(q, u)) => u \in doubled'
PROOF
<1> DEFINE beside == {request[p] : p \in {o \in Requests : Busy(o)}}
           Met(u, p) == (IF q.op = "delete" /\ q.user = u THEN {Tag(p, u)} ELSE {})
                        \cup (IF p.op = "delete" /\ p.user = u THEN {Tag(q, u)} ELSE {})
<1>1. overlapped' = [u \in Users |-> overlapped[u] \cup UNION {Met(u, p) : p \in beside}]
  BY DEF Begin, Tag
<1>2. doubled' = doubled \cup {u \in Users : \E p \in beside :
           \/ Joins(q, u) /\ (Joins(p, u) \/ Invites(p, u))
           \/ Invites(q, u) /\ Joins(p, u)}
  BY DEF Begin, Joins, Invites
<1>3. \A p \in Requests : Busy(p) => request[p] \in beside
  OBVIOUS
<1>4. \A p \in beside : p \in Asked
  OBVIOUS
<1>5. \A p \in Asked, u \in Users :
       Tag(p, u) \in Kinds \cup {"own"} /\ Tag(q, u) \in Kinds \cup {"own"}
  BY DEF Asked, Tag
<1>6. \A u \in Users : \A p \in beside : Met(u, p) \subseteq Kinds \cup {"own"}
  BY <1>4, <1>5
<1> HIDE DEF beside, Met
<1>7. \A u \in Users : overlapped[u] \subseteq overlapped'[u]
      /\ (\A p \in beside : Met(u, p) \subseteq overlapped'[u])
  BY <1>1
<1>8. \A u \in Users : overlapped[u] \cup UNION {Met(u, p) :
       p \in beside} \in SUBSET (Kinds \cup {"own"})
  BY <1>6 DEF Stored
<1>9. overlapped' \in [Users -> SUBSET (Kinds \cup {"own"})]
  BY <1>1, <1>8
<1>10. Grows /\ doubled' \subseteq Users
  BY <1>2, <1>7 DEF Grows, Stored
<1>11. ASSUME NEW p \in Requests, Busy(p), q.op =
       "delete" PROVE Tag(request[p], q.user) \in overlapped'[q.user]
  <2>1. Tag(request[p], q.user) \in Met(q.user, request[p])
    BY <1>11 DEF Met
  <2> QED
    BY <1>3, <1>7, <1>11, <2>1
<1>12. ASSUME NEW p \in Requests, Busy(p), request[p].op = "delete", request[p].user \in Users
       PROVE  Tag(q, request[p].user) \in overlapped'[request[p].user]
  <2>1. Tag(q, request[p].user) \in Met(request[p].user, request[p])
    BY <1>12 DEF Met
  <2> QED
    BY <1>3, <1>7, <1>12, <2>1
<1>13. ASSUME NEW p \in Requests, Busy(p), NEW u \in Users
       PROVE  /\ Joins(q, u) /\ (Joins(request[p], u) \/ Invites(request[p], u)) => u \in doubled'
              /\ Joins(request[p], u) /\ (Joins(q, u) \/ Invites(q, u)) => u \in doubled'
  BY <1>2, <1>3, <1>13
<1> QED
  BY <1>9, <1>10, <1>11, <1>12, <1>13

LEMMA BeginStep ==
    ASSUME IInv, NEW r \in Requests, NEW q \in Asked, Begin(r, q), Fresh(q), Fit(q)
    PROVE  IInv'
PROOF
<1>1. q.user \in users /\ q.user \in Users
  BY DEF Begin, IInv, Stored
<1>2. /\ Stored /\ Ruled /\ Invited /\ Traces /\ Razed /\ Requested /\ request \in [Requests -> Asked]
      /\ request[r].op = "none" /\ request' = [request EXCEPT ![r] = q]
      /\ \A p \in Requests : Ok(request[p])
  BY DEF Begin, Busy, IInv, Requested
<1>3. /\ Grows
      /\ overlapped' \in [Users -> SUBSET (Kinds \cup {"own"})] /\ doubled' \subseteq Users
      /\ \A p \in Requests : Busy(p) =>
            /\ q.op = "delete" => Tag(request[p], q.user) \in overlapped'[q.user]
            /\ request[p].op = "delete" /\ request[p].user \in Users =>
                  Tag(q, request[p].user) \in overlapped'[request[p].user]
            /\ \A u \in Users :
                  /\ Joins(q, u) /\ (Joins(request[p], u) \/ Invites(request[p], u)) =>
                      u \in doubled'
                  /\ Joins(request[p], u) /\ (Joins(q, u) \/ Invites(q, u)) => u \in doubled'
  BY <1>1, <1>2, BeginMeets
<1>4. Quiet
  BY <1>3 DEF Begin, Quiet
<1>5. request' \in [Requests -> Asked] /\ request'[r] = q /\ \A p \in Requests \ {r} :
       request'[p] = request[p]
  BY <1>2
<1>6. \A i \in DOMAIN invites, p \in Requests :
         Settles(request[p], i) /\ Pending(i) =>
            Back(invites[i].to)' \/ \E o \in Requests : Settles(request'[o], i)
  BY <1>2, <1>5 DEF Settles
<1>7. Stored' /\ Ruled' /\ Invited' /\ Traces' /\ Razed'
  BY <1>2, <1>3, <1>4, <1>6, QuietStores
<1>8. ASSUME NEW p \in Requests PROVE Ok(request[p])'
  <2>1. PICK s : s = request'[p]
    OBVIOUS
  <2>2. Ok(s)
    BY <1>1, <1>2, <1>5, <2>1, FreshOk
  <2>3. Ok(s)'
    BY <1>2, <1>4, <2>2, QuietOk
  <2> QED
    BY <2>1, <2>3
<1>9. ASSUME NEW p \in Requests, NEW o \in Requests, p # o PROVE Meet(request[p], request[o])'
  <2>1. PICK s, t : s = request'[p] /\ t = request'[o]
    OBVIOUS
  <2>2. Meet(s, t)'
    <3>1. CASE p # r /\ o # r
      <4>1. Meet(s, t) /\ (s.op # "none" => s.user \in Users)
        BY <1>2, <1>5, <1>9, <2>1, <3>1 DEF Requested, Ok, Fit
      <4> QED
        BY <1>3, <4>1, MeetKept
    <3>2. CASE p = r
      <4>1. s = q /\ t = request[o] /\ (Busy(o) <=> t.op # "none") /\ (t.op # "none" =>
             t.user \in Users)
        BY <1>2, <1>5, <1>9, <2>1, <3>2 DEF Busy, Ok, Fit
      <4>2. q.op = "delete" /\ t.op # "none" => Tag(t, q.user) \in overlapped'[q.user]
        BY <1>3, <4>1
      <4>3. q.op = "accept" /\ (Joins(t, q.user) \/ Invites(t, q.user)) => q.user \in doubled'
        BY <1>1, <1>3, <4>1 DEF Joins, Invites
      <4>4. ~(q.op = "create" /\ t.op = "create")
        BY <4>1 DEF Fresh
      <4> QED
        BY <4>1, <4>2, <4>3, <4>4 DEF Meet
    <3>3. CASE o = r
      <4>1. t = q /\ s = request[p] /\ (Busy(p) <=> s.op # "none") /\ (s.op # "none" =>
             s.user \in Users)
        BY <1>2, <1>5, <1>9, <2>1, <3>3 DEF Busy, Ok, Fit
      <4>2. s.op = "delete" /\ q.op # "none" => Tag(q, s.user) \in overlapped'[s.user]
        BY <1>3, <4>1
      <4>3. s.op = "accept" /\ (Joins(q, s.user) \/ Invites(q, s.user)) => s.user \in doubled'
        BY <1>3, <4>1 DEF Joins
      <4>4. ~(s.op = "create" /\ q.op = "create")
        BY <4>1 DEF Fresh
      <4> QED
        BY <4>1, <4>2, <4>3, <4>4 DEF Meet
    <3> QED
      BY <3>1, <3>2, <3>3
  <2> QED
    BY <2>1, <2>2
<1>10. Requested'
  BY <1>5, <1>8, <1>9 DEF Requested
<1> QED
  BY <1>7, <1>10 DEF IInv

LEMMA AskStep ==
    ASSUME IInv, NEW r \in Requests, Ask(r)
    PROVE  IInv'
PROOF
<1>0. /\ Idle \in Asked /\ Idle.op = "none" /\ Idle.at = "none" /\ Idle.invite = 0
      /\ DOMAIN invites \subseteq Nat /\ \A i \in DOMAIN invites : i # 0 /\ invites[i].to \in Users
  <2>1. Idle \in Asked /\ Idle.op = "none" /\ Idle.at = "none" /\ Idle.invite = 0
    BY IdleOk DEF Idle
  <2>2. Stored
    BY DEF IInv
  <2> QED
    BY <2>1, <2>2, InvitesTyped
<1>1. ASSUME NEW u \in Users, AskCreate(r, u) PROVE IInv'
  <2>1. PICK q : q = [Idle EXCEPT !.op = "create", !.at = "write", !.user = u]
    OBVIOUS
  <2>2. q \in Asked /\ q.op = "create" /\ q.at = "write" /\ q.user = u /\ q.invite = 0
    BY <1>0, <2>1 DEF Asked, Kinds, Places, Someone
  <2>3. Fresh(q)
    BY <1>1, <2>2 DEF Fresh, AskCreate, Kinds
  <2>4. Fit(q)
    BY <1>1, <2>2 DEF Fit, AskCreate
  <2> QED
    BY <1>1, <2>1, <2>2, <2>3, <2>4, BeginStep DEF AskCreate
<1>2. ASSUME NEW u \in Users, AskDelete(r, u) PROVE IInv'
  <2>1. PICK q : q = [Idle EXCEPT !.op = "delete", !.at = "check", !.user = u]
    OBVIOUS
  <2>2. q \in Asked /\ q.op = "delete" /\ q.at = "check" /\ q.user = u /\ q.invite =
         0 /\ q.fate = "none"
    BY <1>0, <2>1 DEF Asked, Kinds, Places, Someone, Idle
  <2>3. Fresh(q)
    BY <2>2 DEF Fresh, Kinds
  <2>4. Fit(q)
    BY <2>2 DEF Fit, Cascading
  <2> QED
    BY <1>2, <2>1, <2>2, <2>3, <2>4, BeginStep DEF AskDelete
<1>3. ASSUME NEW u \in Users, NEW w \in Users, NEW role \in InviteRoles,
       NEW op \in {"invite", "role"},
             Begin(r, [Idle EXCEPT !.op = op, !.at = "load", !.user = u, !.who = w, !.role = role])
      PROVE  IInv'
  <2>1. PICK q : q = [Idle EXCEPT !.op = op, !.at = "load", !.user = u, !.who = w, !.role = role]
    OBVIOUS
  <2>2. q \in Asked /\ q.op = op /\ q.at = "load" /\ q.user = u /\ q.who = w /\ q.role =
         role /\ q.invite = 0
    BY <1>0, <2>1 DEF Asked, Kinds, Places, Someone
  <2>3. Fresh(q)
    BY <2>2 DEF Fresh, Kinds
  <2>4. Fit(q)
    BY <2>2 DEF Fit
  <2> QED
    BY <1>3, <2>1, <2>2, <2>3, <2>4, BeginStep
<1>4. ASSUME NEW u \in Users, NEW w \in Users, AskRemove(r, u, w) PROVE IInv'
  <2>1. PICK q : q = [Idle EXCEPT !.op = "remove", !.at = "load", !.user = u, !.who = w]
    OBVIOUS
  <2>2. q \in Asked /\ q.op = "remove" /\ q.at = "load" /\ q.user = u /\ q.who = w /\ q.invite = 0
    BY <1>0, <2>1 DEF Asked, Kinds, Places, Someone
  <2>3. Fresh(q)
    BY <2>2 DEF Fresh, Kinds
  <2>4. Fit(q)
    BY <2>2 DEF Fit
  <2> QED
    BY <1>4, <2>1, <2>2, <2>3, <2>4, BeginStep DEF AskRemove
<1>5. ASSUME NEW i \in DOMAIN invites, NEW op \in {"accept", "decline"},
       AskAnswer(r, i, op) PROVE IInv'
  <2>1. PICK q : q = [Idle EXCEPT !.op = op, !.at = "load", !.user = invites[i].to, !.invite = i]
    OBVIOUS
  <2>2. q \in Asked /\ q.op = op /\ q.at = "load" /\ q.user = invites[i].to /\ q.invite =
         i /\ q.user \in Users
    BY <1>0, <2>1 DEF Asked, Kinds, Places, Someone
  <2>3. Fresh(q)
    BY <2>2 DEF Fresh, Kinds
  <2>4. Fit(q)
    BY <2>2 DEF Fit
  <2> QED
    BY <1>5, <2>1, <2>2, <2>3, <2>4, BeginStep DEF AskAnswer
<1>6. ASSUME NEW u \in Users, NEW shared \in BOOLEAN, AskRecord(r, u, shared) PROVE IInv'
  <2>1. PICK q : q = [Idle EXCEPT !.op = "record", !.user = u, !.shared = shared,
                                  !.at = IF shared THEN "load" ELSE "write"]
    OBVIOUS
  <2>2. q \in Asked /\ q.op = "record" /\ q.user = u /\ q.invite = 0 /\ q.shared = shared
        /\ q.at = IF shared THEN "load" ELSE "write"
    BY <1>0, <2>1 DEF Asked, Kinds, Places, Someone
  <2>3. Fresh(q)
    BY <2>2 DEF Fresh, Kinds
  <2>4. Fit(q)
    BY <2>2 DEF Fit
  <2> QED
    BY <1>6, <2>1, <2>2, <2>3, <2>4, BeginStep DEF AskRecord
<1> QED
  BY <1>1, <1>2, <1>3, <1>4, <1>5, <1>6 DEF Ask, AskInvite, AskRole
-----------------------------------------------------------------------------
(* The steps that only look.                                               *)
LEMMA Now ==
    ASSUME IInv
    PROVE  /\ Stored /\ Ruled /\ Invited /\ Traces /\ Razed /\ Requested
           /\ workspace.members \in Seq(Entries) /\ workspace.v \in Nat /\ In(workspace.members) = Members
           /\ (workspace.state = "live" => workspace.owner \in Users)
           /\ (workspace.state = "none" => Members = {})
           /\ \A r \in Requests : request[r] \in Asked /\ Ok(request[r])
PROOF
<1>1. Stored /\ Ruled /\ Invited /\ Traces /\ Razed /\ Requested
  BY DEF IInv
<1>2. workspace.members \in Seq(Entries) /\ workspace.v \in Nat /\ (workspace.state = "live" =>
       workspace.owner \in Users)
  BY <1>1 DEF Stored
<1>3. In(workspace.members) = Members
  BY DEF In, Members
<1>4. workspace.state = "none" => Members = {}
  <2>1. workspace.members = <<>> => DOMAIN workspace.members = {}
    OBVIOUS
  <2> QED
    BY <1>1, <2>1 DEF Stored, Members
<1> QED
  BY <1>1, <1>2, <1>3, <1>4 DEF Requested

LEMMA LoadStep ==
    ASSUME IInv, NEW r \in Requests, Load(r)
    PROVE  IInv'
PROOF
<1> DEFINE q == request[r]
           m == workspace.members
           may == /\ workspace.state = "live"
                  /\ \/ q.op = "invite" /\ MayInvite(q, m)
                     \/ q.op = "role" /\ MayChange(q, m)
                     \/ q.op = "remove" /\ MayRemove(q, m)
<1>1. q \in Asked /\ Ok(q) /\ Stored /\ Ruled /\ m \in Seq(Entries) /\ workspace.v \in Nat /\ In(m) = Members
  BY Now
<1>2. q.op \in {"invite", "role", "remove"} /\ q.at = "load" /\ q.who \in Users /\ q.user \in Users
  BY <1>1 DEF Load, Ok, Fit
<1>3. UNCHANGED <<users, workspace, invites, record, history>>
  BY DEF Load
<1>4. CASE ~may
  <2>1. Ends(r)
    BY <1>4 DEF Load
  <2> QED
    BY <1>2, <1>3, <2>1, QuietEnds
<1>5. CASE may
  <2>1. PICK p : p = [q EXCEPT !.at = "write", !.members = m, !.v = workspace.v]
    OBVIOUS
  <2>2. p \in Asked /\ p.op = q.op /\ p.at = "write" /\ p.user = q.user /\ p.who =
         q.who /\ p.role = q.role
        /\ p.invite = q.invite /\ p.members = m /\ p.v = workspace.v /\ p.shared =
            q.shared /\ p.fate = q.fate
    BY <1>1, <2>1 DEF Asked, Places
  <2>3. request' = [request EXCEPT ![r].at = "write", ![r].members = m, ![r].v = workspace.v]
    BY <1>5 DEF Load
  <2>4. Moves(r, p)
    <3>1. request \in [Requests -> Asked]
      BY Now DEF Requested
    <3> QED
      BY <2>1, <2>3, <3>1 DEF Moves
  <2>5. SameOrNone(p, q)
    BY <2>2 DEF SameOrNone
  <2>6. workspace.state = "live"
    BY <1>5
  <2>7. q.op \in {"role", "remove"} => RoleOf(m, q.who) \in InviteRoles
    BY <1>5 DEF MayChange, MayRemove
  <2>8. q.op = "invite" => q.who \in users /\ q.who \notin Members
    <3>1. q.op = "invite" => q.who \in users /\ Sane(m) /\ Place(m, q.who) = 0
      BY <1>5 DEF MayInvite
    <3> QED
      BY <1>1, <1>2, <3>1, PlaceFacts
  <2>9. Fit(p)
    <3>1. q.op = "role" => Place(m, q.who) # 0
      BY <1>1, <1>2, <2>7, PlaceFacts DEF InviteRoles
    <3> QED
      BY <1>1, <1>2, <2>2, <2>6, <3>1 DEF Ok, Fit
  <2>10. Known(p)
    BY <1>1, <1>2, <2>2, <2>8 DEF Ok, Known
  <2>11. Copied(p)
    <3>1. Disowned \/ Led(m)
      BY <1>1, <2>6 DEF Ruled
    <3>2. p.op = "remove" => Sane(m) /\ Twins(m)
      BY <1>1, <1>5, <2>2, <2>6 DEF Ruled, MayRemove
    <3>3. Aligned(m, m)
      BY DEF Aligned
    <3>4. p.v <= workspace.v
      BY <1>1, <2>2
    <3> HIDE DEF m, may
    <3> QED
      BY <1>1, <2>2, <2>7, <3>1, <3>2, <3>3, <3>4 DEF Copied, Writes, m
  <2>12. Owned(p) /\ Leaving(p) /\ Razing(p)
    BY <1>2, <2>2 DEF Owned, Leaving, Razing, Writes
  <2>13. Entering(p)
    BY <1>2, <2>2, <2>8 DEF Entering, Writes
  <2>14. Ok(p)
    BY <2>9, <2>10, <2>11, <2>12, <2>13 DEF Ok
  <2> QED
    BY <1>2, <1>3, <2>2, <2>4, <2>5, <2>14, QuietGoes
<1> QED
  BY <1>4, <1>5

LEMMA LoadInviteStep ==
    ASSUME IInv, NEW r \in Requests, LoadInvite(r)
    PROVE  IInv'
PROOF
<1>1. request[r] \in Asked /\ Ok(request[r]) /\ Stored /\ Invited /\ Requested
  BY Now
<1>2. request[r].op \in {"accept", "decline"} /\ request[r].at = "load"
  BY DEF LoadInvite
<1>3. UNCHANGED <<users, workspace, invites, record, history>>
  BY DEF LoadInvite
<1>4. CASE invites[request[r].invite].status # "pending"
  <2>1. Ends(r)
    BY <1>4 DEF LoadInvite
  <2> QED
    BY <1>2, <1>3, <2>1, QuietEnds
<1>5. CASE invites[request[r].invite].status = "pending"
  <2>1. PICK at \in Places : Goes(r, at) /\ at = IF request[r].op =
         "accept" THEN "join" ELSE "settle"
    BY <1>5 DEF LoadInvite, Places
  <2>2. PICK q : q = [request[r] EXCEPT !.at = at]
    OBVIOUS
  <2>3. /\ Moves(r, q) /\ SameOrNone(q, request[r]) /\ q \in Asked
        /\ q.op = request[r].op /\ q.at = at /\ q.user = request[r].user /\ q.who = request[r].who
        /\ q.invite = request[r].invite /\ q.fate = request[r].fate
    BY <1>1, <2>1, <2>2, GoesMoves
  <2>4. q.user \in Users /\ q.invite \in DOMAIN invites /\ invites[q.invite].to = q.user
    BY <1>1, <1>2, <2>3 DEF Ok, Fit
  <2>5. Fit(q)
    BY <1>1, <1>2, <2>1, <2>3, <2>4 DEF Fit, Ok
  <2>6. Known(q)
    BY <1>1, <1>2, <2>3 DEF Ok, Known
  <2>7. Copied(q) /\ Owned(q) /\ Leaving(q) /\ Razing(q)
    BY <1>2, <2>3 DEF Copied, Owned, Leaving, Razing, Writes
  <2>8. Entering(q)
    <3> SUFFICES ASSUME q.op = "accept"
                 PROVE  /\ q.user \in Members => Back(q.user)
                        /\ q.invite <= left[q.user] => Back(q.user)
                        /\ \A i \in DOMAIN invites :
                            ~(i # q.invite /\ invites[i].to = q.user /\ Pending(i))
      BY <1>2, <2>3 DEF Entering, Writes
    <3>1. Pending(q.invite)
      BY <1>5, <2>3 DEF Pending
    <3>2. \A i \in DOMAIN invites : ~(i # q.invite /\ invites[i].to = q.user /\ Pending(i))
      BY <1>1, <2>4, <3>1 DEF Invited
    <3>3. ASSUME q.user \in Members \/ q.invite <= left[q.user] PROVE Back(q.user)
      <4>1. Back(q.user) \/ \E p \in Requests : Settles(request[p], q.invite)
        BY <1>1, <2>4, <3>1, <3>3 DEF Invited
      <4>2. ASSUME NEW p \in Requests, Settles(request[p], q.invite) PROVE Back(q.user)
        <5>1. p # r
          BY <1>2, <4>2 DEF Settles
        <5>2. Joins(request[p], q.user)
          <6>1. Fit(request[p])
            BY Now DEF Ok
          <6> QED
            BY <2>4, <4>2, <6>1 DEF Settles, Joins, Fit
        <5>3. Meet(request[r], request[p])
          BY <1>1, <5>1 DEF Requested
        <5> QED
          BY <2>3, <5>2, <5>3 DEF Meet, Back
      <4> QED
        BY <4>1, <4>2
    <3> QED
      BY <3>2, <3>3
  <2>9. Ok(q)
    BY <2>5, <2>6, <2>7, <2>8 DEF Ok
  <2> QED
    BY <1>2, <1>3, <2>3, <2>9, QuietGoes
<1> QED
  BY <1>4, <1>5

LEMMA LoadForJoinStep ==
    ASSUME IInv, NEW r \in Requests, LoadForJoin(r)
    PROVE  IInv'
PROOF
<1>1. request[r] \in Asked /\ Ok(request[r]) /\ Requested
  BY Now
<1>2. request[r].op = "accept" /\ request[r].at = "join"
  BY DEF LoadForJoin, At
<1>3. UNCHANGED <<users, workspace, invites, record, history>>
  BY DEF LoadForJoin
<1>4. ASSUME NEW at \in {"settle", "push"}, Goes(r, at) PROVE IInv'
  <2>1. at \in Places
    BY DEF Places
  <2>2. PICK q : q = [request[r] EXCEPT !.at = at]
    OBVIOUS
  <2>3. /\ Moves(r, q) /\ SameOrNone(q, request[r]) /\ q \in Asked
        /\ q.op = request[r].op /\ q.at = at /\ q.user = request[r].user /\ q.who = request[r].who
        /\ q.invite = request[r].invite /\ q.fate = request[r].fate
    BY <1>1, <1>4, <2>1, <2>2, GoesMoves
  <2>4. Fit(q)
    BY <1>1, <1>2, <2>3 DEF Fit, Ok
  <2>5. Known(q)
    BY <1>1, <1>2, <2>3 DEF Ok, Known
  <2>6. Copied(q) /\ Owned(q) /\ Leaving(q) /\ Razing(q)
    BY <1>2, <2>3 DEF Copied, Owned, Leaving, Razing, Writes
  <2>7. Entering(q)
    BY <1>1, <1>2, <2>3 DEF Ok, Entering, Writes
  <2>8. Ok(q)
    BY <2>4, <2>5, <2>6, <2>7 DEF Ok
  <2> QED
    BY <1>2, <1>3, <2>3, <2>8, QuietGoes
<1>5. ASSUME Ends(r) PROVE IInv'
  BY <1>2, <1>3, <1>5, QuietEnds
<1> QED
  BY <1>4, <1>5 DEF LoadForJoin

LEMMA CheckRoleStep ==
    ASSUME IInv, NEW r \in Requests, CheckRole(r)
    PROVE  IInv'
PROOF
<1>1. request[r] \in Asked /\ Ok(request[r]) /\ Requested
  BY Now
<1>2. request[r].op = "record" /\ request[r].at = "load" /\ request[r].user \in Users
  BY <1>1 DEF CheckRole, At, Ok, Fit
<1>3. UNCHANGED <<users, workspace, invites, record, history>>
  BY DEF CheckRole
<1>4. ASSUME Goes(r, "write"), workspace.state = "live",
             RoleOf(workspace.members, request[r].user) \in {"owner", "editor"}
      PROVE  IInv'
  <2>1. "write" \in Places
    BY DEF Places
  <2>2. PICK q : q = [request[r] EXCEPT !.at = "write"]
    OBVIOUS
  <2>3. /\ Moves(r, q) /\ SameOrNone(q, request[r]) /\ q \in Asked
        /\ q.op = request[r].op /\ q.at = "write" /\ q.user = request[r].user /\ q.who =
            request[r].who
        /\ q.invite = request[r].invite /\ q.fate = request[r].fate /\ q.shared = request[r].shared
    BY <1>1, <1>4, <2>1, <2>2, GoesMoves
  <2>4. q.user \in Members
    <3>1. Place(workspace.members, q.user) # 0
      BY <1>2, <1>4, <2>3, Now, PlaceFacts
    <3> QED
      BY <1>2, <2>3, <3>1, Now, PlaceFacts
  <2>5. Fit(q)
    BY <1>1, <1>2, <1>4, <2>3 DEF Fit, Ok
  <2>6. Known(q)
    BY <1>1, <1>2, <2>3 DEF Ok, Known
  <2>7. Copied(q) /\ Owned(q) /\ Entering(q)
    BY <1>2, <2>3 DEF Copied, Owned, Entering, Writes
  <2>8. Leaving(q) /\ Razing(q)
    BY <1>2, <1>4, <2>3, <2>4 DEF Leaving, Razing, Writes
  <2>9. Ok(q)
    BY <2>5, <2>6, <2>7, <2>8 DEF Ok
  <2> QED
    BY <1>2, <1>3, <2>3, <2>9, QuietGoes
<1>5. ASSUME Ends(r) PROVE IInv'
  BY <1>2, <1>3, <1>5, QuietEnds
<1> QED
  BY <1>4, <1>5 DEF CheckRole

LEMMA CheckAllowedStep ==
    ASSUME IInv, NEW r \in Requests, CheckAllowed(r)
    PROVE  IInv'
PROOF
<1>1. request[r] \in Asked /\ Ok(request[r]) /\ Requested /\ Ruled
  BY Now
<1>2. request[r].op = "delete" /\ request[r].at = "check" /\ request[r].user \in Users
  BY <1>1 DEF CheckAllowed, At, Ok, Fit
<1>3. UNCHANGED <<users, workspace, invites, record, history>>
  BY DEF CheckAllowed
<1>4. ASSUME Goes(r, "impact"),
             ~(workspace.state = "live" /\ workspace.owner =
                 request[r].user /\ Len(workspace.members) > 1)
      PROVE  IInv'
  <2>1. "impact" \in Places
    BY DEF Places
  <2>2. PICK q : q = [request[r] EXCEPT !.at = "impact"]
    OBVIOUS
  <2>3. /\ Moves(r, q) /\ SameOrNone(q, request[r]) /\ q \in Asked
        /\ q.op = request[r].op /\ q.at = "impact" /\ q.user = request[r].user /\ q.who =
            request[r].who
        /\ q.invite = request[r].invite /\ q.fate = request[r].fate /\ q.shared = request[r].shared
    BY <1>1, <1>4, <2>1, <2>2, GoesMoves
  <2>4. Owned(q)
    <3> SUFFICES ASSUME q.user = workspace.owner, workspace.state = "live", ~Disowned
                 PROVE  Members \subseteq {workspace.owner, NoUser}
      BY <2>3 DEF Owned
    <3>1. Led(workspace.members)
      BY <1>1 DEF Ruled
    <3>2. Len(workspace.members) \in Nat /\ DOMAIN workspace.members = 1..Len(workspace.members)
      BY Now, LenProperties
    <3>3. Len(workspace.members) = 1
      <4>1. Len(workspace.members) > 0
        BY <3>1 DEF Led
      <4>2. ~(Len(workspace.members) > 1)
        BY <1>4, <2>3, Zenon
      <4>3. PICK n \in Nat : n = Len(workspace.members)
        BY <3>2
      <4>4. n > 0 /\ ~(n > 1)
        BY <4>1, <4>2, <4>3
      <4>5. n = 1
        BY <4>4
      <4> QED
        BY <4>3, <4>5
    <3>4. DOMAIN workspace.members = {1} /\ workspace.members[1].user = workspace.owner
      BY <3>1, <3>2, <3>3 DEF Led, Entry
    <3> QED
      BY <3>4 DEF Members
  <2>5. Fit(q)
    BY <1>1, <1>2, <2>3 DEF Fit, Ok, Cascading
  <2>6. Known(q)
    BY <1>1, <1>2, <2>3 DEF Ok, Known
  <2>7. Copied(q) /\ Entering(q) /\ Leaving(q) /\ Razing(q)
    BY <1>2, <2>3 DEF Copied, Entering, Leaving, Razing, Writes
  <2>8. Ok(q)
    BY <2>4, <2>5, <2>6, <2>7 DEF Ok
  <2> QED
    BY <1>2, <1>3, <2>3, <2>8, QuietGoes
<1>5. ASSUME Ends(r) PROVE IInv'
  BY <1>2, <1>3, <1>5, QuietEnds
<1> QED
  BY <1>4, <1>5 DEF CheckAllowed

LEMMA ImpactStep ==
    ASSUME IInv, NEW r \in Requests, Impact(r)
    PROVE  IInv'
PROOF
<1>1. request[r] \in Asked /\ Ok(request[r]) /\ Requested /\ Ruled /\ Stored /\ Traces
  BY Now
<1>2. request[r].op = "delete" /\ request[r].at = "impact" /\ request[r].user \in Users
  BY <1>1 DEF Impact, At, Ok, Fit
<1>3. UNCHANGED <<users, workspace, invites, record, history>>
  BY DEF Impact
<1>4. PICK u : u = request[r].user
  OBVIOUS
<1>5. PICK fate : fate = IF workspace.state # "live" \/ u \notin Members THEN "none"
                         ELSE IF Members \ {u} # {} THEN "retained" ELSE "emptied"
  OBVIOUS
<1>6. fate \in {"none", "retained", "emptied"}
  BY <1>5
<1>7. \/ Ends(r)
      \/ /\ request' = [request EXCEPT ![r].at = "personal", ![r].fate = fate]
         /\ fate = "none" \/ Sane(workspace.members)
  BY <1>4, <1>5 DEF Impact
<1>8. ASSUME request' = [request EXCEPT ![r].at = "personal", ![r].fate = fate],
             fate = "none" \/ Sane(workspace.members)
      PROVE  IInv'
  <2>1. PICK q : q = [request[r] EXCEPT !.at = "personal", !.fate = fate]
    OBVIOUS
  <2>2. q \in Asked /\ q.op = "delete" /\ q.at = "personal" /\ q.user = u /\ q.who = request[r].who
        /\ q.invite = request[r].invite /\ q.fate = fate
    BY <1>1, <1>2, <1>4, <1>6, <2>1 DEF Asked, Places
  <2>3. Moves(r, q) /\ SameOrNone(q, request[r])
    <3>1. request \in [Requests -> Asked]
      BY <1>1 DEF Requested
    <3> QED
      BY <1>2, <1>4, <1>8, <2>1, <2>2, <3>1 DEF Moves, SameOrNone
  <2>4. Fit(q)
    <3>1. q.fate # "none" => workspace.state # "none"
      BY <1>5, <2>2
    <3> QED
      BY <1>1, <1>2, <1>4, <2>2, <3>1 DEF Fit, Ok, Cascading
  <2>5. Known(q)
    BY <1>1, <1>2, <1>4, <2>2 DEF Ok, Known
  <2>6. Copied(q) /\ Entering(q)
    BY <2>2 DEF Copied, Entering, Writes
  <2>7. Owned(q)
    <3> SUFFICES ASSUME u = workspace.owner, workspace.state = "live", ~Disowned
                 PROVE  fate = "emptied"
      BY <2>2 DEF Owned
    <3>1. Members \subseteq {u, NoUser}
      BY <1>1, <1>2, <1>4 DEF Ok, Owned
    <3>2. Led(workspace.members)
      BY <1>1 DEF Ruled
    <3>3. u \in Members
      <4>1. 1 \in DOMAIN workspace.members /\ workspace.members[1].user = u
        BY <3>2, Now, LenProperties DEF Led, Entry
      <4> QED
        BY <4>1 DEF Members
    <3>4. fate # "none" /\ NoUser \notin Members
      BY <1>5, <1>8, <3>3 DEF Sane, Members
    <3> QED
      BY <1>5, <3>1, <3>4
  <2>8. Leaving(q)
    <3> SUFFICES ASSUME fate = "none", NEW x \in Records, Mine(x, u), record[x].shared
                 PROVE  Kept(u)
      BY <2>2 DEF Leaving, Writes
    <3>1. u \in Members \/ Kept(u)
      BY <1>1, <1>2, <1>4 DEF Traces
    <3>2. ASSUME u \in Members PROVE workspace.state = "gone"
      <4>1. workspace.state # "live"
        BY <1>5, <3>2
      <4>2. workspace.state # "none"
        BY <3>2, Now
      <4>3. workspace.state \in {"none", "live", "gone"}
        BY <1>1 DEF Stored
      <4> QED
        BY <4>1, <4>2, <4>3
    <3> QED
      BY <3>1, <3>2 DEF Kept
  <2>9. Razing(q)
    BY <1>5, <2>2 DEF Razing, Writes
  <2>10. Ok(q)
    BY <2>4, <2>5, <2>6, <2>7, <2>8, <2>9 DEF Ok
  <2> QED
    BY <1>2, <1>3, <2>2, <2>3, <2>10, QuietGoes
<1>9. ASSUME Ends(r) PROVE IInv'
  BY <1>2, <1>3, <1>9, QuietEnds
<1> QED
  BY <1>7, <1>8, <1>9
-----------------------------------------------------------------------------
(* The steps that write.                                                   *)
LEMMA OwnIsMore ==
    ASSUME NEW u, Beside(u, {"own"})
    PROVE  /\ Beside(u, {"own", "remove"}) /\ Beside(u, {"own", "invite"}) /\ Beside(u, {"own", "role"})
           /\ Beside(u, {"own", "record"}) /\ Beside(u, {"own", "accept", "remove"}) /\ Back(u)
           /\ u \in Users => Leftover
PROOF
<1>1. Beside(u, {"own", "remove"})
  BY BesideMore
<1>2. Beside(u, {"own", "invite"})
  BY BesideMore
<1>3. Beside(u, {"own", "role"})
  BY BesideMore
<1>4. Beside(u, {"own", "record"})
  BY BesideMore
<1>5. Beside(u, {"own", "accept", "remove"})
  BY BesideMore
<1> QED
  BY <1>1, <1>2, <1>3, <1>4, <1>5 DEF Back, Leftover

LEMMA StepDone ==
    ASSUME IInv, NEW r \in Requests, NEW q \in Asked, Moves(r, q), SameOrNone(q, request[r]),
           Grows, Ok(q)',
           \A p \in Asked : Ok(p) /\ Meet(request[r], p) /\ Meet(p, request[r]) => Ok(p)',
           Stored', Ruled', Invited', Traces', Razed'
    PROVE  IInv'
PROOF
<1>1. Requested'
  BY Now, OneMoves
<1> QED
  BY <1>1 DEF IInv

LEMMA EndDone ==
    ASSUME IInv, NEW r \in Requests, Ends(r), Grows,
           \A p \in Asked : Ok(p) /\ Meet(request[r], p) /\ Meet(p, request[r]) => Ok(p)',
           Stored', Ruled', Invited', Traces', Razed'
    PROVE  IInv'
PROOF
  BY IdleOk, EndsMoves, StepDone

LEMMA InsertWorkspaceStep ==
    ASSUME IInv, NEW r \in Requests, InsertWorkspace(r)
    PROVE  IInv'
PROOF
<1>0. PICK q : q = request[r]
  OBVIOUS
<1>1. q \in Asked /\ Ok(q) /\ Requested /\ Ruled /\ Stored /\ Traces /\ Invited
  BY <1>0, Now
<1>2. q.op = "create" /\ q.at = "write" /\ q.user \in Users /\ workspace.state = "none"
  BY <1>0, <1>1 DEF InsertWorkspace, At, Ok, Fit
<1>3. PICK u \in Users : u = q.user
  BY <1>2
<1>4. PICK m : m = <<Entry(u, "owner")>>
  OBVIOUS
<1>5. /\ UNCHANGED <<users, invites, record, overlapped, doubled, left, quit>> /\ Ends(r)
      /\ workspace' = [state |-> "live", owner |-> u, members |-> m, v |-> 0]
  BY <1>0, <1>3, <1>4 DEF InsertWorkspace, history
<1>6. m \in Seq(Entries) /\ Len(m) = 1 /\ DOMAIN m = {1} /\ m[1] =
       Entry(u, "owner") /\ m[1].user = u
  <2>1. Entry(u, "owner") \in Entries /\ Entry(u, "owner").user = u
    BY DEF Entry, Entries, Someone
  <2> QED
    BY <1>4, <2>1
<1>7. /\ workspace'.state = "live" /\ workspace'.owner = u /\ workspace'.members =
       m /\ workspace'.v = 0
      /\ Members = {} /\ (\A w : w \in Members' <=> w = u)
  <2>1. workspace'.state = "live" /\ workspace'.owner = u /\ workspace'.members =
         m /\ workspace'.v = 0
    BY <1>5
  <2>2. Members' = {m[i].user : i \in DOMAIN m}
    BY <2>1 DEF Members
  <2> QED
    BY <1>2, <1>6, <2>1, <2>2, Now
<1>8. Grows /\ FewerRecords /\ FewerPending /\ SameInvites /\ DOMAIN invites =
       {} /\ \A x \in Records : ~record[x].shared
  <2>1. invites = <<>>
    BY <1>1, <1>2 DEF Stored
  <2> QED
    BY <1>1, <1>2, <1>5, <2>1 DEF Grows, FewerRecords, FewerPending, SameInvites, Stored
<1>9. \A w \in Users : Kept(w) => Kept(w)'
  <2>1. \A w \in Users : Kept(w) => Beside(w, {"own"}) \/ w \in quit
    BY <1>2 DEF Kept
  <2> QED
    BY <1>5, <1>8, <2>1, Grown DEF Kept
<1>10. ASSUME NEW p \in Asked, Ok(p), Meet(q, p), Meet(p, q)
       PROVE  Ok(p)'
  <2>1. p.op # "create" /\ (p.op # "none" => p.user \in Users)
    BY <1>2, <1>10 DEF Meet, Ok, Fit
  <2>2. p.op \in {"invite", "role", "remove"} => p.at # "write"
    BY <1>2, <1>10 DEF Ok, Fit
  <2>3. p.op # "accept" /\ ~(Writes(p, "record") /\ p.shared)
    BY <1>2, <1>8, <1>10 DEF Ok, Fit, Writes
  <2>4. p.op = "delete" => p.fate # "emptied" /\ p.at \notin {"raze", "close"}
    BY <1>2, <1>10 DEF Ok, Fit
  <2>5. p.op = "delete" /\ p.user = u =>
           Beside(u, {"own", "remove"})' /\ Beside(u, {"own", "accept", "remove"})'
    <3>1. p.op = "delete" /\ p.user = u =>
             Beside(u, {"own", "remove"}) /\ Beside(u, {"own", "accept", "remove"})
      BY <1>2, <1>3, <1>10, DeletionMeets
    <3> QED
      BY <1>8, <3>1, Grown
  <2>6. Fit(p)'
    BY <1>2, <1>7, <1>8, <1>10, <2>1, FitKept DEF Ok
  <2>7. Known(p)'
    BY <1>5, <1>8, <1>10, KnownKept DEF Ok
  <2>8. Copied(p)' /\ Entering(p)'
    BY <2>2, <2>3 DEF Copied, Entering, Writes
  <2>9. Owned(p)'
    BY <1>7, <2>5 DEF Owned, Disowned
  <2>10. Leaving(p)'
    BY <1>7, <1>8, <1>9, <1>10, <2>1, <2>5, LeavingKept DEF Ok
  <2>11. Razing(p)'
    BY <2>3, <2>4 DEF Razing, Writes
  <2> QED
    BY <2>6, <2>7, <2>8, <2>9, <2>10, <2>11 DEF Ok
<1>11. u \notin users => Beside(u, {"own", "remove"})' /\ Beside(u, {"own", "accept", "remove"})'
  <2>1. u \notin users => Beside(u, {"own"})
    BY <1>1, <1>2, <1>3 DEF Ok, Known
  <2>2. u \notin users => Beside(u, {"own", "remove"}) /\ Beside(u, {"own", "accept", "remove"})
    BY <2>1, OwnIsMore
  <2> QED
    BY <1>8, <2>2, Grown
<1>12. Stored'
  <2>1. workspace' \in [state : {"none", "live", "gone"}, owner : Someone, members :
         Seq(Entries), v : Nat]
    BY <1>5, <1>6 DEF Someone
  <2>2. /\ users' \subseteq Users /\ invites' \in Seq(Invitations) /\ record' \in [Records -> Made]
        /\ overlapped' \in [Users -> SUBSET (Kinds \cup {"own"})]
        /\ doubled' \subseteq Users /\ quit' \subseteq Users
        /\ left' \in [Users -> Nat] /\ \A w \in Users : left'[w] <= Len(invites')
    BY <1>1, <1>5 DEF Stored
  <2> QED
    BY <1>7, <2>1, <2>2 DEF Stored
<1>13. Ruled'
  <2>1. Disowned' \/ (u \in users' /\ Led(m)')
    BY <1>5, <1>6, <1>7, <1>11 DEF Disowned, Led, Entry
  <2>2. Twins(m)'
    BY <1>6 DEF Twins
  <2>3. Led(m)' => Led(workspace.members)'
    BY <1>7 DEF Led
  <2>4. Twins(workspace.members)'
    BY <1>7, <2>2 DEF Twins
  <2> QED
    BY <1>7, <2>1, <2>3, <2>4 DEF Ruled
<1>14. Invited'
  BY <1>5, <1>8 DEF Invited
<1>15. Traces'
  <2>1. \A w \in Users : w \in Members \/ Kept(w) => w \in Members' \/ Kept(w)'
    BY <1>7, <1>9
  <2>2. \A w \in Users : w \notin users /\ w \in Members' =>
         w \in Members \/ Beside(w, {"own", "remove"})'
    BY <1>7, <1>11
  <2> QED
    BY <1>1, <1>5, <1>8, <1>9, <2>1, <2>2, TracesKept
<1>16. Razed'
  BY <1>7 DEF Razed
<1> QED
  BY <1>0, <1>5, <1>8, <1>10, <1>12, <1>13, <1>14, <1>15, <1>16, EndDone

LEMMA CreateInviteStep ==
    ASSUME IInv, NEW r \in Requests, CreateInvite(r)
    PROVE  IInv'
PROOF
<1>0. PICK q : q = request[r]
  OBVIOUS
<1>1. q \in Asked /\ Ok(q) /\ Requested /\ Ruled /\ Stored /\ Traces /\ Invited /\ Razed
  BY <1>0, Now
<1>2. q.op = "invite" /\ q.at =
       "write" /\ q.user \in Users /\ q.who \in Users /\ q.role \in InviteRoles
      /\ workspace.state # "none"
  BY <1>0, <1>1 DEF CreateInvite, At, Ok, Fit
<1>3. PICK u \in Users, w \in Users : u = q.user /\ w = q.who
  BY <1>2
<1>4. /\ UNCHANGED <<users, workspace, record, overlapped, doubled, left, quit>> /\ Ends(r)
  BY <1>0, <1>3 DEF CreateInvite, history
<1>5. CASE invites' = invites
  <2>1. UNCHANGED <<users, workspace, invites, record, history>>
    BY <1>4, <1>5 DEF history
  <2> QED
    BY <1>0, <1>2, <1>4, <2>1, QuietEnds
<1>6. CASE invites' # invites
  <2>1. PICK e : e = [to |-> w, by |-> u, role |-> q.role, status |-> "pending"]
    OBVIOUS
  <2>2. e \in Invitations /\ e.to = w /\ e.by = u /\ e.status = "pending"
    BY <1>2, <1>3, <2>1 DEF Invitations
  <2>3. /\ invites' = Append(invites, e)
        /\ \A i \in DOMAIN invites : ~(invites[i].to = w /\ Pending(i))
    BY <1>0, <1>3, <1>6, <2>1 DEF CreateInvite, Pending
  <2>4. PICK n \in Nat : n = Len(invites)
    BY <1>1, InvitesTyped
  <2>5. DOMAIN invites = 1..n /\ invites \in Seq(Invitations)
    BY <1>1, <2>4, InvitesTyped DEF Stored
  <2>6. /\ invites' \in Seq(Invitations) /\ Len(invites') = n + 1 /\ DOMAIN invites' = 1..(n + 1)
        /\ invites'[n + 1] = e /\ \A i \in 1..n : invites'[i] = invites[i]
    BY <2>2, <2>3, <2>4, <2>5
  <2>7. /\ \A i \in 1..(n + 1) : i \in 1..n \/ i = n + 1
        /\ \A i \in 1..n : i \in 1..(n + 1) /\ i # n + 1 /\ ~(n + 1 <= i)
        /\ n + 1 \in 1..(n + 1)
    OBVIOUS
  <2>8. SameInvites /\ Grows /\ FewerRecords /\ StillLive /\ Members' = Members
    BY <1>1, <1>4, <2>5, <2>6, <2>7, Now DEF SameInvites, Grows, FewerRecords, StillLive, Members
  <2>9. \A i \in 1..n : (Pending(i)' <=> Pending(i)) /\ invites'[i].to =
         invites[i].to /\ invites'[i].by = invites[i].by
    BY <2>6 DEF Pending
  <2>10. Pending(n + 1)' /\ invites'[n + 1].to = w /\ invites'[n + 1].by = u
    BY <2>2, <2>6 DEF Pending
  <2>11. \A v \in Users : (Kept(v) => Kept(v)') /\ \A i \in 1..n : Of(i, v)' <=> Of(i, v)
    BY <1>4, <2>8, <2>9, Grown DEF Kept, Of
  <2>12. ASSUME NEW p \in Asked, Ok(p), Meet(q, p), Meet(p, q)
         PROVE  Ok(p)'
    <3>0. p.op # "none" => p.user \in Users
      BY <2>12 DEF Ok, Fit
    <3>1. Fit(p)'
      BY <1>4, <2>8, <2>12, FitKept DEF Ok, Fit
    <3>2. Known(p)'
      BY <1>4, <2>8, <2>12, KnownKept DEF Ok
    <3>3. Copied(p)'
      BY <1>4, <2>8, <2>12, Now, CopiedPart DEF Ok
    <3>4. Owned(p)'
      BY <2>8, <2>12, OwnedKept DEF Ok
    <3>5. Entering(p)'
      <4>1. ASSUME p.op = "accept", p.at \in {"join", "push"}
            PROVE  /\ p.user \in Members' => Back(p.user)'
                   /\ p.invite <= left'[p.user] => Back(p.user)'
                   /\ \A i \in DOMAIN invites' :
                         i # p.invite /\ invites'[i].to = p.user /\ Pending(i)' => Back(p.user)'
        <5>1. p.user \in Users
          BY <3>0, <4>1
        <5>2. Back(p.user) => Back(p.user)'
          BY <2>8, <5>1, Grown
        <5>3. /\ p.user \in Members' => Back(p.user)'
              /\ p.invite <= left'[p.user] => Back(p.user)'
          BY <1>4, <2>8, <2>12, <4>1, <5>2 DEF Ok, Entering
        <5>4. w = p.user => Back(p.user)'
          <6>1. w = p.user => p.user \in doubled
            BY <1>2, <1>3, <2>12, <4>1 DEF Meet, Invites
          <6> QED
            BY <5>2, <6>1 DEF Back
        <5>5. \A i \in 1..n : i # p.invite /\ invites'[i].to = p.user /\ Pending(i)' =>
               Back(p.user)'
          BY <2>5, <2>9, <2>12, <4>1, <5>2 DEF Ok, Entering
        <5> QED
          BY <2>6, <2>7, <2>10, <5>3, <5>4, <5>5
      <4>2. Writes(p, "invite") /\ p.who \in Members' => Back(p.who)'
        <5>1. Writes(p, "invite") => p.who \in Users
          BY <2>12 DEF Ok, Fit, Writes
        <5> QED
          BY <2>8, <2>12, <5>1, Grown DEF Ok, Entering
      <4> QED
        BY <4>1, <4>2 DEF Entering, Writes
    <3>6. Leaving(p)'
      <4>1. ASSUME p.op = "delete"
            PROVE  \A i \in DOMAIN invites' :
                   p.at \in {"pull", "user"} /\ Pending(i)' /\ Of(i, p.user)' =>
                       Beside(p.user, {"own", "invite"})'
        <5>1. p.user \in Users
          BY <3>0, <4>1
        <5>2. Beside(p.user, {"own", "invite"})'
          <6>1. Beside(p.user, {"own", "invite"})
            BY <1>2, <2>12, <4>1, <5>1, DeletionMeets
          <6> QED
            BY <2>8, <5>1, <6>1, Grown
        <5> QED
          BY <5>2
      <4>2. p.op = "delete" => /\ \A x \in Records : (Mine(x, p.user)' <=> Mine(x, p.user)) /\ record'[x] = record[x]
                               /\ (Kept(p.user) => Kept(p.user)')
                               /\ (Beside(p.user, {"own"}) => Beside(p.user, {"own"})')
                               /\ (Beside(p.user, {"own", "remove"}) =>
                                   Beside(p.user, {"own", "remove"})')
        BY <1>4, <2>8, <2>11, <3>0, Grown DEF Mine
      <4>3. Writes(p, "record") /\ p.shared => p.user \in Members' \/ Kept(p.user)'
        BY <2>8, <2>11, <2>12, <3>0 DEF Ok, Leaving, Writes
      <4> QED
        BY <2>8, <2>12, <4>1, <4>2, <4>3 DEF Ok, Leaving, Writes
    <3>7. Razing(p)'
      BY <1>4, <2>8, <2>12, RazingKept DEF Ok
    <3> QED
      BY <3>1, <3>2, <3>3, <3>4, <3>5, <3>6, <3>7 DEF Ok
  <2>13. Stored'
    <3>1. \A v \in Users : left'[v] <= Len(invites')
      <4>1. \A v \in Users : left[v] \in Nat /\ left[v] <= n
        BY <1>1, <2>4 DEF Stored
      <4> QED
        BY <1>4, <2>6, <4>1
    <3> QED
      BY <1>1, <1>2, <1>4, <2>6, <3>1 DEF Stored
  <2>14. Ruled'
    BY <1>1, <1>4, <2>8, RuledKept
  <2>15. Invited'
    <3>1. \A i, j \in DOMAIN invites' :
              invites'[i].to = invites'[j].to /\ i # j => ~(Pending(i)' /\ Pending(j)')
      <4>1. \A i, j \in 1..n : invites'[i].to = invites'[j].to /\ i # j =>
             ~(Pending(i)' /\ Pending(j)')
        BY <1>1, <2>5, <2>9 DEF Invited
      <4>2. \A i \in 1..n : ~(invites'[i].to = w /\ Pending(i)')
        BY <2>3, <2>5, <2>9
      <4> QED
        BY <2>6, <2>7, <2>10, <4>1, <4>2
    <3>2. ASSUME NEW i \in DOMAIN invites', Pending(i)',
                 invites'[i].to \in Members' \/ i <= left'[invites'[i].to]
          PROVE  Back(invites[i].to)' \/ \E o \in Requests : Settles(request[o], i)'
      <4>1. CASE i \in 1..n
        <5>1. Back(invites[i].to) \/ \E o \in Requests : Settles(request[o], i)
          BY <1>1, <1>4, <2>5, <2>8, <2>9, <3>2, <4>1 DEF Invited
        <5>2. \A o \in Requests : Settles(request[o], i) => Settles(request'[o], i)
          <6>1. request \in [Requests -> Asked] /\ request' = [request EXCEPT ![r] = Idle]
            BY <1>1, <1>4 DEF Requested, Ends
          <6>2. \A o \in Requests : o # r => request'[o] = request[o]
            BY <6>1
          <6> QED
            BY <1>0, <1>2, <6>2 DEF Settles
        <5>3. PICK v \in Users : v = invites[i].to
          BY <1>1, <2>5, <4>1, InvitesTyped
        <5>4. Back(v) => Back(v)'
          BY <2>8, Grown
        <5>5. v = invites'[i].to
          BY <2>9, <4>1, <5>3
        <5>6. Back(v)' \/ \E o \in Requests : Settles(request'[o], i)
          BY <5>1, <5>2, <5>3, <5>4
        <5> QED
          BY <5>5, <5>6 DEF Back, Settles
      <4>2. CASE i = n + 1
        <5>1. ~(i <= left'[w])
          <6>1. left[w] \in Nat /\ left[w] <= n
            BY <1>1, <2>4 DEF Stored
          <6> QED
            BY <1>4, <4>2, <6>1
        <5>2. w \in Members
          BY <2>8, <2>10, <3>2, <4>2, <5>1
        <5>3. Back(w)
          BY <1>1, <1>2, <1>3, <5>2 DEF Ok, Entering, Writes
        <5>4. Back(w)'
          BY <2>8, <5>3, Grown
        <5> QED
          BY <2>10, <4>2, <5>4 DEF Back
      <4> QED
        BY <2>6, <2>7, <3>2, <4>1, <4>2
    <3> QED
      BY <3>1, <3>2 DEF Invited
  <2>16. Traces'
    <3>1. \A x \in Records, v \in Users : Mine(x, v)' /\ record'[x].shared =>
           v \in Members' \/ Kept(v)'
      BY <1>1, <1>4, <2>8, <2>11 DEF Traces, Mine
    <3>2. ASSUME NEW v \in Users, v \notin users
          PROVE  /\ \A x \in Records : Mine(x, v)' => Beside(v, {"own"})' \/ (record'[x].shared /\ Kept(v)')
                 /\ v \in Members' => Beside(v, {"own", "remove"})'
                 /\ \A i \in DOMAIN invites' : Pending(i)' /\ Of(i, v)' =>
                     Beside(v, {"own", "invite"})'
      <4>1. \A x \in Records : Mine(x, v)' => Beside(v, {"own"})' \/ (record'[x].shared /\ Kept(v)')
        BY <1>1, <1>4, <2>8, <2>11, <3>2, Grown DEF Traces, Mine
      <4>2. v \in Members' => Beside(v, {"own", "remove"})'
        BY <1>1, <2>8, <3>2, Grown DEF Traces
      <4>3. \A i \in 1..n : Pending(i)' /\ Of(i, v)' => Beside(v, {"own", "invite"})'
        BY <1>1, <2>5, <2>8, <2>9, <2>11, <3>2, Grown DEF Traces
      <4>4. v = w \/ v = u => Beside(v, {"own", "invite"})'
        <5>1. v = w => Beside(v, {"own", "invite"})
          BY <1>1, <1>2, <1>3, <3>2 DEF Ok, Known
        <5>2. v = u => Beside(v, {"own"})
          BY <1>1, <1>2, <1>3, <3>2 DEF Ok, Known
        <5>3. v = w \/ v = u => Beside(v, {"own", "invite"})
          BY <5>1, <5>2, OwnIsMore
        <5> QED
          BY <2>8, <5>3, Grown
      <4>5. Of(n + 1, v)' => v = w \/ v = u
        BY <2>10 DEF Of
      <4> QED
        BY <2>6, <2>7, <4>1, <4>2, <4>3, <4>4, <4>5
    <3> QED
      BY <1>4, <3>1, <3>2 DEF Traces
  <2>17. Razed'
    BY <1>1, <1>4, <2>8, RazedKept
  <2> QED
    BY <1>0, <1>4, <2>8, <2>12, <2>13, <2>14, <2>15, <2>16, <2>17, EndDone
<1> QED
  BY <1>5, <1>6

LEMMA SaveRoleStep ==
    ASSUME IInv, NEW r \in Requests, SaveRole(r)
    PROVE  IInv'
PROOF
<1>0. PICK q : q = request[r]
  OBVIOUS
<1>1. q \in Asked /\ Ok(q) /\ Requested /\ Ruled /\ Stored /\ Traces /\ Invited /\ Razed
  BY <1>0, Now
<1>2. q.op = "role" /\ q.at =
       "write" /\ q.user \in Users /\ q.who \in Users /\ q.role \in InviteRoles
      /\ q.members \in Seq(Entries) /\ workspace.state # "none"
  BY <1>0, <1>1 DEF SaveRole, At, Ok, Fit, Asked
<1>3. UNCHANGED <<users, invites, record, overlapped, doubled, left, quit>> /\ Ends(r)
  BY DEF SaveRole, history
<1>4. PICK i : i = Place(q.members, q.who)
  OBVIOUS
<1>5. CASE workspace' = workspace
  <2>1. UNCHANGED <<users, workspace, invites, record, history>>
    BY <1>3, <1>5 DEF history
  <2> QED
    BY <1>0, <1>2, <1>3, <2>1, QuietEnds
<1>6. CASE workspace' # workspace
  <2>1. PICK m \in Seq(Entries) : m = workspace.members
    BY Now
  <2>1a. PICK W : W = RoleSetAt(m, i, q.role)
    OBVIOUS
  <2>2. workspace' = [workspace EXCEPT !.members = W] /\ Current(q)
    BY <1>0, <1>4, <1>6, <2>1, <2>1a DEF SaveRole, Unmoved, Current
  <2>3. i \in Nat \ {0} /\ i \in DOMAIN q.members /\ RoleOf(q.members, q.who) \in InviteRoles
        /\ RoleOf(q.members, q.who) = q.members[i].role
    <3>1. i # 0 /\ RoleOf(q.members, q.who) \in InviteRoles
      BY <1>1, <1>2, <1>4 DEF Ok, Fit, Copied, Writes
    <3>2. RoleOf(q.members, q.who) # "none"
      BY <3>1 DEF InviteRoles
    <3> QED
      BY <1>2, <1>4, <3>1, <3>2, PlaceFacts
  <2>4. PICK n \in Nat : n = Len(m) /\ DOMAIN m = 1..n
    BY LenProperties
  <2>5. /\ W \in Seq(Entries) /\ Len(W) >= n /\ (i <= n => Len(W) = n)
        /\ \A j \in 1..n : j \in DOMAIN W /\ W[j].user = m[j].user
        /\ \A j \in 1..n : j # i => W[j] = m[j]
        /\ \A j \in DOMAIN W : j \notin 1..n => W[j].user = NoUser
    <3>1. PICK role \in InviteRoles, k \in Nat \ {0} : role = q.role /\ k = i
      BY <1>2, <2>3
    <3>2. W = RoleSetAt(m, k, role)
      BY <2>1, <2>1a, <3>1
    <3>3. /\ RoleSetAt(m, k, role) \in Seq(Entries)
          /\ Len(RoleSetAt(m, k, role)) >= Len(m)
          /\ k <= Len(m) => Len(RoleSetAt(m, k, role)) = Len(m)
          /\ \A j \in DOMAIN m : /\ j \in DOMAIN RoleSetAt(m, k, role)
                                 /\ RoleSetAt(m, k, role)[j].user = m[j].user
          /\ \A j \in DOMAIN m : j # k => RoleSetAt(m, k, role)[j] = m[j]
          /\ \A j \in DOMAIN RoleSetAt(m, k, role) :
                j \notin DOMAIN m => RoleSetAt(m, k, role)[j].user = NoUser
      BY RoleSetFacts
    <3> QED
      BY <2>4, <3>1, <3>2, <3>3
  <2>6. /\ workspace'.state = workspace.state /\ workspace'.owner = workspace.owner
        /\ workspace'.v = workspace.v /\ workspace'.members = W /\ workspace.state = "live"
        /\ workspace' \in [state : {"none", "live", "gone"}, owner : Someone, members :
            Seq(Entries), v : Nat]
    BY <1>1, <2>2, <2>5 DEF Stored, Current
  <2>7. Members = {m[j].user : j \in 1..n} /\ Members' = {W[j].user : j \in DOMAIN W}
    BY <2>1, <2>1a, <2>4, <2>6 DEF Members
  <2>8. Members \subseteq Members' /\ Members' \subseteq Members \cup {NoUser}
    BY <2>5, <2>7
  <2>9. \A v \in Users : v \in Members' <=> v \in Members
    BY <2>8, NamesAssumption
  <2>10. Grows /\ FewerRecords /\ FewerPending /\ SameInvites /\ StillLive
    BY <1>3, <2>6, Now DEF Grows, FewerRecords, FewerPending, SameInvites, StillLive
  <2>11. \A v \in Users : Kept(v) => Kept(v)'
    BY <1>3, <2>6, <2>10, Grown DEF Kept
  <2>12. ASSUME NEW p \in Asked, Ok(p), Meet(q, p), Meet(p, q)
         PROVE  Ok(p)'
    <3>0. p.op # "none" => p.user \in Users
      BY <2>12 DEF Ok, Fit
    <3>1. Fit(p)'
      BY <2>6, <2>10, <2>12, FitKept DEF Ok, Fit
    <3>2. Known(p)'
      BY <1>3, <2>10, <2>12, KnownKept DEF Ok
    <3>3. Copied(p)'
      <4>1. ASSUME Aligned(p.members, workspace.members)
            PROVE  Aligned(p.members, workspace'.members) \/ \E u \in Users :
                   Beside(u, {"own", "role"})'
        <5>1. CASE Aligned(q.members, m)
          <6>1. i \in 1..n
            BY <1>2, <2>3, <2>4, <5>1, LenProperties DEF Aligned
          <6>2. Len(W) = n
            BY <2>5, <6>1
          <6>3. p.members \in Seq(Entries) /\ Len(p.members) = n /\ DOMAIN p.members = 1..n
            BY <2>1, <2>1a, <2>4, <4>1, LenProperties DEF Aligned, Asked
          <6>4. \A j \in DOMAIN p.members : p.members[j].user = W[j].user
            BY <2>1, <2>1a, <2>5, <4>1, <6>3 DEF Aligned
          <6> QED
            BY <2>6, <6>2, <6>3, <6>4 DEF Aligned
        <5>2. CASE \E u \in Users : Beside(u, {"own", "role"})
          BY <2>10, <5>2, Grown
        <5> QED
          BY <1>1, <1>2, <2>1, <2>1a, <2>2, <5>1, <5>2 DEF Ok, Copied, Writes
      <4>2. \A u \in Users : u \in Members => u \in Members'
        BY <2>8
      <4> QED
        BY <2>6, <2>8, <2>10, <2>12, <4>1, <4>2, Now, CopiedPart DEF Ok
    <3>4. Owned(p)'
      BY <2>8, <2>10, <2>12, OwnedKept DEF Ok
    <3>5. Entering(p)'
      BY <1>3, <2>9, <2>10, <2>12, EnteringKept DEF Ok
    <3>6. Leaving(p)'
      BY <2>9, <2>10, <2>11, <2>12, <3>0, LeavingKept DEF Ok
    <3>7. Razing(p)'
      BY <1>3, <2>6, <2>8, <2>10, <2>12, RazingKept DEF Ok
    <3> QED
      BY <3>1, <3>2, <3>3, <3>4, <3>5, <3>6, <3>7 DEF Ok
  <2>13. Stored'
    BY <1>1, <1>2, <1>3, <2>6 DEF Stored
  <2>14. Ruled'
    <3>1. Disowned => Disowned'
      BY <2>6, <2>10, Grown, Now DEF Disowned
    <3>2. ASSUME Led(m), ~Disowned PROVE Led(W)'
      <4>1. q.members[1] = Entry(workspace.owner, "owner")
        BY <1>1, <1>2, <2>6, <3>2 DEF Ok, Copied, Writes, Led
      <4>2. i # 1
        BY <2>3, <4>1 DEF Entry, InviteRoles
      <4>3. n > 0 /\ m[1] = Entry(workspace.owner, "owner")
        BY <2>4, <3>2 DEF Led
      <4>4. 1 \in 1..n /\ W[1] = m[1]
        BY <2>5, <4>2, <4>3
      <4>5. Len(W) \in Nat /\ Len(W) > 0
        BY <2>5, <4>3, LenProperties
      <4> QED
        BY <2>6, <4>3, <4>4, <4>5 DEF Led, Entry
    <3>3. Twins(W)'
      <4> SUFFICES ASSUME NEW a \in DOMAIN W, NEW b \in DOMAIN W, W[a].user = W[b].user, a # b,
             W[a].user # NoUser
                   PROVE  Back(W[a].user)'
        BY DEF Twins
      <4>1. a \in 1..n /\ b \in 1..n
        BY <2>5
      <4>2. m[a].user = W[a].user /\ m[b].user = W[b].user
        BY <2>5, <4>1
      <4>3. PICK v : v = m[a].user
        OBVIOUS
      <4>4. v \in Users /\ Back(v)
        <5>1. m[a] \in Entries
          BY <2>4, <4>1, ElementOfSeq
        <5>2. Twins(m)
          BY <1>1, <2>1, <2>1a, <2>6 DEF Ruled
        <5> QED
          BY <2>4, <4>1, <4>2, <4>3, <5>1, <5>2 DEF Twins, Entries, Someone
      <4>5. Back(v)'
        BY <2>10, <4>4, Grown
      <4> QED
        BY <4>2, <4>3, <4>5
    <3>4. (Led(W)' => Led(workspace.members)') /\ (Twins(W)' => Twins(workspace.members)')
      BY <2>6 DEF Led, Twins
    <3> QED
      BY <1>1, <1>3, <2>1, <2>1a, <2>6, <3>1, <3>2, <3>3, <3>4 DEF Ruled
  <2>15. Invited'
    <3>1. request \in [Requests -> Asked] /\ request' = [request EXCEPT ![r] = Idle]
      BY <1>1, <1>3 DEF Requested, Ends
    <3>2. \A o \in Requests, j \in DOMAIN invites : Settles(request[o], j) =>
           Settles(request'[o], j)
      BY <1>0, <1>2, <3>1 DEF Settles
    <3> QED
      BY <1>1, <1>3, <2>9, <2>10, <3>2, InvitedKept
  <2>16. Traces'
    BY <1>1, <1>3, <2>9, <2>10, <2>11, TracesKept
  <2>17. Razed'
    BY <1>1, <1>3, <2>6, <2>10, RazedKept
  <2> QED
    BY <1>0, <1>3, <2>10, <2>12, <2>13, <2>14, <2>15, <2>16, <2>17, EndDone
<1> QED
  BY <1>5, <1>6

LEMMA SaveRemovalStep ==
    ASSUME IInv, NEW r \in Requests, SaveRemoval(r)
    PROVE  IInv'
PROOF
<1>0. PICK q : q = request[r]
  OBVIOUS
<1>1. q \in Asked /\ Ok(q) /\ Requested /\ Ruled /\ Stored /\ Traces /\ Invited /\ Razed
  BY <1>0, Now
<1>2. q.op = "remove" /\ q.at = "write" /\ q.user \in Users /\ q.who \in Users
      /\ q.members \in Seq(Entries) /\ workspace.state # "none"
  BY <1>0, <1>1 DEF SaveRemoval, At, Ok, Fit, Asked
<1>3. UNCHANGED <<users, invites, record, overlapped, doubled>> /\ Ends(r)
  BY DEF SaveRemoval
<1>4. CASE ~Unmoved(r)
  <2>1. UNCHANGED <<users, workspace, invites, record, history>>
    BY <1>3, <1>4 DEF SaveRemoval, history
  <2> QED
    BY <1>0, <1>2, <1>3, <2>1, QuietEnds
<1>5. CASE Unmoved(r)
  <2>1. PICK w \in Users, g \in Seq(Entries) : w = q.who /\ g = q.members
    BY <1>2
  <2>1a. PICK W : W = Without(g, w)
    OBVIOUS
  <2>2. /\ workspace' = [workspace EXCEPT !.v = @ + 1, !.members = W]
        /\ left' = [left EXCEPT ![w] = Len(invites)] /\ quit' = quit \cup {w}
        /\ Current(q)
    BY <1>0, <1>5, <2>1, <2>1a DEF SaveRemoval, Unmoved, Current
  <2>3. /\ W \in Seq(Entries)
        /\ \A v : v \in In(W) <=> v \in In(g) /\ v # w
        /\ Twins(g) => Twins(W)
        /\ Led(g) /\ w # workspace.owner => Led(W)
    BY <2>1, <2>1a, WithoutIn
  <2>4. /\ workspace'.state = workspace.state /\ workspace'.owner = workspace.owner
        /\ workspace'.v = workspace.v + 1 /\ workspace'.members = W /\ workspace.state = "live"
        /\ workspace' \in [state : {"none", "live", "gone"}, owner : Someone, members :
            Seq(Entries), v : Nat]
    <3>1. PICK v \in Nat : v = workspace.v
      BY Now
    <3>2. /\ workspace \in [state : {"none", "live", "gone"}, owner : Someone, members :
           Seq(Entries), v : Nat]
          /\ workspace.state = "live"
      BY <1>1, <2>2 DEF Stored, Current
    <3>3. workspace' = [workspace EXCEPT !.v = v + 1, !.members = W] /\ v + 1 \in Nat
      BY <2>2, <3>1
    <3> QED
      BY <2>3, <3>1, <3>2, <3>3
  <2>5. Members' = In(W)
    BY <2>4 DEF Members, In
  <2>6. /\ Members \subseteq In(g) \cup {NoUser}
        /\ \A v \in Users : v \in In(g) /\ v \notin Members => Beside(v, {"own", "remove"})
        /\ Twins(g) /\ (Disowned \/ Led(g)) /\ RoleOf(g, w) \in InviteRoles
    BY <1>1, <1>2, <2>1, <2>1a, <2>2, <2>4 DEF Ok, Copied, Writes
  <2>7. Grows /\ FewerRecords /\ FewerPending /\ SameInvites /\ StillLive
    BY <1>3, <2>4, Now DEF Grows, FewerRecords, FewerPending, SameInvites, StillLive
  <2>8. w \in In(g)
    <3>1. RoleOf(g, w) # "none"
      BY <2>6 DEF InviteRoles
    <3> QED
      BY <3>1, PlaceFacts
  <2>9. \A v \in Users :
           /\ v \in Members' => v \in Members \/ (Beside(v, {"own", "remove"})' /\ Back(v)')
           /\ v \in Members => v \in Members' \/ v = w
    <3>1. \A v \in Users : Beside(v, {"own", "remove"}) => Beside(v, {"own", "remove"})' /\ Back(v)'
      BY <2>7, Grown DEF Back
    <3> QED
      BY <2>3, <2>5, <2>6, <3>1, NamesAssumption
  <2>10. \A v \in Users : left'[v] = left[v] \/ v \in Members \/ Back(v)'
    <3>1. w \in Members \/ Back(w)'
      <4>1. w \in Members \/ Back(w)
        BY <2>6, <2>8 DEF Back
      <4> QED
        BY <2>7, <4>1, Grown
    <3>2. \A v \in Users : v # w => left'[v] = left[v]
      BY <1>1, <2>2 DEF Stored
    <3> QED
      BY <3>1, <3>2
  <2>11. \A v \in Users : (Kept(v) => Kept(v)') /\ Kept(w)'
    BY <2>2, <2>4, <2>7, Grown DEF Kept
  <2>12. ASSUME NEW p \in Asked, Ok(p), Meet(q, p), Meet(p, q)
         PROVE  Ok(p)'
    <3>0. p.op # "none" => p.user \in Users
      BY <2>12 DEF Ok, Fit
    <3>1. p.op = "delete" => Beside(p.user, {"own", "accept", "remove"})'
      <4>1. p.op = "delete" => Beside(p.user, {"own", "accept", "remove"})
        BY <1>2, <2>12, <3>0, DeletionMeets
      <4> QED
        BY <2>7, <3>0, <4>1, Grown
    <3>2. Fit(p)'
      BY <2>4, <2>7, <2>12, FitKept DEF Ok, Fit
    <3>3. Known(p)'
      BY <1>3, <2>7, <2>12, KnownKept DEF Ok
    <3>4. Copied(p)'
      <4>1. PICK v \in Nat : v = workspace.v /\ workspace'.v = v + 1
        BY <2>4, Now
      <4>2. ASSUME Writes(p, "role") \/ Writes(p, "remove") PROVE p.v # v + 1
        <5>1. p.v \in Nat /\ p.v <= v
          BY <2>12, <4>1, <4>2 DEF Ok, Copied, Asked
        <5> QED
          BY <5>1
      <4>3. ~((Writes(p, "role") \/ Writes(p, "remove")) /\ Current(p)')
        BY <4>1, <4>2 DEF Current
      <4>4. workspace.v \in Nat /\ workspace'.v \in Nat /\ workspace.v <= workspace'.v
        BY <4>1
      <4> QED
        BY <2>7, <2>12, <4>3, <4>4, CopiedStill DEF Ok
    <3>5. Owned(p)'
      BY <3>1 DEF Owned, Disowned
    <3>6. Entering(p)'
      BY <2>7, <2>9, <2>10, <2>12, EnteringKept DEF Ok
    <3>7. Leaving(p)'
      BY <2>7, <2>9, <2>11, <2>12, <3>0, LeavingKept DEF Ok
    <3>8. Razing(p)'
      BY <1>3, <2>4, <2>7, <2>12, <3>1, RazingKept DEF Ok
    <3> QED
      BY <3>2, <3>3, <3>4, <3>5, <3>6, <3>7, <3>8 DEF Ok
  <2>13. Stored'
    <3>1. left' \in [Users -> Nat] /\ \A v \in Users : left'[v] <= Len(invites')
      <4>1. PICK n \in Nat : n = Len(invites)
        BY <1>1, InvitesTyped
      <4>2. left \in [Users -> Nat] /\ \A v \in Users : left[v] <= n
        BY <1>1, <4>1 DEF Stored
      <4>3. n <= n
        BY <4>1
      <4> QED
        BY <1>3, <2>2, <4>1, <4>2, <4>3
    <3> QED
      BY <1>1, <1>3, <2>2, <2>4, <3>1 DEF Stored
  <2>14. Ruled'
    <3>1. Disowned => Disowned'
      BY <2>4, <2>7, Grown, Now DEF Disowned
    <3>2. ASSUME ~Disowned PROVE workspace'.owner \in users' /\ Led(W)'
      <4>1. Led(g) /\ workspace.owner \in users
        BY <1>1, <2>4, <2>6, <3>2 DEF Ruled
      <4>2. w # workspace.owner
        <5>1. ASSUME w = workspace.owner PROVE FALSE
          <6>1. Len(g) > 0 /\ g[1].user = w /\ g[1].role = "owner"
            BY <4>1, <5>1 DEF Led, Entry
          <6>2. Place(g, w) = 1
            BY <6>1, PlaceFacts
          <6>3. RoleOf(g, w) = "owner"
            BY <6>1, <6>2 DEF RoleOf
          <6> QED
            BY <2>6, <6>3 DEF InviteRoles
        <5> QED
          BY <5>1
      <4>3. Led(W)
        BY <2>3, <4>1, <4>2
      <4> QED
        BY <1>3, <2>4, <4>1, <4>3 DEF Led, Entry
    <3>3. Twins(W)'
      BY <2>3, <2>6, <2>7, TwinsKept
    <3>4. (Led(W)' => Led(workspace.members)') /\ (Twins(W)' => Twins(workspace.members)')
      BY <2>4 DEF Led, Twins
    <3> QED
      BY <3>1, <3>2, <3>3, <3>4 DEF Ruled
  <2>15. Invited'
    <3>1. request \in [Requests -> Asked] /\ request' = [request EXCEPT ![r] = Idle]
      BY <1>1, <1>3 DEF Requested, Ends
    <3>2. \A o \in Requests, j \in DOMAIN invites : Settles(request[o], j) =>
           Settles(request'[o], j)
      BY <1>0, <1>2, <3>1 DEF Settles
    <3> QED
      BY <1>1, <2>7, <2>9, <2>10, <3>2, InvitedKept
  <2>16. Traces'
    <3>1. \A v \in Users : v \in Members \/ Kept(v) => v \in Members' \/ Kept(v)'
      BY <2>9, <2>11
    <3> QED
      BY <1>1, <1>3, <2>7, <2>9, <2>11, <3>1, TracesKept
  <2>17. Razed'
    BY <1>1, <1>3, <2>4, <2>7, RazedKept
  <2> QED
    BY <1>0, <1>3, <2>7, <2>12, <2>13, <2>14, <2>15, <2>16, <2>17, EndDone
<1> QED
  BY <1>4, <1>5

LEMMA PushStep ==
    ASSUME IInv, NEW r \in Requests, Push(r)
    PROVE  IInv'
PROOF
<1>0. PICK q : q = request[r]
  OBVIOUS
<1>1. q \in Asked /\ Ok(q) /\ Requested /\ Ruled /\ Stored /\ Traces /\ Invited /\ Razed
  BY <1>0, Now
<1>2. q.op = "accept" /\ q.at =
       "push" /\ q.user \in Users /\ q.invite \in DOMAIN invites /\ invites[q.invite].to = q.user
  BY <1>0, <1>1 DEF Push, At, Ok, Fit, Asked
<1>3. UNCHANGED <<users, invites, record, overlapped, doubled, left>>
  BY DEF Push
<1>4. CASE workspace.state # "live"
  <2>1. UNCHANGED <<users, workspace, invites, record, history>> /\ Ends(r)
    BY <1>3, <1>4 DEF Push, history
  <2> QED
    BY <1>0, <1>2, <2>1, QuietEnds
<1>5. CASE workspace.state = "live"
  <2>0. PICK e : e = Entry(q.user, invites[q.invite].role)
    OBVIOUS
  <2>1. PICK u \in Users, m \in Seq(Entries) :
           u = q.user /\ e = Entry(u, invites[q.invite].role) /\ m = workspace.members
    BY <1>2, <2>0, Now
  <2>2. e \in Entries /\ e.user = u
    <3>1. invites[q.invite] \in Invitations
      BY <1>1, <1>2, InvitesTyped
    <3>2. invites[q.invite].role \in InviteRoles
      BY <3>1 DEF Invitations
    <3> QED
      BY <2>1, <3>2 DEF Entry, Entries, Someone
  <2>3. /\ workspace' = [workspace EXCEPT !.v = @ + 1, !.members = Append(m, e)]
        /\ quit' = quit \ {u} /\ Goes(r, "settle")
    BY <1>0, <1>5, <2>1 DEF Push
  <2>4. PICK n \in Nat : n = Len(m) /\ DOMAIN m = 1..n
    BY LenProperties
  <2>4a. PICK W : W = Append(m, e)
    OBVIOUS
  <2>5. /\ W \in Seq(Entries) /\ Len(W) = n + 1 /\ DOMAIN W = 1..(n + 1)
        /\ W[n + 1] = e /\ \A j \in 1..n : W[j] = m[j]
    BY <2>2, <2>4, <2>4a
  <2>6. /\ \A j \in 1..(n + 1) : j \in 1..n \/ j = n + 1
        /\ \A j \in 1..n : j \in 1..(n + 1) /\ j # n + 1
        /\ n + 1 \in 1..(n + 1) /\ n + 1 > 0
    OBVIOUS
  <2>7. /\ workspace'.state = workspace.state /\ workspace'.owner = workspace.owner
        /\ workspace'.v = workspace.v + 1 /\ workspace'.members = W
        /\ workspace' \in [state : {"none", "live", "gone"}, owner : Someone, members :
            Seq(Entries), v : Nat]
    <3>1. PICK v \in Nat : v = workspace.v
      BY Now
    <3>2. workspace \in [state : {"none", "live", "gone"}, owner : Someone, members :
           Seq(Entries), v : Nat]
      BY <1>1 DEF Stored
    <3>3. workspace' = [workspace EXCEPT !.v = v + 1, !.members = W] /\ v + 1 \in Nat
      BY <2>3, <2>4, <2>4a, <3>1
    <3> QED
      BY <2>5, <3>1, <3>2, <3>3
  <2>8. \A v : v \in Members' <=> v \in Members \/ v = u
    <3>1. Members = {m[j].user : j \in 1..n} /\ Members' = {W[j].user : j \in 1..(n + 1)}
      BY <2>1, <2>4, <2>4a, <2>5, <2>7 DEF Members
    <3> QED
      BY <2>2, <2>5, <2>6, <3>1
  <2>9. Grows /\ FewerRecords /\ FewerPending /\ SameInvites /\ StillLive
    BY <1>3, <2>7, Now DEF Grows, FewerRecords, FewerPending, SameInvites, StillLive
  <2>10. u \notin users => Beside(u, {"own"})' /\ Beside(u, {"own", "remove"})'
    <3>1. u \notin users => Beside(u, {"own"})
      BY <1>1, <1>2, <2>1 DEF Ok, Known
    <3>2. u \notin users => Beside(u, {"own"}) /\ Beside(u, {"own", "remove"})
      BY <3>1, OwnIsMore
    <3> QED
      BY <2>9, <3>2, Grown
  <2>11. \A v \in Users : v # u /\ Kept(v) => Kept(v)'
    BY <2>3, <2>7, <2>9, Grown DEF Kept
  <2>12. PICK s : s = [request[r] EXCEPT !.at = "settle"]
    OBVIOUS
  <2>13. /\ Moves(r, s) /\ SameOrNone(s, request[r]) /\ s \in Asked
         /\ s.op = "accept" /\ s.at = "settle" /\ s.user = u /\ s.who = q.who
         /\ s.invite = q.invite /\ s.fate = q.fate
    <3>1. "settle" \in Places
      BY DEF Places
    <3> QED
      BY <1>0, <1>1, <1>2, <2>1, <2>3, <2>12, <3>1, GoesMoves
  <2>14. Ok(s)'
    <3>1. Fit(s)'
      <4>1. Fit(s)
        BY <1>1, <1>2, <2>1, <2>13 DEF Fit, Ok
      <4> QED
        BY <2>7, <2>9, <2>13, <4>1, FitKept
    <3>2. Known(s)'
      <4>1. u \notin users' => Beside(u, {"own"})'
        BY <1>3, <2>10
      <4> QED
        BY <2>13, <4>1 DEF Known
    <3>3. Copied(s)' /\ Owned(s)' /\ Entering(s)' /\ Leaving(s)' /\ Razing(s)'
      BY <2>13 DEF Copied, Owned, Entering, Leaving, Razing, Writes
    <3> QED
      BY <3>1, <3>2, <3>3 DEF Ok
  <2>15. ASSUME NEW p \in Asked, Ok(p), Meet(q, p), Meet(p, q)
         PROVE  Ok(p)'
    <3>0. p.op # "none" => p.user \in Users
      BY <2>15 DEF Ok, Fit
    <3>1. p.op = "delete" =>
             /\ Beside(p.user, {"own", "accept", "remove"})'
             /\ p.user = u => Beside(p.user, {"own"})' /\ Beside(p.user, {"own", "remove"})'
      <4>1. p.op = "delete" =>
               /\ Beside(p.user, {"own", "accept", "remove"})
               /\ p.user = u => Beside(p.user, {"own"}) /\ Beside(p.user, {"own", "remove"})
        BY <1>2, <2>1, <2>15, <3>0, DeletionMeets
      <4> QED
        BY <2>9, <3>0, <4>1, Grown
    <3>2. Fit(p)'
      BY <2>7, <2>9, <2>15, FitKept DEF Ok, Fit
    <3>3. Known(p)'
      BY <1>3, <2>9, <2>15, KnownKept DEF Ok
    <3>4. Copied(p)'
      <4>1. PICK v \in Nat : v = workspace.v /\ workspace'.v = v + 1
        BY <2>7, Now
      <4>2. ASSUME Writes(p, "role") \/ Writes(p, "remove") PROVE p.v # v + 1
        <5>1. p.v \in Nat /\ p.v <= v
          BY <2>15, <4>1, <4>2 DEF Ok, Copied, Asked
        <5> QED
          BY <5>1
      <4>3. ~((Writes(p, "role") \/ Writes(p, "remove")) /\ Current(p)')
        BY <4>1, <4>2 DEF Current
      <4>4. workspace.v \in Nat /\ workspace'.v \in Nat /\ workspace.v <= workspace'.v
        BY <4>1
      <4> QED
        BY <2>9, <2>15, <4>3, <4>4, CopiedStill DEF Ok
    <3>5. Owned(p)'
      BY <3>1 DEF Owned, Disowned
    <3>6. Entering(p)'
      <4>1. (p.op = "accept" /\ p.user = u) \/ (p.op = "invite" /\ p.who = u) => Back(u)'
        <5>1. p.op = "accept" /\ p.user = u => u \in doubled
          BY <1>2, <2>1, <2>15 DEF Meet, Joins
        <5>2. p.op = "invite" /\ p.who = u => u \in doubled
          BY <1>2, <2>1, <2>15 DEF Meet, Invites
        <5> QED
          BY <2>9, <5>1, <5>2 DEF Back, Grows
      <4>2. p.op = "accept" => (p.user \in Members' => p.user \in Members \/ Back(p.user)')
        <5>1. p.user = u \/ (p.user \in Members' => p.user \in Members)
          BY <2>8
        <5> QED
          BY <4>1, <5>1
      <4>3. p.op = "invite" => (p.who \in Members' => p.who \in Members \/ Back(p.who)')
        <5>1. p.who = u \/ (p.who \in Members' => p.who \in Members)
          BY <2>8
        <5> QED
          BY <4>1, <5>1
      <4> QED
        BY <1>3, <2>9, <2>15, <4>2, <4>3, EnteringPart DEF Ok
    <3>7. Leaving(p)'
      <4>1. p.op = "delete" /\ Kept(p.user) => Kept(p.user)'
        BY <2>11, <3>0, <3>1 DEF Kept
      <4>2. p.op = "delete" /\ p.user \in Members' =>
             p.user \in Members \/ Beside(p.user, {"own", "remove"})'
        BY <2>8, <3>1
      <4>3. p.op = "record" /\ (p.user \in Members \/ Kept(p.user)) =>
             p.user \in Members' \/ Kept(p.user)'
        BY <2>8, <2>11, <3>0
      <4> QED
        BY <2>9, <2>15, <4>1, <4>2, <4>3, LeavingPart DEF Ok
    <3>8. Razing(p)'
      BY <1>3, <2>7, <2>9, <2>15, <3>1, RazingKept DEF Ok
    <3> QED
      BY <3>2, <3>3, <3>4, <3>5, <3>6, <3>7, <3>8 DEF Ok
  <2>16. Stored'
    <3>1. quit' \subseteq Users
      BY <1>1, <2>3 DEF Stored
    <3> QED
      BY <1>1, <1>3, <1>5, <2>7, <3>1 DEF Stored
  <2>17. Ruled'
    <3>1. Disowned => Disowned'
      BY <1>5, <2>7, <2>9, Grown, Now DEF Disowned
    <3>2. ASSUME Led(m) PROVE Led(W)'
      <4>1. n > 0 /\ m[1] = Entry(workspace.owner, "owner")
        BY <2>4, <2>4a, <3>2 DEF Led
      <4>2. 1 \in 1..n /\ W[1] = m[1]
        BY <2>5, <4>1
      <4> QED
        BY <2>5, <2>6, <2>7, <4>1, <4>2 DEF Led, Entry
    <3>3. Twins(W)'
      <4>1. Twins(W)
        <5> SUFFICES ASSUME NEW a \in 1..(n + 1), NEW b \in 1..(n + 1), W[a].user = W[b].user, a # b
                     PROVE  W[a].user = NoUser \/ Back(W[a].user)
          BY <2>5 DEF Twins
        <5>1. CASE a \in 1..n /\ b \in 1..n
          <6>1. Twins(m)
            BY <1>1, <1>5, <2>1 DEF Ruled
          <6> QED
            BY <2>4, <2>4a, <2>5, <5>1, <6>1 DEF Twins
        <5>2. CASE ~(a \in 1..n /\ b \in 1..n)
          <6>1. W[a].user = u /\ \E j \in 1..n : m[j].user = u
            BY <2>2, <2>5, <2>6, <5>2
          <6>2. u \in Members
            BY <2>1, <2>4, <2>4a, <6>1 DEF Members
          <6>3. Back(u)
            BY <1>1, <1>2, <2>1, <6>2 DEF Ok, Entering
          <6> QED
            BY <6>1, <6>3
        <5> QED
          BY <5>1, <5>2
      <4> QED
        BY <2>5, <2>9, <4>1, TwinsKept
    <3>4. (Led(W)' => Led(workspace.members)') /\ (Twins(W)' => Twins(workspace.members)')
      BY <2>7 DEF Led, Twins
    <3> QED
      BY <1>1, <1>3, <1>5, <2>1, <2>7, <3>1, <3>2, <3>3, <3>4 DEF Ruled
  <2>18. Invited'
    <3>1. /\ request' = [request EXCEPT ![r] = s] /\ request \in [Requests -> Asked]
          /\ request'[r] = s /\ \A o \in Requests : o # r => request'[o] = request[o]
      BY <1>1, <2>13 DEF Moves, Requested
    <3>2. \A o \in Requests, j \in DOMAIN invites : Settles(request[o], j) =>
           Settles(request'[o], j)
      BY <1>0, <1>2, <3>1 DEF Settles
    <3>3. ASSUME NEW i \in DOMAIN invites, invites'[i].status = "pending",
                 invites[i].to \in Members' \/ i <= left'[invites[i].to]
          PROVE  invites[i].to \in Members \/ i <= left[invites[i].to] \/ Back(invites[i].to)'
                 \/ \E p \in Requests : Settles(request'[p], i)
      <4>1. PICK v \in Users : v = invites[i].to /\ v = invites'[i].to
        BY <1>1, <1>3, InvitesTyped
      <4>2. v \in Members \/ i <= left[v] \/ v = u
        BY <1>3, <2>8, <3>3, <4>1
      <4>3. CASE v = u /\ i # q.invite
        <5>1. Back(u)
          BY <1>1, <1>2, <1>3, <2>1, <3>3, <4>1, <4>3 DEF Ok, Entering, Pending
        <5>2. Back(v)'
          BY <2>9, <4>3, <5>1, Grown
        <5> QED
          BY <4>1, <5>2
      <4>4. CASE i = q.invite
        BY <2>13, <3>1, <4>4 DEF Settles
      <4> QED
        BY <4>1, <4>2, <4>3, <4>4
    <3> QED
      BY <1>1, <2>9, <3>2, <3>3, InvitedPart
  <2>19. Traces'
    <3>1. \A v \in Users : v \in Members \/ Kept(v) => v \in Members' \/ Kept(v)'
      BY <2>8, <2>11
    <3>2. \A v \in Users : v \notin users /\ Kept(v) => Kept(v)'
      BY <2>10, <2>11 DEF Kept
    <3>3. \A v \in Users : v \notin users /\ v \in Members' =>
           v \in Members \/ Beside(v, {"own", "remove"})'
      BY <2>8, <2>10
    <3> QED
      BY <1>1, <1>3, <2>9, <3>1, <3>2, <3>3, TracesKept
  <2>20. Razed'
    BY <1>1, <1>3, <2>7, <2>9, RazedKept
  <2> QED
    BY <1>0, <2>9, <2>13, <2>14, <2>15, <2>16, <2>17, <2>18, <2>19, <2>20, StepDone
<1> QED
  BY <1>4, <1>5

LEMMA SettleInviteStep ==
    ASSUME IInv, NEW r \in Requests, SettleInvite(r)
    PROVE  IInv'
PROOF
<1>0. PICK q : q = request[r]
  OBVIOUS
<1>1. q \in Asked /\ Ok(q) /\ Requested /\ Ruled /\ Stored /\ Traces /\ Invited /\ Razed
  BY <1>0, Now
<1>2. q.op \in {"accept", "decline"} /\ q.at =
       "settle" /\ q.user \in Users /\ q.invite \in DOMAIN invites
  BY <1>0, <1>1 DEF SettleInvite, Ok, Fit
<1>3. UNCHANGED <<users, workspace, record, overlapped, doubled, left, quit>> /\ Ends(r)
  BY DEF SettleInvite, history
<1>20. PICK e : e = invites[q.invite]
  OBVIOUS
<1>21. PICK i : i = q.invite
  OBVIOUS
<1>22. PICK n : n = Len(invites)
  OBVIOUS
<1>4. n \in Nat /\ i = q.invite /\ n = Len(invites) /\ e = invites[i]
  BY <1>1, <1>20, <1>21, <1>22, InvitesTyped
<1>5. DOMAIN invites = 1..n /\ i \in 1..n /\ e \in Invitations /\ invites \in Seq(Invitations)
  BY <1>1, <1>2, <1>4, InvitesTyped DEF Stored
<1>6. PICK s : s = IF e.status = "deleted" THEN e.status ELSE IF q.op =
       "accept" THEN "accepted" ELSE "declined"
  OBVIOUS
<1>7. PICK e2 : e2 = [e EXCEPT !.status = s]
  OBVIOUS
<1>8. e2 \in Invitations /\ e2.to = e.to /\ e2.by = e.by /\ e2.status = s /\ s # "pending"
  BY <1>5, <1>6, <1>7 DEF Invitations
<1>9. invites' = [invites EXCEPT ![i] = e2]
  BY <1>0, <1>4, <1>5, <1>6, <1>7 DEF SettleInvite
<1>10. /\ invites' \in Seq(Invitations) /\ Len(invites') = n /\ DOMAIN invites' = 1..n
       /\ invites'[i] = e2 /\ \A j \in 1..n : j # i => invites'[j] = invites[j]
  <2>1. invites' \in Seq(Invitations) /\ Len(invites') = n
    BY <1>4, <1>5, <1>8, <1>9, ExceptSeq
  <2> QED
    BY <1>5, <1>9, <2>1
<1>11. FewerPending /\ SameInvites
  BY <1>4, <1>5, <1>8, <1>10 DEF FewerPending, SameInvites
<1>12. Grows /\ FewerRecords /\ StillLive /\ Members' = Members
  BY <1>3, Now DEF Grows, FewerRecords, StillLive, Members
<1>13. \A v \in Users : Kept(v) => Kept(v)'
  BY <1>3, <1>12, Grown DEF Kept
<1>14. ASSUME NEW p \in Asked, Ok(p), Meet(q, p), Meet(p, q)
       PROVE  Ok(p)'
  <2>0. p.op # "none" => p.user \in Users
    BY <1>14 DEF Ok, Fit
  <2>1. Fit(p)'
    BY <1>3, <1>11, <1>14, FitKept DEF Ok, Fit
  <2>2. Known(p)'
    BY <1>3, <1>12, <1>14, KnownKept DEF Ok
  <2>3. Copied(p)'
    BY <1>3, <1>12, <1>14, Now, CopiedPart DEF Ok
  <2>4. Owned(p)'
    BY <1>12, <1>14, OwnedKept DEF Ok
  <2>5. Entering(p)'
    BY <1>3, <1>11, <1>12, <1>14, EnteringKept DEF Ok
  <2>6. Leaving(p)'
    BY <1>11, <1>12, <1>13, <1>14, <2>0, LeavingKept DEF Ok
  <2>7. Razing(p)'
    BY <1>3, <1>12, <1>14, RazingKept DEF Ok
  <2> QED
    BY <2>1, <2>2, <2>3, <2>4, <2>5, <2>6, <2>7 DEF Ok
<1>15. Stored'
  <2>1. workspace.state # "none"
    <3>1. invites # <<>>
      BY <1>4, <1>5
    <3> QED
      BY <1>1, <3>1 DEF Stored
  <2> QED
    BY <1>1, <1>3, <1>4, <1>10, <2>1 DEF Stored
<1>16. Ruled'
  BY <1>1, <1>3, <1>12, RuledKept
<1>17. Invited'
  <2>1. request \in [Requests -> Asked] /\ request' = [request EXCEPT ![r] = Idle]
    BY <1>1, <1>3 DEF Requested, Ends
  <2>2. \A o \in Requests : o # r => request'[o] = request[o]
    BY <2>1
  <2>3. \A o \in Requests, j \in DOMAIN invites :
           Settles(request[o], j) /\ invites'[j].status = "pending" => Settles(request'[o], j)
    BY <1>0, <1>4, <1>8, <1>10, <2>2 DEF Settles
  <2> QED
    BY <1>1, <1>3, <1>11, <1>12, <2>3, InvitedKept
<1>18. Traces'
  BY <1>1, <1>3, <1>11, <1>12, <1>13, TracesKept
<1>19. Razed'
  BY <1>1, <1>3, <1>12, RazedKept
<1> QED
  BY <1>0, <1>3, <1>12, <1>14, <1>15, <1>16, <1>17, <1>18, <1>19, EndDone

(* Steps that write records alone. *)
LEMMA OnlyRecords ==
    ASSUME IInv, UNCHANGED <<users, workspace, invites, overlapped, doubled, left, quit>>
    PROVE  /\ Grows /\ FewerPending /\ SameInvites /\ StillLive /\ Members' = Members
           /\ \A v \in Users : Kept(v) => Kept(v)'
           /\ Ruled'
           /\ \A p \in Asked : Ok(p) =>
               Fit(p)' /\ Known(p)' /\ Copied(p)' /\ Owned(p)' /\ Entering(p)'
           /\ (\A o \in Requests, j \in DOMAIN invites : Settles(request[o], j) =>
               Settles(request'[o], j)) => Invited'
PROOF
<1>1. Requested /\ Ruled /\ Stored /\ Invited
  BY Now
<1>2. Grows /\ FewerPending /\ SameInvites /\ StillLive /\ Members' = Members
  BY Now DEF Grows, FewerPending, SameInvites, StillLive, Members
<1>3. \A v \in Users : Kept(v) => Kept(v)'
  BY <1>2, Grown DEF Kept
<1>4. Ruled'
  BY <1>1, <1>2, RuledKept
<1>5. ASSUME NEW p \in Asked,
       Ok(p) PROVE Fit(p)' /\ Known(p)' /\ Copied(p)' /\ Owned(p)' /\ Entering(p)'
  <2>1. Fit(p)'
    BY <1>2, <1>5, FitKept DEF Ok, Fit
  <2>2. Known(p)'
    BY <1>2, <1>5, KnownKept DEF Ok
  <2>3. Copied(p)'
    BY <1>2, <1>5, Now, CopiedPart DEF Ok
  <2>4. Owned(p)'
    BY <1>2, <1>5, OwnedKept DEF Ok
  <2>5. Entering(p)'
    BY <1>2, <1>5, EnteringKept DEF Ok
  <2> QED
    BY <2>1, <2>2, <2>3, <2>4, <2>5
<1>6. ASSUME \A o \in Requests, j \in DOMAIN invites : Settles(request[o], j) =>
       Settles(request'[o], j) PROVE Invited'
  BY <1>1, <1>2, <1>6, InvitedKept
<1> QED
  BY <1>2, <1>3, <1>4, <1>5, <1>6

LEMMA InsertRecordStep ==
    ASSUME IInv, NEW r \in Requests, InsertRecord(r)
    PROVE  IInv'
PROOF
<1>0. PICK q : q = request[r]
  OBVIOUS
<1>1. q \in Asked /\ Ok(q) /\ Requested /\ Ruled /\ Stored /\ Traces /\ Invited /\ Razed
  BY <1>0, Now
<1>2. q.op = "record" /\ q.at = "write" /\ q.user \in Users /\ q.shared \in BOOLEAN
      /\ (q.shared => workspace.state # "none")
  BY <1>0, <1>1 DEF InsertRecord, At, Ok, Fit, Asked
<1>3. UNCHANGED <<users, workspace, invites, overlapped, doubled, left, quit>> /\ Ends(r)
  BY DEF InsertRecord, history
<1>4. PICK x \in Records : /\ record[x] = NoRecord
                           /\ record' = [record EXCEPT ![x] = [by |-> q.user, shared |-> q.shared]]
  BY <1>0 DEF InsertRecord
<1>4a. PICK e : e = [by |-> q.user, shared |-> q.shared]
  OBVIOUS
<1>5. PICK u \in Users : u = q.user
  BY <1>2
<1>6. e \in Made /\ e.by = u /\ e.shared = q.shared
  BY <1>2, <1>4, <1>4a, <1>5 DEF Made, Someone
<1>7. record' \in [Records -> Made] /\ record'[x] = e /\ \A y \in Records : y # x =>
       record'[y] = record[y]
  BY <1>1, <1>4, <1>4a, <1>6 DEF Stored
<1>8. \A y \in Records, v \in Users : Mine(y, v)' => (y = x /\ v = u) \/ (y # x /\ Mine(y, v))
  BY <1>6, <1>7 DEF Mine
<1>9. request \in [Requests -> Asked] /\ request' = [request EXCEPT ![r] = Idle]
  BY <1>1, <1>3 DEF Requested, Ends
<1>10. \A o \in Requests, j \in DOMAIN invites : Settles(request[o], j) => Settles(request'[o], j)
  BY <1>0, <1>2, <1>9 DEF Settles
<1>11. /\ Grows /\ FewerPending /\ SameInvites /\ StillLive /\ Members' = Members
       /\ \A v \in Users : Kept(v) => Kept(v)'
       /\ Ruled' /\ Invited'
       /\ \A p \in Asked : Ok(p) => Fit(p)' /\ Known(p)' /\ Copied(p)' /\ Owned(p)' /\ Entering(p)'
  BY <1>3, <1>10, OnlyRecords
<1>12. ASSUME NEW p \in Asked, Ok(p), Meet(q, p), Meet(p, q)
       PROVE  Ok(p)'
  <2>0. p.op # "none" => p.user \in Users
    BY <1>12 DEF Ok, Fit
  <2>1. p.op = "delete" => Leftover' /\ (p.user = u => Beside(p.user, {"own"})' /\ Kept(p.user)')
    <3>1. p.op = "delete" => Leftover /\ (p.user = u => Beside(p.user, {"own"}))
      BY <1>2, <1>5, <1>12, <2>0, DeletionMeets
    <3> QED
      BY <1>11, <2>0, <3>1, Grown DEF Kept
  <2>2. Leaving(p)'
    <3>1. ASSUME p.op = "delete"
          PROVE  /\ p.at \in {"sever", "raze", "close", "invites", "pull", "user"} =>
                       \A y \in Records : Mine(y, p.user)' /\ ~record'[y].shared =>
                           Beside(p.user, {"own"})'
                 /\ p.at \in {"invites", "pull", "user"} \/ (p.at = "personal" /\ p.fate =
                     "none") =>
                       \A y \in Records : Mine(y, p.user)' /\ record'[y].shared => Kept(p.user)'
                 /\ p.at = "user" /\ p.user \in Members' => Beside(p.user, {"own", "remove"})'
                 /\ p.at \in {"pull", "user"} => \A i \in DOMAIN invites' :
                       Pending(i)' /\ Of(i, p.user)' => Beside(p.user, {"own", "invite"})'
      <4>1. p.user \in Users
        BY <2>0, <3>1
      <4>2. \A y \in Records : Mine(y, p.user)' =>
             Beside(p.user, {"own"})' \/ (Mine(y, p.user) /\ record'[y] = record[y])
        BY <1>7, <1>8, <2>1, <3>1, <4>1
      <4>3. Beside(p.user, {"own"})' => Kept(p.user)'
        BY DEF Kept
      <4>4. \A i \in DOMAIN invites' :
             i \in DOMAIN invites /\ (Pending(i)' <=> Pending(i)) /\ (Of(i, p.user)' <=> Of(i,
                 p.user))
        BY <1>3 DEF Pending, Of
      <4> QED
        BY <1>11, <1>12, <3>1, <4>1, <4>2, <4>3, <4>4, Grown DEF Ok, Leaving
    <3>2. Writes(p, "record") /\ p.shared => p.user \in Members' \/ Kept(p.user)'
      BY <1>11, <1>12, <2>0 DEF Ok, Leaving, Writes
    <3> QED
      BY <3>1, <3>2 DEF Leaving, Writes
  <2>3. Razing(p)'
    <3>1. Writes(p, "record") /\ p.shared /\ workspace'.state = "gone" => Leftover'
      BY <1>3, <1>11, <1>12, Grown DEF Ok, Razing
    <3>2. p.op = "delete" /\ p.at \in {"personal", "raze"} /\ p.fate = "emptied" =>
             Members' \subseteq {p.user, NoUser} \/ Beside(p.user, {"own", "accept", "remove"})'
      BY <1>11, <1>12, <2>0, Grown DEF Ok, Razing
    <3> QED
      BY <2>1, <3>1, <3>2 DEF Razing, Writes
  <2> QED
    BY <1>11, <1>12, <2>2, <2>3 DEF Ok
<1>13. Stored'
  <2>1. workspace'.state = "none" => \A y \in Records : ~record'[y].shared
    BY <1>1, <1>2, <1>3, <1>6, <1>7 DEF Stored
  <2> QED
    BY <1>1, <1>3, <1>7, <2>1 DEF Stored
<1>14. Traces'
  <2>1. u \notin users => Beside(u, {"own"})'
    BY <1>1, <1>2, <1>5, <1>11, Grown DEF Ok, Known
  <2>2. q.shared => u \in Members' \/ Kept(u)'
    BY <1>1, <1>2, <1>5, <1>11 DEF Ok, Leaving, Writes
  <2>3. ASSUME NEW y \in Records, NEW v \in Users, Mine(y, v)',
         record'[y].shared PROVE v \in Members' \/ Kept(v)'
    BY <1>1, <1>6, <1>7, <1>8, <1>11, <2>2, <2>3 DEF Traces
  <2>4. ASSUME NEW v \in Users, v \notin users
        PROVE  /\ \A y \in Records : Mine(y, v)' => Beside(v, {"own"})' \/ (record'[y].shared /\ Kept(v)')
               /\ v \in Members' => Beside(v, {"own", "remove"})'
               /\ \A i \in DOMAIN invites' : Pending(i)' /\ Of(i, v)' =>
                   Beside(v, {"own", "invite"})'
    <3>1. \A y \in Records : Mine(y, v)' => Beside(v, {"own"})' \/ (record'[y].shared /\ Kept(v)')
      BY <1>1, <1>7, <1>8, <1>11, <2>1, <2>4, Grown DEF Traces
    <3>2. v \in Members' => Beside(v, {"own", "remove"})'
      BY <1>1, <1>11, <2>4, Grown DEF Traces
    <3>3. \A i \in DOMAIN invites' :
           i \in DOMAIN invites /\ (Pending(i)' <=> Pending(i)) /\ (Of(i, v)' <=> Of(i, v))
      BY <1>3 DEF Pending, Of
    <3>4. \A i \in DOMAIN invites' : Pending(i)' /\ Of(i, v)' => Beside(v, {"own", "invite"})'
      BY <1>1, <1>11, <2>4, <3>3, Grown DEF Traces
    <3> QED
      BY <3>1, <3>2, <3>4
  <2> QED
    BY <1>3, <2>3, <2>4 DEF Traces
<1>15. Razed'
  <2>1. q.shared /\ workspace.state = "gone" => Leftover'
    BY <1>1, <1>2, <1>11, Grown DEF Ok, Razing, Writes
  <2> QED
    BY <1>1, <1>3, <1>6, <1>7, <1>11, <2>1, Grown DEF Razed
<1> QED
  BY <1>0, <1>3, <1>11, <1>12, <1>13, <1>14, <1>15, EndDone
-----------------------------------------------------------------------------
(* The cascade of a deletion.                                              *)
LEMMA CascadeNow ==
    ASSUME IInv, NEW r \in Requests, NEW at, At(r, "delete", at), NEW next \in Places,
           Goes(r, next),
           NEW q, q = [request[r] EXCEPT !.at = next]
    PROVE  /\ q \in Asked /\ Moves(r, q) /\ SameOrNone(q, request[r])
           /\ q.op = "delete" /\ q.at = next /\ q.user = request[r].user /\ q.fate = request[r].fate
           /\ q.invite = request[r].invite /\ q.user \in Users
           /\ q.user \in Users /\ Known(q) /\ q.fate \in {"none", "retained", "emptied"}
           /\ (q.fate # "none" => workspace.state # "none")
           /\ request[r] \in Asked /\ request[r].op = "delete" /\ request[r].at = at
           /\ Fit(request[r]) /\ Owned(request[r]) /\ Leaving(request[r]) /\ Razing(request[r])
           /\ (next \in Cascading /\ (next \in {"raze", "close"} => q.fate = "emptied") => Fit(q))
           /\ (\A o \in Requests, j \in DOMAIN invites : Settles(request[o], j) =>
               Settles(request'[o], j))
PROOF
<1>1. request[r] \in Asked /\ Ok(request[r]) /\ Requested
  BY Now
<1>2. request[r].op = "delete" /\ request[r].at = at /\ request[r].user \in Users
  BY <1>1 DEF At, Ok, Fit
<1>3. /\ Moves(r, q) /\ SameOrNone(q, request[r]) /\ q \in Asked
      /\ q.op = request[r].op /\ q.at = next /\ q.user = request[r].user /\ q.who = request[r].who
      /\ q.role = request[r].role /\ q.invite = request[r].invite /\ q.members = request[r].members
      /\ q.v = request[r].v /\ q.shared = request[r].shared /\ q.fate = request[r].fate
  BY <1>1, GoesMoves
<1>4. Known(q)
  BY <1>1, <1>2, <1>3 DEF Ok, Known
<1>5. q.fate \in {"none", "retained", "emptied"}
  BY <1>3 DEF Asked
<1>6. (q.fate # "none" => workspace.state # "none") /\ q.invite \in {0} \cup DOMAIN invites
  BY <1>1, <1>2, <1>3 DEF Ok, Fit
<1>7. next \in Cascading /\ (next \in {"raze", "close"} => q.fate = "emptied") => Fit(q)
  BY <1>2, <1>3, <1>6 DEF Fit
<1>8. \A o \in Requests, j \in DOMAIN invites : Settles(request[o], j) => Settles(request'[o], j)
  <2>1. request \in [Requests -> Asked] /\ request' = [request EXCEPT ![r] = q]
    BY <1>1, <1>3 DEF Requested, Moves
  <2> QED
    BY <1>2, <2>1 DEF Settles
<1> QED
  BY <1>1, <1>2, <1>3, <1>4, <1>5, <1>6, <1>7, <1>8 DEF Ok

LEMMA SweepDone ==
    ASSUME IInv, NEW r \in Requests, request[r].op = "delete",
           UNCHANGED <<users, workspace, invites, overlapped, doubled, left, quit>>,
           record' \in [Records -> Made], FewerRecords,
           NEW q \in Asked, Moves(r, q), SameOrNone(q, request[r]), q.op = "delete",
           Fit(q), Known(q), Owned(q), Leaving(q)', Razing(q)',
           \A o \in Requests, j \in DOMAIN invites : Settles(request[o], j) =>
               Settles(request'[o], j)
    PROVE  IInv'
PROOF
<1>1. Requested /\ Stored /\ Traces /\ Razed
  BY Now
<1>2. /\ Grows /\ FewerPending /\ SameInvites /\ StillLive /\ Members' = Members
      /\ \A v \in Users : Kept(v) => Kept(v)'
      /\ Ruled' /\ Invited'
      /\ \A p \in Asked : Ok(p) => Fit(p)' /\ Known(p)' /\ Copied(p)' /\ Owned(p)' /\ Entering(p)'
  BY OnlyRecords
<1>3. \A x \in Records : record'[x].shared => record[x].shared
  BY DEF FewerRecords
<1>4. Ok(q)'
  <2>1. Fit(q)'
    BY <1>2, FitKept DEF Fit
  <2>2. Known(q)'
    BY <1>2, KnownKept
  <2>3. Copied(q)' /\ Entering(q)'
    BY DEF Copied, Entering, Writes
  <2>4. Owned(q)'
    BY <1>2, OwnedKept
  <2> QED
    BY <2>1, <2>2, <2>3, <2>4 DEF Ok
<1>5. ASSUME NEW p \in Asked, Ok(p) PROVE Ok(p)'
  <2>0. p.op # "none" => p.user \in Users
    BY <1>5 DEF Ok, Fit
  <2>1. Leaving(p)'
    BY <1>2, <1>5, <2>0, LeavingKept DEF Ok
  <2>2. Razing(p)'
    BY <1>2, <1>3, <1>5, RazingKept DEF Ok
  <2> QED
    BY <1>2, <1>5, <2>1, <2>2 DEF Ok
<1>6. Stored'
  BY <1>1, <1>3 DEF Stored
<1>7. Traces'
  BY <1>1, <1>2, TracesKept
<1>8. Razed'
  BY <1>1, <1>2, <1>3, RazedKept
<1> QED
  BY <1>2, <1>4, <1>5, <1>6, <1>7, <1>8, StepDone

LEMMA DeletePersonalStep ==
    ASSUME IInv, NEW r \in Requests, DeletePersonal(r)
    PROVE  IInv'
PROOF
<1>1. PICK next : next = CASE request[r].fate = "none" -> "invites"
                           [] request[r].fate = "retained" -> "sever"
                           [] request[r].fate = "emptied" -> "raze"
  OBVIOUS
<1>2. /\ At(r, "delete", "personal") /\ Goes(r, next)
      /\ record' = [x \in Records |-> IF x \in Own(r,
          FALSE) THEN [y \in Records |-> NoRecord][x] ELSE record[x]]
      /\ UNCHANGED <<users, workspace, invites, overlapped, doubled, left, quit>>
  BY <1>1 DEF DeletePersonal, Swept, history
<1>3. Stored /\ record \in [Records -> Made] /\ request[r] \in Asked
  BY Now DEF Stored
<1>4. /\ request[r].fate = "none" => next = "invites"
      /\ request[r].fate = "retained" => next = "sever"
      /\ request[r].fate = "emptied" => next = "raze"
      /\ request[r].fate \in {"none", "retained", "emptied"}
  BY <1>1, <1>3 DEF Asked
<1>5. next \in Places /\ next \in Cascading
  BY <1>4 DEF Places, Cascading
<1>6. PICK q : q = [request[r] EXCEPT !.at = next]
  OBVIOUS
<1>7. /\ q \in Asked /\ Moves(r, q) /\ SameOrNone(q, request[r])
      /\ q.op = "delete" /\ q.at = next /\ q.user = request[r].user /\ q.fate = request[r].fate
      /\ q.user \in Users /\ Known(q) /\ request[r].op = "delete" /\ request[r].at = "personal"
      /\ Owned(request[r]) /\ Leaving(request[r]) /\ Razing(request[r])
      /\ (next \in Cascading /\ (next \in {"raze", "close"} => q.fate = "emptied") => Fit(q))
      /\ (\A o \in Requests, j \in DOMAIN invites : Settles(request[o], j) =>
          Settles(request'[o], j))
  BY <1>2, <1>5, <1>6, CascadeNow
<1>8. Fit(q)
  BY <1>4, <1>5, <1>7
<1>9. PICK u \in Users : u = q.user
  BY <1>7
<1>10. NoRecord \in Made /\ NoRecord.by \notin Users /\ ~NoRecord.shared
  BY NamesAssumption DEF NoRecord, Made, Someone
<1>11. \A x \in Records : x \in Own(r, FALSE) <=> record[x].by = u /\ ~record[x].shared
  <2>1. \A e \in Made : e = [by |-> u, shared |-> FALSE] <=> e.by = u /\ ~e.shared
    BY DEF Made
  <2> QED
    BY <1>3, <1>7, <1>9, <2>1 DEF Own
<1>12. \A x \in Records : record'[x] = IF x \in Own(r, FALSE) THEN NoRecord ELSE record[x]
  BY <1>2
<1>13. record' \in [Records -> Made] /\ FewerRecords
  BY <1>2, <1>3, <1>10, <1>12 DEF FewerRecords
<1>14. Owned(q)
  BY <1>4, <1>7 DEF Owned
<1>15. \A x \in Records : Mine(x, u)' => Mine(x, u) /\ record'[x].shared /\ record[x].shared
  BY <1>10, <1>11, <1>12 DEF Mine
<1>16. Leaving(q)'
  <2>1. next = "invites" => \A x \in Records : Mine(x, u) /\ record[x].shared => Kept(u)
    BY <1>4, <1>7, <1>9 DEF Leaving
  <2>2. Kept(u) => Kept(u)'
    BY <1>2, OnlyRecords
  <2>3. next \in {"invites", "sever", "raze"} /\ ~Writes(q, "record")'
    BY <1>4, <1>7 DEF Writes
  <2> QED
    BY <1>7, <1>9, <1>15, <2>1, <2>2, <2>3 DEF Leaving
<1>17. Razing(q)'
  <2>1. Members' = Members /\ Grows
    BY <1>2, OnlyRecords
  <2>2. q.fate = "emptied" =>
         Members' \subseteq {u, NoUser} \/ Beside(u, {"own", "accept", "remove"})'
    BY <1>7, <1>9, <2>1, Grown DEF Razing
  <2> QED
    BY <1>4, <1>7, <1>9, <2>2 DEF Razing, Writes
<1> QED
  BY <1>2, <1>7, <1>8, <1>13, <1>14, <1>16, <1>17, SweepDone

LEMMA SeverStep ==
    ASSUME IInv, NEW r \in Requests, Sever(r)
    PROVE  IInv'
PROOF
<1>2. /\ At(r, "delete", "sever") /\ Goes(r, "invites")
      /\ record' = [x \in Records |-> IF x \in Own(r, TRUE)
                       THEN [y \in Records |-> [record[y] EXCEPT !.by = Removed]][x] ELSE record[x]]
      /\ UNCHANGED <<users, workspace, invites, overlapped, doubled, left, quit>>
  BY DEF Sever, Swept, history
<1>3. Stored /\ record \in [Records -> Made]
  BY Now DEF Stored
<1>6. PICK q : q = [request[r] EXCEPT !.at = "invites"]
  OBVIOUS
<1>7. /\ q \in Asked /\ Moves(r, q) /\ SameOrNone(q, request[r])
      /\ q.op = "delete" /\ q.at = "invites" /\ q.user = request[r].user
      /\ q.user \in Users /\ Known(q) /\ request[r].op = "delete" /\ request[r].at = "sever"
      /\ Owned(request[r]) /\ Leaving(request[r]) /\ Fit(q)
      /\ (\A o \in Requests, j \in DOMAIN invites : Settles(request[o], j) =>
          Settles(request'[o], j))
  <2>1. "invites" \in Places /\ "invites" \in Cascading
    BY DEF Places, Cascading
  <2> QED
    BY <1>2, <1>6, <2>1, CascadeNow
<1>9. PICK u \in Users : u = q.user
  BY <1>7
<1>10. \A e \in Made : /\ [e EXCEPT !.by = Removed] \in Made /\ [e EXCEPT !.by = Removed].by \notin Users
                       /\ [e EXCEPT !.by = Removed].shared = e.shared
                       /\ (e = [by |-> u, shared |-> TRUE] <=> e.by = u /\ e.shared)
  BY NamesAssumption DEF Made, Someone
<1>11. \A x \in Records : x \in Own(r, TRUE) <=> record[x].by = u /\ record[x].shared
  BY <1>3, <1>7, <1>9, <1>10 DEF Own
<1>12. \A x \in Records : record'[x] =
       IF x \in Own(r, TRUE) THEN [record[x] EXCEPT !.by = Removed] ELSE record[x]
  BY <1>2
<1>13. record' \in [Records -> Made]
  <2>1. \A x \in Records : record'[x] \in Made
    BY <1>3, <1>10, <1>12
  <2> QED
    BY <1>2, <2>1
<1>18. FewerRecords
  <2>1. ASSUME NEW x \in Records
        PROVE  (record'[x].shared => record[x].shared) /\ (record'[x].by \in Users =>
               record'[x] = record[x])
    <3>1. record[x] \in Made
      BY <1>3
    <3> QED
      BY <1>10, <1>12, <3>1
  <2> QED
    BY <2>1 DEF FewerRecords
<1>14. Owned(q)
  BY <1>7 DEF Owned
<1>15. \A x \in Records : Mine(x, u)' => Mine(x, u) /\ ~record'[x].shared /\ ~record[x].shared
  <2>1. ASSUME NEW x \in Records,
         Mine(x, u)' PROVE Mine(x, u) /\ ~record'[x].shared /\ ~record[x].shared
    <3>1. record'[x] = record[x]
      BY <1>9, <1>18, <2>1 DEF Mine, FewerRecords
    <3>2. x \notin Own(r, TRUE)
      BY <1>3, <1>9, <1>10, <1>12, <2>1 DEF Mine
    <3> QED
      BY <1>11, <2>1, <3>1, <3>2 DEF Mine
  <2> QED
    BY <2>1
<1>16. Leaving(q)'
  <2>1. \A x \in Records : Mine(x, u) /\ ~record[x].shared => Beside(u, {"own"})
    BY <1>7, <1>9 DEF Leaving
  <2>2. Beside(u, {"own"}) => Beside(u, {"own"})'
    BY <1>2, OnlyRecords, Grown
  <2>3. ~Writes(q, "record")'
    BY <1>7 DEF Writes
  <2> QED
    BY <1>7, <1>9, <1>15, <2>1, <2>2, <2>3 DEF Leaving
<1>17. Razing(q)'
  BY <1>7 DEF Razing, Writes
<1> QED
  BY <1>2, <1>7, <1>13, <1>14, <1>16, <1>17, <1>18, SweepDone

LEMMA RazeStep ==
    ASSUME IInv, NEW r \in Requests, Raze(r)
    PROVE  IInv'
PROOF
<1>2. /\ At(r, "delete", "raze") /\ Goes(r, "close")
      /\ record' = [x \in Records |-> IF x \in {z \in Records : record[z].shared}
                       THEN [y \in Records |-> NoRecord][x] ELSE record[x]]
      /\ UNCHANGED <<users, workspace, invites, overlapped, doubled, left, quit>>
  BY DEF Raze, Swept, history
<1>3. Stored /\ record \in [Records -> Made]
  BY Now DEF Stored
<1>6. PICK q : q = [request[r] EXCEPT !.at = "close"]
  OBVIOUS
<1>7. /\ q \in Asked /\ Moves(r, q) /\ SameOrNone(q, request[r])
      /\ q.op = "delete" /\ q.at = "close" /\ q.user = request[r].user
      /\ q.user \in Users /\ Known(q) /\ request[r].op = "delete" /\ request[r].at = "raze"
      /\ Owned(request[r]) /\ Leaving(request[r]) /\ Fit(q)
      /\ (\A o \in Requests, j \in DOMAIN invites : Settles(request[o], j) =>
          Settles(request'[o], j))
  <2>1. "close" \in Places /\ "close" \in Cascading
    BY DEF Places, Cascading
  <2>2. Fit(request[r]) /\ request[r].op = "delete" /\ request[r].at = "raze" /\ q.fate =
         request[r].fate
    BY <1>2, <1>6, <2>1, CascadeNow
  <2>3. q.fate = "emptied"
    BY <2>2 DEF Fit
  <2> QED
    BY <1>2, <1>6, <2>1, <2>3, CascadeNow
<1>9. PICK u \in Users : u = q.user
  BY <1>7
<1>10. NoRecord \in Made /\ NoRecord.by \notin Users /\ ~NoRecord.shared
  BY NamesAssumption DEF NoRecord, Made, Someone
<1>12. \A x \in Records : record'[x] = IF record[x].shared THEN NoRecord ELSE record[x]
  BY <1>2
<1>13. record' \in [Records -> Made] /\ FewerRecords /\ \A x \in Records : ~record'[x].shared
  BY <1>2, <1>3, <1>10, <1>12 DEF FewerRecords
<1>14. Owned(q)
  BY <1>7 DEF Owned
<1>15. \A x \in Records : Mine(x, u)' => Mine(x, u) /\ ~record[x].shared
  BY <1>10, <1>12 DEF Mine
<1>16. Leaving(q)'
  <2>1. \A x \in Records : Mine(x, u) /\ ~record[x].shared => Beside(u, {"own"})
    BY <1>7, <1>9 DEF Leaving
  <2>2. Beside(u, {"own"}) => Beside(u, {"own"})'
    BY <1>2, OnlyRecords, Grown
  <2>3. ~Writes(q, "record")'
    BY <1>7 DEF Writes
  <2> QED
    BY <1>7, <1>9, <1>15, <2>1, <2>2, <2>3 DEF Leaving
<1>17. Razing(q)'
  BY <1>7, <1>13 DEF Razing, Writes
<1> QED
  BY <1>2, <1>7, <1>13, <1>14, <1>16, <1>17, SweepDone

LEMMA CloseWorkspaceStep ==
    ASSUME IInv, NEW r \in Requests, CloseWorkspace(r)
    PROVE  IInv'
PROOF
<1>1. /\ At(r, "delete", "close") /\ Goes(r, "invites")
      /\ workspace' = [workspace EXCEPT !.state = "gone", !.members = <<>>]
      /\ UNCHANGED <<users, invites, record, overlapped, doubled, left, quit>>
  BY DEF CloseWorkspace, history
<1>2. Stored /\ Requested /\ Invited /\ Traces /\ workspace.v \in Nat
  BY Now
<1>3. PICK q : q = [request[r] EXCEPT !.at = "invites"]
  OBVIOUS
<1>4. /\ q \in Asked /\ Moves(r, q) /\ SameOrNone(q, request[r])
      /\ q.op = "delete" /\ q.at = "invites" /\ q.user = request[r].user
      /\ q.user \in Users /\ Known(q) /\ request[r].op = "delete" /\ request[r].at = "close"
      /\ Fit(request[r]) /\ Leaving(request[r]) /\ Razing(request[r]) /\ Fit(q)
      /\ (\A o \in Requests, j \in DOMAIN invites : Settles(request[o], j) =>
          Settles(request'[o], j))
  <2>1. "invites" \in Places /\ "invites" \in Cascading
    BY DEF Places, Cascading
  <2> QED
    BY <1>1, <1>3, <2>1, CascadeNow
<1>5. PICK u \in Users : u = q.user
  BY <1>4
<1>6. /\ workspace'.state = "gone" /\ workspace'.members = <<>> /\ workspace'.v = workspace.v
      /\ workspace' \in [state : {"none", "live", "gone"}, owner : Someone, members :
          Seq(Entries), v : Nat]
      /\ workspace.state # "none"
  <2>1. <<>> \in Seq(Entries)
    BY EmptySeq
  <2>2. workspace.state # "none"
    BY <1>4 DEF Fit
  <2> QED
    BY <1>1, <1>2, <2>1, <2>2 DEF Stored
<1>7. Grows /\ FewerRecords /\ FewerPending /\ SameInvites /\ StillLive
  BY <1>1, <1>6 DEF Grows, FewerRecords, FewerPending, SameInvites, StillLive
<1>8. Members' = {} /\ \A v : Kept(v)'
  <2>1. workspace'.members = <<>> => DOMAIN workspace'.members = {}
    OBVIOUS
  <2> QED
    BY <1>6, <2>1 DEF Members, Kept
<1>9. Leftover => Leftover'
  BY <1>7, Grown
<1>10. ASSUME NEW p \in Asked, Ok(p), Meet(request[r], p), Meet(p, request[r])
       PROVE  Ok(p)'
  <2>1. Fit(p)'
    BY <1>6, <1>7, <1>10, FitKept DEF Ok, Fit
  <2>2. Known(p)'
    BY <1>1, <1>7, <1>10, KnownKept DEF Ok
  <2>3. Copied(p)'
    <3>1. ~Current(p)'
      BY <1>6 DEF Current
    <3> QED
      BY <1>2, <1>6, <1>7, <1>10, <3>1, CopiedStill DEF Ok
  <2>4. Owned(p)'
    BY <1>6 DEF Owned
  <2>5. Entering(p)'
    BY <1>1, <1>7, <1>8, <1>10, EnteringKept DEF Ok
  <2>6. Leaving(p)'
    BY <1>7, <1>8, <1>10, LeavingKept DEF Ok
  <2>7. Razing(p)'
    <3>1. p.op = "record" => Leftover
      BY <1>4, <1>10, DeletionMeets
    <3>2. Writes(p, "record") => Leftover'
      BY <1>9, <3>1 DEF Writes
    <3>3. p.op = "delete" /\ p.at = "close" => \A x \in Records : record'[x].shared => Leftover'
      BY <1>1, <1>9, <1>10 DEF Ok, Razing
    <3> QED
      BY <1>8, <3>2, <3>3 DEF Razing, Writes
  <2> QED
    BY <2>1, <2>2, <2>3, <2>4, <2>5, <2>6, <2>7 DEF Ok
<1>11. Ok(q)'
  <2>1. Fit(q)'
    BY <1>4, <1>6, <1>7, FitKept
  <2>2. Known(q)'
    BY <1>1, <1>4, <1>7, KnownKept
  <2>3. Copied(q)' /\ Owned(q)' /\ Entering(q)' /\ Razing(q)'
    BY <1>4, <1>6 DEF Copied, Owned, Entering, Razing, Writes
  <2>4. Leaving(q)'
    <3>1. \A x \in Records : Mine(x, u) /\ ~record[x].shared => Beside(u, {"own"})
      BY <1>4, <1>5 DEF Leaving
    <3>2. \A x \in Records : Mine(x, u)' /\ ~record'[x].shared => Beside(u, {"own"})'
      BY <1>1, <1>7, <3>1, Grown DEF Mine
    <3> QED
      BY <1>4, <1>5, <1>8, <3>2 DEF Leaving, Writes
  <2> QED
    BY <2>1, <2>2, <2>3, <2>4 DEF Ok
<1>12. Stored'
  BY <1>1, <1>2, <1>6 DEF Stored
<1>13. Ruled'
  BY <1>6 DEF Ruled
<1>14. Invited'
  BY <1>1, <1>2, <1>4, <1>7, <1>8, InvitedKept
<1>15. Traces'
  BY <1>1, <1>2, <1>7, <1>8, TracesKept
<1>16. Razed'
  <2>1. \A x \in Records : record[x].shared => Leftover
    BY <1>4 DEF Razing
  <2> QED
    BY <1>1, <1>9, <2>1 DEF Razed
<1> QED
  BY <1>4, <1>7, <1>10, <1>11, <1>12, <1>13, <1>14, <1>15, <1>16, StepDone

LEMMA DeleteInvitesStep ==
    ASSUME IInv, NEW r \in Requests, DeleteInvites(r)
    PROVE  IInv'
PROOF
<1>0. PICK u : u = request[r].user
  OBVIOUS
<1>1. /\ At(r, "delete", "invites") /\ Goes(r, "pull")
      /\ invites' = [i \in DOMAIN invites |->
             IF u \in {invites[i].to, invites[i].by}
             THEN [invites[i] EXCEPT !.status = "deleted"] ELSE invites[i]]
      /\ UNCHANGED <<users, workspace, record, overlapped, doubled, left, quit>>
  BY <1>0 DEF DeleteInvites, history
<1>2. Stored /\ Requested /\ Ruled /\ Invited /\ Traces /\ Razed /\ workspace.v \in Nat
      /\ (workspace.state = "live" => workspace.owner \in Users)
  BY Now
<1>3. PICK q : q = [request[r] EXCEPT !.at = "pull"]
  OBVIOUS
<1>4. /\ q \in Asked /\ Moves(r, q) /\ SameOrNone(q, request[r])
      /\ q.op = "delete" /\ q.at = "pull" /\ q.user = u
      /\ u \in Users /\ Known(q) /\ request[r].op = "delete" /\ request[r].at = "invites"
      /\ Fit(request[r]) /\ Owned(request[r]) /\ Leaving(request[r]) /\ Fit(q)
      /\ (\A o \in Requests, j \in DOMAIN invites : Settles(request[o], j) =>
          Settles(request'[o], j))
  <2>1. "pull" \in Places /\ "pull" \in Cascading
    BY DEF Places, Cascading
  <2> QED
    BY <1>0, <1>1, <1>3, <2>1, CascadeNow
<1>5. PICK n : n = Len(invites)
  OBVIOUS
<1>6. n \in Nat /\ DOMAIN invites = 1..n /\ \A i \in 1..n : invites[i] \in Invitations
  BY <1>2, <1>5, InvitesTyped
<1>7. \A e \in Invitations : LET d == [e EXCEPT !.status = "deleted"] IN
         d \in Invitations /\ d.to = e.to /\ d.by = e.by /\ d.status = "deleted"
  BY DEF Invitations
<1>8. \A i \in 1..n : /\ invites'[i] \in Invitations /\ invites'[i].to = invites[i].to /\ invites'[i].by = invites[i].by
                      /\ invites'[i].status = "pending" => invites[i].status = "pending"
                      /\ Of(i, u) => invites'[i].status # "pending"
  <2>1. ASSUME NEW i \in 1..n
        PROVE  /\ invites'[i] \in Invitations /\ invites'[i].to = invites[i].to /\ invites'[i].by = invites[i].by
               /\ invites'[i].status = "pending" => invites[i].status = "pending"
               /\ Of(i, u) => invites'[i].status # "pending"
    <3>1. PICK e \in Invitations : e = invites[i]
      BY <1>6
    <3>2. PICK d : d = [e EXCEPT !.status = "deleted"]
      OBVIOUS
    <3>3. d \in Invitations /\ d.to = e.to /\ d.by = e.by /\ d.status = "deleted"
      BY <1>7, <3>2
    <3>4. invites'[i] = IF u \in {e.to, e.by} THEN d ELSE e
      BY <1>1, <1>6, <3>1, <3>2
    <3>5. Of(i, u) <=> u \in {e.to, e.by}
      BY <3>1 DEF Of
    <3> QED
      BY <3>1, <3>3, <3>4, <3>5
  <2> QED
    BY <2>1
<1>9. invites' \in Seq(Invitations) /\ DOMAIN invites' = 1..n /\ Len(invites') = n
  <2>1. invites' \in [1..n -> Invitations]
    BY <1>1, <1>6, <1>8
  <2>2. invites' \in Seq(Invitations)
    BY <1>6, <2>1, IsASeq
  <2> QED
    BY <1>6, <2>1, <2>2, LenProperties
<1>10. FewerPending /\ SameInvites
  BY <1>6, <1>8, <1>9 DEF FewerPending, SameInvites
<1>11. Grows /\ FewerRecords /\ StillLive /\ Members' = Members
  BY <1>1, <1>2 DEF Grows, FewerRecords, StillLive, Members
<1>12. \A v \in Users : Kept(v) => Kept(v)'
  BY <1>1, <1>11, Grown DEF Kept
<1>13. ASSUME NEW p \in Asked, Ok(p)
       PROVE  Ok(p)'
  <2>0. p.op # "none" => p.user \in Users
    BY <1>13 DEF Ok, Fit
  <2>1. Fit(p)'
    BY <1>1, <1>10, <1>13, FitKept DEF Ok, Fit
  <2>2. Known(p)'
    BY <1>1, <1>11, <1>13, KnownKept DEF Ok
  <2>3. Copied(p)'
    BY <1>1, <1>2, <1>11, <1>13, CopiedPart DEF Ok
  <2>4. Owned(p)'
    BY <1>11, <1>13, OwnedKept DEF Ok
  <2>5. Entering(p)'
    BY <1>1, <1>10, <1>11, <1>13, EnteringKept DEF Ok
  <2>6. Leaving(p)'
    BY <1>10, <1>11, <1>12, <1>13, <2>0, LeavingKept DEF Ok
  <2>7. Razing(p)'
    BY <1>1, <1>11, <1>13, RazingKept DEF Ok
  <2> QED
    BY <2>1, <2>2, <2>3, <2>4, <2>5, <2>6, <2>7 DEF Ok
<1>14. Ok(q)'
  <2>1. Fit(q)'
    BY <1>1, <1>4, <1>10, FitKept DEF Fit
  <2>2. Known(q)'
    BY <1>1, <1>4, <1>11, KnownKept
  <2>3. Copied(q)' /\ Entering(q)' /\ Razing(q)'
    BY <1>4 DEF Copied, Entering, Razing, Writes
  <2>4. Owned(q)'
    <3>1. Owned(q)
      BY <1>0, <1>4 DEF Owned
    <3> QED
      BY <1>11, <3>1, OwnedKept
  <2>5. Leaving(q)'
    <3>1. \A x \in Records : Mine(x, u) => IF record[x].shared THEN Kept(u) ELSE Beside(u, {"own"})
      BY <1>0, <1>4 DEF Leaving
    <3>2. \A x \in Records : Mine(x, u)' =>
           IF record'[x].shared THEN Kept(u)' ELSE Beside(u, {"own"})'
      BY <1>1, <1>4, <1>11, <1>12, <3>1, Grown DEF Mine
    <3>3. \A i \in DOMAIN invites' : Of(i, u)' => ~Pending(i)'
      BY <1>8, <1>9 DEF Of, Pending
    <3> QED
      BY <1>4, <3>2, <3>3 DEF Leaving, Writes
  <2> QED
    BY <2>1, <2>2, <2>3, <2>4, <2>5 DEF Ok
<1>15. Stored'
  <2>1. workspace.state = "none" => invites' = <<>>
    <3>1. invites = <<>> => n = 0
      BY <1>5
    <3> QED
      BY <1>2, <1>9, <3>1, EmptySeq DEF Stored
  <2> QED
    BY <1>1, <1>2, <1>5, <1>9, <2>1 DEF Stored
<1>16. Ruled'
  BY <1>1, <1>2, <1>11, RuledKept
<1>17. Invited'
  BY <1>1, <1>2, <1>4, <1>10, <1>11, InvitedKept
<1>18. Traces'
  BY <1>1, <1>2, <1>10, <1>11, <1>12, TracesKept
<1>19. Razed'
  BY <1>1, <1>2, <1>11, RazedKept
<1> QED
  BY <1>4, <1>11, <1>13, <1>14, <1>15, <1>16, <1>17, <1>18, <1>19, StepDone

LEMMA PullMemberStep ==
    ASSUME IInv, NEW r \in Requests, PullMember(r)
    PROVE  IInv'
PROOF
<1>0. PICK u : u = request[r].user
  OBVIOUS
<1>20. PICK m, w : m = workspace.members /\ w = Without(m, u)
  OBVIOUS
<1>1. /\ At(r, "delete", "pull") /\ Goes(r, "user")
      /\ workspace' = [workspace EXCEPT !.members = w]
      /\ left' = IF u \in Members THEN [left EXCEPT ![u] = Len(invites)] ELSE left
      /\ UNCHANGED <<users, invites, record, overlapped, doubled, quit>>
  BY <1>0, <1>20 DEF PullMember
<1>2. Stored /\ Requested /\ Ruled /\ Invited /\ Traces /\ Razed /\ workspace.v \in Nat
      /\ (workspace.state = "live" => workspace.owner \in Users) /\ m \in Seq(Entries) /\ In(m) =
          Members
      /\ (workspace.state = "none" => Members = {})
  BY <1>20, Now
<1>3. PICK q : q = [request[r] EXCEPT !.at = "user"]
  OBVIOUS
<1>4. /\ q \in Asked /\ Moves(r, q) /\ SameOrNone(q, request[r])
      /\ q.op = "delete" /\ q.at = "user" /\ q.user = u
      /\ u \in Users /\ Known(q) /\ request[r].op = "delete" /\ request[r].at = "pull"
      /\ Fit(request[r]) /\ Owned(request[r]) /\ Leaving(request[r]) /\ Fit(q)
      /\ (\A o \in Requests, j \in DOMAIN invites : Settles(request[o], j) =>
          Settles(request'[o], j))
  <2>1. "user" \in Places /\ "user" \in Cascading
    BY DEF Places, Cascading
  <2> QED
    BY <1>0, <1>1, <1>3, <2>1, CascadeNow
<1>5. /\ w \in Seq(Entries) /\ (\A v : v \in In(w) <=> v \in In(m) /\ v # u) /\ (m = <<>> =>
       w = <<>>)
      /\ (Twins(m) => Twins(w)) /\ (Led(m) /\ u # workspace.owner => Led(w))
  BY <1>2, <1>20, WithoutIn
<1>6. /\ workspace' \in [state : {"none", "live", "gone"}, owner : Someone, members :
       Seq(Entries), v : Nat]
      /\ workspace'.state = workspace.state /\ workspace'.owner = workspace.owner
      /\ workspace'.v = workspace.v /\ workspace'.members = w
  BY <1>1, <1>2, <1>5 DEF Stored
<1>7. \A v : v \in Members' <=> v \in Members /\ v # u
  BY <1>2, <1>5, <1>6 DEF Members, In
<1>8. Grows /\ FewerRecords /\ FewerPending /\ SameInvites /\ StillLive
  BY <1>1, <1>2, <1>6 DEF Grows, FewerRecords, FewerPending, SameInvites, StillLive
<1>9. \A v \in Users : Kept(v) => Kept(v)'
  BY <1>1, <1>6, <1>8, Grown DEF Kept
<1>10. /\ left' \in [Users -> Nat] /\ (\A v \in Users : left'[v] <= Len(invites))
       /\ \A v \in Users : left'[v] = left[v] \/ v \in Members
  <2>1. PICK n : n = Len(invites)
    OBVIOUS
  <2>2. n \in Nat /\ left \in [Users -> Nat] /\ \A v \in Users : left[v] <= n
    BY <1>2, <2>1, InvitesTyped DEF Stored
  <2> QED
    BY <1>1, <1>4, <2>1, <2>2
<1>11. ASSUME NEW p \in Asked, Ok(p), Meet(request[r], p), Meet(p, request[r])
       PROVE  Ok(p)'
  <2>0. p.op # "none" => p.user \in Users
    BY <1>11 DEF Ok, Fit
  <2>a. /\ p.op # "none" /\ p.user = u => Beside(u, {"own"})
        /\ p.op = "remove" => Beside(u, {"own", "remove"})
        /\ p.op = "role" => Beside(u, {"own", "role"})
    BY <1>0, <1>4, <1>11, DeletionMeets
  <2>b. /\ Beside(u, {"own"}) => Beside(u, {"own"})'
        /\ Beside(u, {"own", "remove"}) => Beside(u, {"own", "remove"})'
        /\ Beside(u, {"own", "role"}) => Beside(u, {"own", "role"})'
    BY <1>4, <1>8, Grown
  <2>1. Fit(p)'
    BY <1>6, <1>8, <1>11, FitKept DEF Ok, Fit
  <2>2. Known(p)'
    BY <1>1, <1>8, <1>11, KnownKept DEF Ok
  <2>3. Copied(p)'
    <3>1. Writes(p, "remove") => \A v \in Users : v \in Members /\ v \notin Members' =>
           Beside(v, {"own", "remove"})'
      BY <1>7, <2>a, <2>b DEF Writes
    <3>2. Writes(p, "role") => \E v \in Users : Beside(v, {"own", "role"})'
      BY <1>4, <2>a, <2>b DEF Writes
    <3>3. Members' \subseteq Members \cup {NoUser}
      BY <1>7
    <3> QED
      BY <1>2, <1>6, <1>8, <1>11, <3>1, <3>2, <3>3, CopiedPart DEF Ok
  <2>4. Owned(p)'
    BY <1>7, <1>8, <1>11, OwnedKept DEF Ok
  <2>5. Entering(p)'
    BY <1>7, <1>8, <1>10, <1>11, EnteringKept DEF Ok
  <2>6. Leaving(p)'
    <3>1. p.op # "none" /\ p.user \in Members => p.user \in Members' \/ Kept(p.user)'
      BY <1>7, <2>a, <2>b DEF Kept
    <3> QED
      BY <1>7, <1>8, <1>9, <1>11, <2>0, <3>1, LeavingKept DEF Ok
  <2>7. Razing(p)'
    BY <1>1, <1>6, <1>7, <1>8, <1>11, RazingKept DEF Ok
  <2> QED
    BY <2>1, <2>2, <2>3, <2>4, <2>5, <2>6, <2>7 DEF Ok
<1>12. workspace.state = "live" /\ u = workspace.owner => Disowned /\ Disowned'
  <2>1. workspace.state = "live" /\ u = workspace.owner => Disowned
    BY <1>0, <1>4 DEF Owned
  <2> QED
    BY <1>2, <1>6, <1>8, <2>1, Grown DEF Disowned
<1>13. Ok(q)'
  <2>1. Fit(q)'
    BY <1>4, <1>6, <1>8, FitKept DEF Fit
  <2>2. Known(q)'
    BY <1>1, <1>4, <1>8, KnownKept
  <2>3. Copied(q)' /\ Entering(q)' /\ Razing(q)'
    BY <1>4 DEF Copied, Entering, Razing, Writes
  <2>4. Owned(q)'
    BY <1>4, <1>6, <1>12 DEF Owned
  <2>5. Leaving(q)'
    <3>1. \A x \in Records : Mine(x, u) => IF record[x].shared THEN Kept(u) ELSE Beside(u, {"own"})
      BY <1>0, <1>4 DEF Leaving
    <3>2. \A x \in Records : Mine(x, u)' =>
           IF record'[x].shared THEN Kept(u)' ELSE Beside(u, {"own"})'
      BY <1>1, <1>4, <1>8, <1>9, <3>1, Grown DEF Mine
    <3>3. \A i \in DOMAIN invites : Pending(i) /\ Of(i, u) => Beside(u, {"own", "invite"})
      BY <1>0, <1>4 DEF Leaving
    <3>4. \A i \in DOMAIN invites' : Pending(i)' /\ Of(i, u)' => Beside(u, {"own", "invite"})'
      BY <1>1, <1>4, <1>8, <3>3, Grown DEF Of, Pending
    <3> QED
      BY <1>4, <1>7, <3>2, <3>4 DEF Leaving, Writes
  <2> QED
    BY <2>1, <2>2, <2>3, <2>4, <2>5 DEF Ok
<1>14. Stored'
  <2>1. workspace.state = "none" => left' = left /\ w = <<>>
    BY <1>1, <1>2, <1>5, <1>20 DEF Stored
  <2> QED
    BY <1>1, <1>2, <1>6, <1>10, <2>1 DEF Stored
<1>15. Ruled'
  <2> SUFFICES ASSUME workspace'.state = "live"
               PROVE  (Disowned' \/ (workspace'.owner \in users' /\ Led(w)')) /\ Twins(w)'
    BY <1>6 DEF Ruled, Led, Twins
  <2>1. Disowned => Disowned'
    BY <1>2, <1>6, <1>8, Grown DEF Disowned
  <2>2. Led(w) => Led(w)'
    BY <1>6 DEF Led, Entry
  <2>3. Disowned \/ (workspace.owner \in users /\ Led(m))
    BY <1>2, <1>6, <1>20 DEF Ruled
  <2>4. Twins(w)'
    <3>1. Twins(m)
      BY <1>2, <1>6, <1>20 DEF Ruled
    <3> QED
      BY <1>5, <1>8, <3>1, TwinsKept
  <2> QED
    BY <1>1, <1>5, <1>6, <1>12, <2>1, <2>2, <2>3, <2>4
<1>16. Invited'
  BY <1>1, <1>2, <1>4, <1>7, <1>8, <1>10, InvitedKept
<1>17. Traces'
  <2>1. ASSUME NEW x \in Records, NEW v \in Users, Mine(x, v)', record'[x].shared
        PROVE  v \in Members' \/ Kept(v)'
    <3>1. Mine(x, v) /\ record[x].shared
      BY <1>1, <2>1 DEF Mine
    <3>2. v = u => Kept(v)
      BY <1>0, <1>4, <3>1 DEF Leaving
    <3>3. v \in Members \/ Kept(v)
      BY <1>2, <3>1 DEF Traces
    <3> QED
      BY <1>7, <1>9, <3>2, <3>3
  <2>2. ASSUME NEW v \in Users, v \notin users
        PROVE  /\ \A x \in Records : Mine(x, v)' => Beside(v, {"own"})' \/ (record'[x].shared /\ Kept(v)')
               /\ v \in Members' => Beside(v, {"own", "remove"})'
               /\ \A i \in DOMAIN invites' : Pending(i)' /\ Of(i, v)' =>
                   Beside(v, {"own", "invite"})'
    <3>1. /\ Beside(v, {"own"}) => Beside(v, {"own"})'
          /\ Beside(v, {"own", "remove"}) => Beside(v, {"own", "remove"})'
          /\ Beside(v, {"own", "invite"}) => Beside(v, {"own", "invite"})'
      BY <1>8, Grown
    <3>2. \A x \in Records : Mine(x, v)' => Beside(v, {"own"})' \/ (record'[x].shared /\ Kept(v)')
      BY <1>1, <1>2, <1>9, <2>2, <3>1 DEF Traces, Mine
    <3>3. v \in Members' => Beside(v, {"own", "remove"})'
      BY <1>2, <1>7, <2>2, <3>1 DEF Traces
    <3>4. \A i \in DOMAIN invites : Pending(i) /\ Of(i, v) => Beside(v, {"own", "invite"})
      BY <1>2, <2>2 DEF Traces
    <3>5. \A i \in DOMAIN invites' : Pending(i)' /\ Of(i, v)' => Beside(v, {"own", "invite"})'
      BY <1>1, <3>1, <3>4 DEF Of, Pending
    <3> QED
      BY <3>2, <3>3, <3>5
  <2> QED
    BY <1>1, <2>1, <2>2 DEF Traces
<1>18. Razed'
  BY <1>1, <1>2, <1>6, <1>8, RazedKept
<1> QED
  BY <1>4, <1>8, <1>11, <1>13, <1>14, <1>15, <1>16, <1>17, <1>18, StepDone

LEMMA DeleteUserStep ==
    ASSUME IInv, NEW r \in Requests, DeleteUser(r)
    PROVE  IInv'
PROOF
<1>0. PICK u : u = request[r].user
  OBVIOUS
<1>1. /\ request[r].op = "delete" /\ request[r].at = "user" /\ Ends(r)
      /\ users' = users \ {u}
      /\ UNCHANGED <<workspace, invites, record, overlapped, doubled, left, quit>>
  BY <1>0 DEF DeleteUser, history, At
<1>2. Stored /\ Requested /\ Ruled /\ Invited /\ Traces /\ Razed /\ workspace.v \in Nat
      /\ (workspace.state = "live" => workspace.owner \in Users)
      /\ request[r] \in Asked /\ Ok(request[r])
  BY Now
<1>3. u \in Users /\ Owned(request[r]) /\ Leaving(request[r])
  BY <1>0, <1>1, <1>2 DEF Ok, Fit
<1>4. Grows /\ FewerRecords /\ FewerPending /\ SameInvites /\ StillLive /\ Members' = Members
  BY <1>1, <1>2 DEF Grows, FewerRecords, FewerPending, SameInvites, StillLive, Members
<1>5. \A v \in Users : Kept(v) => Kept(v)'
  BY <1>1, <1>4, Grown DEF Kept
<1>6. \A v \in Users : /\ Beside(v, {"own"}) => Beside(v, {"own"})'
                       /\ Beside(v, {"own", "remove"}) => Beside(v, {"own", "remove"})'
                       /\ Beside(v, {"own", "invite"}) => Beside(v, {"own", "invite"})'
  BY <1>4, Grown
<1>7. ASSUME NEW p \in Asked, Ok(p), Meet(request[r], p), Meet(p, request[r])
       PROVE  Ok(p)'
  <2>0. (p.op # "none" => p.user \in Users) /\ (p.op = "invite" => p.who \in Users) /\ Known(p)
    BY <1>7 DEF Ok, Fit
  <2>1. Fit(p)'
    BY <1>1, <1>4, <1>7, FitKept DEF Ok, Fit
  <2>2. Known(p)'
    <3>1. /\ p.op # "none" /\ p.user = u => Beside(u, {"own"})
          /\ p.op = "invite" => Beside(u, {"own", "invite"})
      BY <1>0, <1>1, <1>3, <1>7, DeletionMeets
    <3> QED
      BY <1>1, <1>3, <1>6, <2>0, <3>1 DEF Known
  <2>3. Copied(p)'
    BY <1>1, <1>2, <1>4, <1>7, CopiedPart DEF Ok
  <2>4. Owned(p)'
    BY <1>4, <1>7, OwnedKept DEF Ok
  <2>5. Entering(p)'
    BY <1>1, <1>4, <1>7, EnteringKept DEF Ok
  <2>6. Leaving(p)'
    BY <1>4, <1>5, <1>7, <2>0, LeavingKept DEF Ok
  <2>7. Razing(p)'
    BY <1>1, <1>4, <1>7, RazingKept DEF Ok
  <2> QED
    BY <2>1, <2>2, <2>3, <2>4, <2>5, <2>6, <2>7 DEF Ok
<1>8. Stored'
  BY <1>1, <1>2 DEF Stored
<1>9. Ruled'
  <2> SUFFICES ASSUME workspace'.state = "live"
               PROVE  (Disowned' \/ (workspace'.owner \in users' /\ Led(workspace.members)')) /\ Twins(workspace.members)'
    BY DEF Ruled
  <2>1. Disowned => Disowned'
    BY <1>1, <1>2, <1>4, Grown DEF Disowned
  <2>2. Led(workspace.members) => Led(workspace.members)'
    BY <1>1 DEF Led, Entry
  <2>3. u = workspace.owner => Disowned
    BY <1>0, <1>1, <1>3 DEF Owned
  <2>4. Twins(workspace.members)'
    BY <1>1, <1>2 DEF Ruled, Twins, Back, Beside
  <2> QED
    BY <1>1, <1>2, <2>1, <2>2, <2>3, <2>4 DEF Ruled
<1>10. Invited'
  <2>1. request \in [Requests -> Asked] /\ request' = [request EXCEPT ![r] = Idle]
    BY <1>1, <1>2 DEF Requested, Ends
  <2>2. \A o \in Requests, j \in DOMAIN invites : Settles(request[o], j) => Settles(request'[o], j)
    BY <1>1, <2>1 DEF Settles
  <2> QED
    BY <1>1, <1>2, <1>4, <2>2, InvitedKept
<1>11. Traces'
  <2>1. \A x \in Records, v \in Users : Mine(x, v)' /\ record'[x].shared =>
         v \in Members' \/ Kept(v)'
    BY <1>1, <1>2, <1>4, <1>5 DEF Traces, Mine
  <2>2. ASSUME NEW v \in Users, v \notin users'
        PROVE  /\ \A x \in Records : Mine(x, v)' => Beside(v, {"own"})' \/ (record'[x].shared /\ Kept(v)')
               /\ v \in Members' => Beside(v, {"own", "remove"})'
               /\ \A i \in DOMAIN invites' : Pending(i)' /\ Of(i, v)' =>
                   Beside(v, {"own", "invite"})'
    <3>1. /\ \A x \in Records : Mine(x, v) => Beside(v, {"own"}) \/ (record[x].shared /\ Kept(v))
          /\ v \in Members => Beside(v, {"own", "remove"})
          /\ \A i \in DOMAIN invites : Pending(i) /\ Of(i, v) => Beside(v, {"own", "invite"})
      <4>1. CASE v = u
        BY <1>0, <1>1, <1>3, <4>1 DEF Leaving
      <4>2. CASE v # u
        BY <1>1, <1>2, <2>2, <4>2 DEF Traces
      <4> QED
        BY <4>1, <4>2
    <3>2. \A x \in Records : Mine(x, v)' => Beside(v, {"own"})' \/ (record'[x].shared /\ Kept(v)')
      BY <1>1, <1>5, <1>6, <3>1 DEF Mine
    <3>3. \A i \in DOMAIN invites' : Pending(i)' /\ Of(i, v)' => Beside(v, {"own", "invite"})'
      BY <1>1, <1>6, <3>1 DEF Of, Pending
    <3> QED
      BY <1>4, <1>6, <3>1, <3>2, <3>3
  <2> QED
    BY <2>1, <2>2 DEF Traces
<1>12. Razed'
  BY <1>1, <1>2, <1>4, RazedKept
<1> QED
  BY <1>1, <1>4, <1>7, <1>8, <1>9, <1>10, <1>11, <1>12, EndDone

-----------------------------------------------------------------------------
(* The state the server is found in, and the theorems. *)
LEMMA InitHolds ==
    ASSUME Init
    PROVE  IInv
PROOF
<1>1. PICK m \in FirstMembers :
         /\ workspace = Opening(m)
         /\ record \in [Records -> {NoRecord} \cup
                {[by |-> m[i].user, shared |-> TRUE] : i \in DOMAIN m}]
         /\ invites \in {<<>>} \cup
                {<<[to |-> u, by |-> m[i].user, role |-> "editor", status |-> "pending"]>> :
                    u \in Users \ {m[j].user : j \in DOMAIN m}, i \in DOMAIN m \cap {1}}
  BY DEF Init
<1>2. /\ users = Users /\ request = [r \in Requests |-> Idle]
      /\ overlapped = [u \in Users |-> {}] /\ doubled = {}
      /\ left = [u \in Users |-> 0] /\ quit = {}
  BY DEF Init
<1>3. /\ m \in Seq([user : Users, role : InviteRoles \cup {"owner"}])
      /\ \A i, j \in DOMAIN m : i # j => m[i].user # m[j].user
      /\ \A i \in DOMAIN m : m[i].role = "owner" <=> i = 1
  BY MembersAssumption
<1>4. PICK n : n = Len(m)
  OBVIOUS
<1>5. n \in Nat /\ DOMAIN m = 1..n /\ \A i \in 1..n :
       m[i] \in [user : Users, role : InviteRoles \cup {"owner"}]
  BY <1>3, <1>4, LenProperties, ElementOfSeq
<1>6. \A i \in 1..n : m[i] \in Entries /\ m[i].user \in Users
  BY <1>5 DEF Entries, Someone
<1>7. m \in Seq(Entries)
  <2>1. m \in [1..n -> Entries]
    BY <1>3, <1>4, <1>5, <1>6, LenProperties
  <2> QED
    BY <1>5, <2>1, IsASeq
<1>8. m = <<>> <=> n = 0
  BY <1>4, <1>7, EmptySeq, LenProperties
<1>9. /\ workspace.members = m /\ workspace.v = 0
      /\ workspace.state = (IF n = 0 THEN "none" ELSE "live")
      /\ workspace.owner = (IF n = 0 THEN NoUser ELSE m[1].user)
      /\ workspace \in [state : {"none", "live", "gone"}, owner : Someone, members :
          Seq(Entries), v : Nat]
  <2>1. n # 0 => 1 \in 1..n
    BY <1>5
  <2> QED
    BY <1>1, <1>6, <1>7, <1>8, <2>1 DEF Someone, Opening
<1>10. Members = {m[i].user : i \in 1..n}
  BY <1>5, <1>9 DEF Members
<1>11. \A x \in Records : \/ record[x] = NoRecord
                          \/ record[x].by \in Members /\ record[x].by \in Users /\ record[x].shared = TRUE
                             /\ record[x] \in Made /\ n # 0
  <2>1. ASSUME NEW x \in Records, record[x] # NoRecord
        PROVE  record[x].by \in Members /\ record[x].by \in Users /\ record[x].shared = TRUE
               /\ record[x] \in Made /\ n # 0
    <3>1. PICK i \in 1..n : record[x] = [by |-> m[i].user, shared |-> TRUE]
      BY <1>1, <1>5, <2>1
    <3> QED
      BY <1>5, <1>6, <1>10, <3>1 DEF Made, Someone
  <2> QED
    BY <2>1
<1>12. NoRecord \in Made /\ NoRecord.by \notin Users /\ ~NoRecord.shared
  BY NamesAssumption DEF NoRecord, Made, Someone
<1>13. record \in [Records -> Made]
  <2>1. \A x \in Records : record[x] \in Made
    BY <1>11, <1>12
  <2> QED
    BY <1>1, <2>1
<1>14. invites = <<>> \/ \E e \in Invitations : invites = <<e>> /\ e.to \notin Members /\ n # 0
  <2>1. CASE invites # <<>>
    <3>1. PICK u \in Users, i \in DOMAIN m :
             /\ u \notin {m[j].user : j \in DOMAIN m} /\ i = 1
             /\ invites = <<[to |-> u, by |-> m[i].user, role |-> "editor", status |-> "pending"]>>
      BY <1>1, <2>1
    <3>2. PICK e : e = [to |-> u, by |-> m[i].user, role |-> "editor", status |-> "pending"]
      OBVIOUS
    <3>3. e \in Invitations /\ e.to = u
      BY <1>5, <1>6, <3>2 DEF Invitations, InviteRoles
    <3>4. u \notin Members /\ n # 0
      BY <1>5, <1>10, <3>1
    <3> QED
      BY <3>1, <3>2, <3>3, <3>4
  <2> QED
    BY <2>1
<1>15. /\ invites \in Seq(Invitations) /\ Len(invites) \in Nat /\ (n = 0 => invites = <<>>)
       /\ \A i \in DOMAIN invites : i = 1 /\ invites[i].to \notin Members
  <2>1. CASE invites = <<>>
    BY <2>1, EmptySeq, LenProperties
  <2>2. CASE \E e \in Invitations : invites = <<e>> /\ e.to \notin Members /\ n # 0
    <3>1. PICK e \in Invitations : invites = <<e>> /\ e.to \notin Members /\ n # 0
      BY <2>2
    <3>2. <<e>> \in Seq(Invitations) /\ DOMAIN <<e>> = {1} /\ <<e>>[1] = e /\ Len(<<e>>) = 1
      OBVIOUS
    <3> QED
      BY <3>1, <3>2
  <2> QED
    BY <1>14, <2>1, <2>2
<1>16. Stored
  <2>1. left \in [Users -> Nat] /\ \A u \in Users : left[u] = 0 /\ left[u] <= Len(invites)
    BY <1>2, <1>15
  <2>2. overlapped \in [Users -> SUBSET (Kinds \cup {"own"})]
    BY <1>2
  <2>3. workspace.state = "live" => workspace.owner \in Users
    <3>1. n # 0 => 1 \in 1..n
      BY <1>5
    <3> QED
      BY <1>6, <1>9, <3>1
  <2>4. workspace.state = "none" =>
          /\ workspace.members = <<>> /\ invites = <<>>
          /\ \A x \in Records : ~record[x].shared
    <3>1. workspace.state = "none" => n = 0
      BY <1>9
    <3> QED
      BY <1>8, <1>9, <1>11, <1>12, <1>15, <3>1
  <2> QED
    BY <1>2, <1>9, <1>13, <1>15, <2>1, <2>2, <2>3, <2>4 DEF Stored
<1>17. Ruled
  <2>1. ASSUME n # 0 PROVE m[1].user \in users /\ Led(m) /\ Twins(m)
    <3>1. 1 \in 1..n /\ n > 0
      BY <1>5, <2>1
    <3>2. m[1] = [user |-> m[1].user, role |-> m[1].role] /\ m[1].role = "owner"
      BY <1>3, <1>5, <3>1
    <3>3. m[1] = Entry(workspace.owner, "owner")
      BY <1>9, <2>1, <3>2 DEF Entry
    <3> QED
      BY <1>2, <1>3, <1>4, <1>6, <3>1, <3>3 DEF Led, Twins
  <2>2. workspace.state = "live" => n # 0 /\ workspace.owner = m[1].user
    BY <1>9
  <2> QED
    BY <1>9, <2>1, <2>2 DEF Ruled
<1>18. Invited
  <2>1. \A i \in DOMAIN invites : i =
         1 /\ invites[i].to \in Users /\ ~(i <= left[invites[i].to]) /\ invites[i].to \notin Members
    BY <1>2, <1>15, <1>16, InvitesTyped
  <2> QED
    BY <2>1 DEF Invited
<1>19. Traces
  BY <1>2, <1>11, <1>12 DEF Traces, Mine
<1>20. Razed
  BY <1>9 DEF Razed
<1>21. Requested
  BY <1>2, IdleOk DEF Requested, Meet, Idle, Joins
<1> QED
  BY <1>16, <1>17, <1>18, <1>19, <1>20, <1>21 DEF IInv

LEMMA NextStep ==
    ASSUME IInv, [Next]_vars
    PROVE  IInv'
PROOF
<1>1. CASE Next
  <2>1. PICK r \in Requests : Ask(r) \/ Step(r) \/ Crash(r)
    BY <1>1 DEF Next
  <2>2. CASE Step(r)
    BY <2>2, InsertWorkspaceStep, LoadStep, CreateInviteStep, SaveRoleStep, SaveRemovalStep,
       LoadInviteStep,
       LoadForJoinStep, PushStep, SettleInviteStep, CheckRoleStep, InsertRecordStep,
           CheckAllowedStep,
       ImpactStep, DeletePersonalStep, SeverStep, RazeStep, CloseWorkspaceStep, DeleteInvitesStep,
       PullMemberStep, DeleteUserStep
       DEF Step, Cascade
  <2> QED
    BY <2>1, <2>2, AskStep, CrashStep
<1>2. CASE UNCHANGED vars
  <2>1. UNCHANGED <<users, workspace, invites, record, request, overlapped, doubled, left, quit>>
    BY <1>2 DEF vars, history
  <2>2. UNCHANGED <<IInv>>
    BY <2>1 DEF IInv, Stored, Ruled, Invited, Traces, Razed, Requested, Ok, Fit, Known, Copied,
       Owned, Entering,
                Leaving, Razing, Meet, Members, Disowned, Leftover, Kept, Back, Beside, Pending,
                    Of, Mine, Led,
                Twins, Current, Settles
  <2> QED
    BY <2>2
<1> QED
  BY <1>1, <1>2

(* The invariant the others rest on: what each request may still rely on   *)
(* of the copies it has made, whom it has met, and what there is of whom   *)
(* it deletes.                                                             *)
THEOREM IInvHolds == Spec => []IInv
PROOF
<1>1. Init => IInv
  BY InitHolds
<1>2. IInv /\ [Next]_vars => IInv'
  BY NextStep
<1> QED
  BY <1>1, <1>2, PTL DEF Spec

LEMMA Typed ==
    ASSUME IInv
    PROVE  TypeOK
PROOF
<1>1. Stored /\ Requested /\ \A r \in Requests : Fit(request[r])
  BY DEF IInv, Requested, Ok
<1>2. /\ users \subseteq Users
      /\ workspace.state \in {"none", "live", "gone"} /\ workspace.v \in Nat
      /\ workspace.members \in Seq(Entries) /\ invites \in Seq(Invitations) /\ record \in [Records -> Made]
  BY <1>1 DEF Stored
<1>3. \A r \in Requests :
         /\ request[r].invite \in {0} \cup DOMAIN invites
         /\ request[r].op \in {"accept", "decline"} => request[r].invite # 0
         /\ At(r, "role", "write") => Place(request[r].members, request[r].who) # 0
  <2>1. 0 \notin DOMAIN invites
    BY <1>1, InvitesTyped
  <2> QED
    BY <1>1, <2>1 DEF Fit, At
<1>4. Someone \cup {Removed} = Users \cup {NoUser, Removed}
  BY DEF Someone
<1> QED
  BY <1>2, <1>3, <1>4 DEF TypeOK, Entries, Someone, Invitations, Made

(* Nothing is left of who is gone but what he left before, or what a       *)
(* request that ran beside the cascade brought in: of any number of users, *)
(* members, records and requests, whichever order their steps come in and  *)
(* wherever a cascade is cut short and taken up again.                     *)
THEOREM NoTrace == Spec => []NoTraceOfTheDeleted
PROOF
<1>1. ASSUME IInv PROVE NoTraceOfTheDeleted
  <2>1. Traces /\ Razed
    BY <1>1 DEF IInv
  <2>2. ASSUME NEW u \in Users, u \notin users
        PROVE  /\ \A x \in Records : record[x].by = u =>
                      \/ Beside(u, {"own"})
                      \/ record[x].shared /\ (u \in quit \/ workspace.state = "gone")
               /\ u \in Members => Beside(u, {"own", "remove"})
               /\ \A i \in DOMAIN invites :
                      invites[i].status = "pending" /\ u \in {invites[i].to, invites[i].by}
                      => Beside(u, {"own", "invite"})
    BY <2>1, <2>2 DEF Traces, Mine, Kept, Pending, Of
  <2> QED
    BY <2>1, <2>2 DEF NoTraceOfTheDeleted, Razed, Leftover
<1> QED
  BY <1>1, IInvHolds, PTL

(* A live workspace has its owner among its members and each of them once, *)
(* but for what ran beside the owner's own deletion and for the invites    *)
(* that could be accepted twice; and every variable has its type.          *)
THEOREM OwnedHolds == Spec => []OwnedAndDistinct
PROOF
<1>1. ASSUME IInv PROVE OwnedAndDistinct
  <2>1. Ruled
    BY <1>1 DEF IInv
  <2>2. ASSUME workspace.state = "live"
        PROVE  /\ \/ workspace.owner \in users \cap Members
                  \/ Beside(workspace.owner, {"own", "accept", "remove"})
               /\ \A i, j \in DOMAIN workspace.members :
                      workspace.members[i].user = workspace.members[j].user /\ i # j =>
                          \/ workspace.members[i].user \in doubled \cup {NoUser}
                          \/ Beside(workspace.members[i].user, {"own", "remove"})
    <3>1. Led(workspace.members) => workspace.owner \in Members
      <4>1. PICK m \in Seq(Entries) : m = workspace.members
        BY <1>1, Now
      <4>2. Len(m) > 0 => 1 \in DOMAIN m
        BY LenProperties
      <4>3. Led(m) => 1 \in DOMAIN m /\ m[1].user = workspace.owner
        BY <4>2 DEF Led, Entry
      <4> QED
        BY <4>1, <4>3 DEF Members
    <3> QED
      BY <2>1, <2>2, <3>1 DEF Ruled, Disowned, Twins, Back
  <2> QED
    BY <1>1, <2>2, Typed DEF OwnedAndDistinct
<1> QED
  BY <1>1, IInvHolds, PTL

(* Who asks for something has changed nothing yet. *)
LEMMA AskKeeps ==
    ASSUME NEW r, Ask(r)
    PROVE  record' = record /\ workspace' = workspace
PROOF
<1> DEFINE Same == record' = record /\ workspace' = workspace
<1>1. ASSUME NEW u, AskCreate(r, u) \/ AskDelete(r, u) PROVE Same
  BY <1>1 DEF AskCreate, AskDelete, Begin
<1>2. ASSUME NEW u, NEW w, NEW role, AskInvite(r, u, w, role) \/ AskRole(r, u, w, role) PROVE Same
  BY <1>2 DEF AskInvite, AskRole, Begin
<1>3. ASSUME NEW u, NEW w, AskRemove(r, u, w) PROVE Same
  BY <1>3 DEF AskRemove, Begin
<1>4. ASSUME NEW i, NEW op, AskAnswer(r, i, op) PROVE Same
  BY <1>4 DEF AskAnswer, Begin
<1>5. ASSUME NEW u, NEW shared, AskRecord(r, u, shared) PROVE Same
  BY <1>5 DEF AskRecord, Begin
<1> HIDE DEF Same
<1>6. Same
  BY <1>1, <1>2, <1>3, <1>4, <1>5, Zenon DEF Ask
<1> QED
  BY <1>6 DEF Same

(* Who writes records. *)
LEMMA RecordSteps ==
    ASSUME NEW r \in Requests, Ask(r) \/ Step(r) \/ Crash(r)
    PROVE  record' = record \/ InsertRecord(r) \/ DeletePersonal(r) \/ Sever(r) \/ Raze(r)
PROOF
<1>1. Ask(r) => record' = record
  BY AskKeeps
<1>2. Crash(r) => record' = record
  BY DEF Crash
<1>3. Cascade(r) => record' = record \/ DeletePersonal(r) \/ Sever(r) \/ Raze(r)
  BY DEF Cascade, CheckAllowed, Impact, CloseWorkspace, DeleteInvites, PullMember, DeleteUser
<1>4. Step(r) /\ ~Cascade(r) => record' = record \/ InsertRecord(r)
  BY DEF Step, InsertWorkspace, Load, CreateInvite, SaveRole, SaveRemoval, LoadInvite,
     LoadForJoin, Push,
         SettleInvite, CheckRole
<1> QED
  BY <1>1, <1>2, <1>3, <1>4

(* A shared record goes only with the last member: a departure that found  *)
(* others in the workspace never takes it away, unless they came while the *)
(* cascade ran.                                                            *)
THEOREM SharedHolds == Spec => SharedSurvives
PROOF
<1> DEFINE Shared == \A x \in Records : record[x].shared /\ record'[x] = NoRecord =>
          \E r \in Requests :
              /\ request[r].op = "delete"
              /\ \/ Members \subseteq {request[r].user, NoUser}
                 \/ Beside(request[r].user, {"own", "accept", "remove"})
<1>1. ASSUME IInv, [Next]_vars PROVE [Shared]_vars
  <2> SUFFICES ASSUME Next, NEW x \in Records, record[x].shared, record'[x] = NoRecord
               PROVE  \E r \in Requests :
                         /\ request[r].op = "delete"
                         /\ \/ Members \subseteq {request[r].user, NoUser}
                            \/ Beside(request[r].user, {"own", "accept", "remove"})
    BY <1>1
  <2>1. PICK r \in Requests : Ask(r) \/ Step(r) \/ Crash(r)
    BY DEF Next
  <2>2. record \in [Records -> Made] /\ request[r] \in Asked /\ Ok(request[r]) /\ record[x] \in Made
    BY <1>1, Now DEF Stored
  <2>3. NoRecord.by = NoUser /\ ~NoRecord.shared /\ record[x] # NoRecord
    BY DEF NoRecord
  <2>4. CASE InsertRecord(r)
    BY <2>2, <2>3, <2>4 DEF InsertRecord
  <2>5. CASE DeletePersonal(r)
    <3>1. x \notin Own(r, FALSE)
      BY DEF Own
    <3>2. record'[x] = record[x]
      BY <2>5, <3>1 DEF DeletePersonal, Swept
    <3> QED
      BY <2>3, <3>2
  <2>6. CASE Sever(r)
    <3>1. record'[x] = record[x] \/ record'[x] = [record[x] EXCEPT !.by = Removed]
      BY <2>6 DEF Sever, Swept
    <3>2. [record[x] EXCEPT !.by = Removed].by = Removed
      BY <2>2 DEF Made
    <3> QED
      BY <2>3, <3>1, <3>2, NamesAssumption
  <2>7. CASE Raze(r)
    <3>1. request[r].op = "delete" /\ request[r].at = "raze"
      BY <2>7 DEF Raze, Swept, At
    <3>2. Members \subseteq {request[r].user, NoUser} \/ Beside(request[r].user,
           {"own", "accept", "remove"})
      BY <2>2, <3>1 DEF Ok, Fit, Razing
    <3> QED
      BY <3>1, <3>2
  <2> QED
    BY <2>1, <2>3, <2>4, <2>5, <2>6, <2>7, RecordSteps
<1> QED
  BY <1>1, IInvHolds, PTL DEF Spec, SharedSurvives

(* A role is written at the place the member has by then: the copy of the  *)
(* members is in line with the list unless a cascade pulled somebody out.  *)
THEOREM RoleHolds == Spec => RoleGoesToItsMember
PROOF
<1> DEFINE Role == \A r \in Requests : SaveRole(r) =>
          \/ Others(workspace'.members, request[r].who)
                = Others(workspace.members, request[r].who)
          \/ \E u \in Users : Beside(u, {"own", "role"})
<1>1. ASSUME IInv PROVE Role
  <2> SUFFICES ASSUME NEW r \in Requests, SaveRole(r), ~\E u \in Users :
         Beside(u, {"own", "role"}), workspace' # workspace
               PROVE  Others(workspace'.members, request[r].who) =
                      Others(workspace.members, request[r].who)
    OBVIOUS
  <2>0. PICK q : q = request[r]
    OBVIOUS
  <2>1. q \in Asked /\ Ok(q) /\ Stored
    BY <1>1, <2>0, Now
  <2>2. q.op = "role" /\ q.at =
         "write" /\ q.who \in Users /\ q.role \in InviteRoles /\ q.members \in Seq(Entries)
    BY <2>0, <2>1 DEF SaveRole, At, Ok, Fit, Asked
  <2>3. PICK i : i = Place(q.members, q.who)
    OBVIOUS
  <2>4. PICK m \in Seq(Entries) : m = workspace.members
    BY <1>1, Now
  <2>4a. PICK W : W = RoleSetAt(m, i, q.role)
    OBVIOUS
  <2>5. workspace' = [workspace EXCEPT !.members = W] /\ Current(q)
    BY <2>0, <2>3, <2>4, <2>4a DEF SaveRole, Unmoved, Current
  <2>6. i \in DOMAIN q.members /\ q.members[i].user = q.who
    <3>1. i # 0
      BY <2>1, <2>2, <2>3 DEF Ok, Fit
    <3> QED
      BY <2>2, <2>3, <3>1, PlaceFacts
  <2>7. Aligned(q.members, m)
    BY <2>1, <2>2, <2>4, <2>4a, <2>5 DEF Ok, Copied, Writes
  <2>8. PICK n \in Nat : n = Len(m) /\ DOMAIN m = 1..n
    BY LenProperties
  <2>9. i \in 1..n /\ m[i].user = q.who
    BY <2>2, <2>6, <2>7, <2>8, LenProperties DEF Aligned
  <2>10. DOMAIN W = 1..n /\ W[i].user = q.who /\ \A j \in 1..n : j # i => W[j] = m[j]
    <3>1. W = [m EXCEPT ![i].role = q.role]
      BY <2>4, <2>4a, <2>8, <2>9 DEF RoleSetAt
    <3>2. m[i] \in Entries
      BY <2>8, <2>9, ElementOfSeq
    <3>3. [m[i] EXCEPT !.role = q.role].user = m[i].user
      BY <3>2 DEF Entries
    <3> QED
      BY <2>8, <2>9, <3>1, <3>3
  <2>11. Others(W, q.who) = Others(m, q.who)
    BY <2>8, <2>9, <2>10 DEF Others
  <2>12. workspace'.members = W
    BY <2>1, <2>5 DEF Stored
  <2> QED
    BY <2>0, <2>4, <2>4a, <2>11, <2>12
<1> QED
  BY <1>1, IInvHolds, PTL DEF RoleGoesToItsMember

(* Who writes the members, and the account of whom stays. *)
LEMMA MemberSteps ==
    ASSUME NEW r \in Requests, Ask(r) \/ Step(r) \/ Crash(r)
    PROVE  \/ workspace' = workspace \/ InsertWorkspace(r) \/ SaveRole(r) \/ SaveRemoval(r) \/ Push(r)
           \/ CloseWorkspace(r) \/ PullMember(r)
PROOF
<1>1. Ask(r) => workspace' = workspace
  BY AskKeeps
<1>2. Crash(r) => workspace' = workspace
  BY DEF Crash
<1>3. Cascade(r) => workspace' = workspace \/ CloseWorkspace(r) \/ PullMember(r)
  BY DEF Cascade, CheckAllowed, Impact, DeletePersonal, Sever, Raze, Swept, DeleteInvites,
     DeleteUser
<1>4. Step(r) /\ ~Cascade(r) =>
         workspace' = workspace \/ InsertWorkspace(r) \/ SaveRole(r) \/ SaveRemoval(r) \/ Push(r)
  BY DEF Step, Load, CreateInvite, LoadInvite, LoadForJoin, SettleInvite, CheckRole, InsertRecord
<1> QED
  BY <1>1, <1>2, <1>3, <1>4

(* Who is not a member becomes one only by an invite made after he left,   *)
(* but for an accept cut short or answered twice (doubled) and a removal   *)
(* or a request of his own beside his deletion.                            *)
THEOREM ReturnsHold == Spec => ReturnsOnlyByNewInvite
PROOF
<1> DEFINE Returns == \A u \in users \ Members : Place(workspace'.members, u) # 0 =>
          \/ left[u] = 0 \/ u \in doubled \/ Beside(u, {"own", "remove"})
          \/ \E r \in Requests : Push(r) /\ request[r].user = u /\ request[r].invite > left[u]
<1>1. ASSUME IInv, [Next]_vars PROVE [Returns]_vars
  <2> SUFFICES ASSUME Next, NEW u \in users, u \notin Members, Place(workspace'.members, u) # 0,
                      left[u] # 0, ~Back(u)
               PROVE  \E r \in Requests : Push(r) /\ request[r].user =
                      u /\ request[r].invite > left[u]
    BY <1>1 DEF Back
  <2>1. PICK r \in Requests : Ask(r) \/ Step(r) \/ Crash(r)
    BY DEF Next
  <2>2. /\ Stored /\ u \in Users /\ workspace'.members \in Seq(Entries)
        /\ request[r] \in Asked /\ Ok(request[r]) /\ IInv'
    <3>1. IInv' /\ Stored /\ request[r] \in Asked /\ Ok(request[r])
      BY <1>1, <2>1, NextStep, Now
    <3>2. Stored'
      BY <3>1 DEF IInv
    <3>3. workspace'.members \in Seq(Entries)
      BY <3>2 DEF Stored
    <3> QED
      BY <3>1, <3>3 DEF Stored
  <2>3. PICK M \in Seq(Entries) : M = workspace'.members
    BY <2>2
  <2>4. u \in In(M)
    BY <2>2, <2>3, PlaceFacts
  <2>5. PICK m \in Seq(Entries) : m = workspace.members /\ In(m) = Members
    BY <1>1, Now
  <2>6. u \notin In(m) /\ M # m /\ u # NoUser
    BY <2>2, <2>4, <2>5, NamesAssumption
  <2>7. ~InsertWorkspace(r)
    BY <2>2 DEF InsertWorkspace, At, Ok, Fit, Stored
  <2>8. ~CloseWorkspace(r)
    <3>1. ASSUME CloseWorkspace(r) PROVE M = <<>>
      BY <2>2, <2>3, <3>1 DEF CloseWorkspace, Stored
    <3>2. In(<<>>) = {}
      BY DEF In
    <3> QED
      BY <2>4, <3>1, <3>2
  <2>9. ~PullMember(r)
    <3> SUFFICES ASSUME PullMember(r) PROVE FALSE
      OBVIOUS
    <3>1. PICK w : w = request[r].user
      OBVIOUS
    <3>2. M = Without(m, w)
      BY <2>2, <2>3, <2>5, <3>1 DEF PullMember, Stored
    <3> QED
      BY <2>4, <2>6, <3>2, WithoutIn
  <2>10. ~SaveRemoval(r)
    <3> SUFFICES ASSUME SaveRemoval(r) PROVE FALSE
      OBVIOUS
    <3>1. PICK q : q = request[r]
      OBVIOUS
    <3>2. q.op = "remove" /\ q.at = "write" /\ q.members \in Seq(Entries) /\ Current(q)
      BY <2>2, <2>3, <2>5, <2>6, <3>1 DEF SaveRemoval, At, Asked, Unmoved, Current
    <3>3. M = Without(q.members, q.who)
      BY <2>2, <2>3, <3>1, <3>2 DEF SaveRemoval, Stored, Unmoved, Current
    <3>4. u \in In(q.members)
      BY <2>4, <3>2, <3>3, WithoutIn
    <3>5. Beside(u, {"own", "remove"})
      BY <2>2, <3>1, <3>2, <3>4 DEF Ok, Copied, Writes
    <3> QED
      BY <3>5 DEF Back
  <2>11. ~SaveRole(r)
    <3> SUFFICES ASSUME SaveRole(r) PROVE FALSE
      OBVIOUS
    <3>1. PICK q : q = request[r]
      OBVIOUS
    <3>2. q.op = "role" /\ q.at =
           "write" /\ q.who \in Users /\ q.role \in InviteRoles /\ q.members \in Seq(Entries)
      BY <2>2, <3>1 DEF SaveRole, At, Ok, Fit, Asked
    <3>7. PICK i : i = Place(q.members, q.who)
      OBVIOUS
    <3>8. PICK role \in InviteRoles : role = q.role
      BY <3>2
    <3>3. i = Place(q.members, q.who) /\ role = q.role
      BY <3>7, <3>8
    <3>4. M = RoleSetAt(m, i, role)
      BY <2>2, <2>3, <2>5, <2>6, <3>1, <3>3 DEF SaveRole, Stored
    <3>5. i \in Nat \ {0}
      <4>1. i # 0
        BY <2>2, <3>1, <3>2, <3>3 DEF Ok, Fit
      <4> QED
        BY <3>2, <3>3, <4>1, PlaceFacts
    <3>6. /\ \A j \in DOMAIN m : M[j].user = m[j].user
          /\ \A j \in DOMAIN M : j \notin DOMAIN m => M[j].user = NoUser
      <4>1. PICK k \in Nat \ {0} : k = i
        BY <3>5
      <4>2. /\ \A j \in DOMAIN m :
             j \in DOMAIN RoleSetAt(m, k, role) /\ RoleSetAt(m, k, role)[j].user = m[j].user
            /\ \A j \in DOMAIN RoleSetAt(m, k, role) :
                  j \notin DOMAIN m => RoleSetAt(m, k, role)[j].user = NoUser
        BY RoleSetFacts
      <4> QED
        BY <3>4, <4>1, <4>2
    <3> QED
      BY <2>4, <2>6, <3>6 DEF In
  <2>12. CASE Push(r)
    <3>1. PICK q : q = request[r]
      OBVIOUS
    <3>2. q.op = "accept" /\ q.at = "push" /\ q.user \in Users /\ q.invite \in DOMAIN invites
      BY <2>2, <2>12, <3>1 DEF Push, At, Ok, Fit
    <3>3. PICK e : e = Entry(q.user, invites[q.invite].role)
      OBVIOUS
    <3>4. e \in Entries /\ e.user = q.user
      <4>1. invites[q.invite] \in Invitations
        BY <2>2, <3>2, InvitesTyped
      <4>2. invites[q.invite].role \in InviteRoles
        BY <4>1 DEF Invitations
      <4> QED
        BY <3>2, <3>3, <4>2 DEF Entry, Entries, Someone
    <3>5. M = Append(m, e)
      BY <2>2, <2>3, <2>5, <2>6, <2>12, <3>1, <3>3 DEF Push, Stored
    <3>6. u = q.user
      <4>1. PICK n \in Nat : n = Len(m) /\ DOMAIN m = 1..n
        BY LenProperties
      <4>2. DOMAIN M = 1..(n + 1) /\ M[n + 1] = e /\ \A j \in 1..n : M[j] = m[j]
        BY <3>4, <3>5, <4>1
      <4>3. \A j \in 1..(n + 1) : j \in 1..n \/ j = n + 1
        OBVIOUS
      <4> QED
        BY <2>4, <2>6, <3>4, <4>1, <4>2, <4>3 DEF In
    <3>7. q.invite > left[u]
      <4>1. ~(q.invite <= left[u])
        BY <2>2, <3>1, <3>2, <3>6 DEF Ok, Entering
      <4>2. q.invite \in Nat /\ left[u] \in Nat
        BY <2>2, <3>2, <3>6, InvitesTyped DEF Stored
      <4> QED
        BY <4>1, <4>2
    <3> QED
      BY <2>12, <3>1, <3>6, <3>7
  <2> QED
    BY <2>1, <2>3, <2>5, <2>6, <2>7, <2>8, <2>9, <2>10, <2>11, <2>12, MemberSteps
<1> QED
  BY <1>1, IInvHolds, PTL DEF Spec, ReturnsOnlyByNewInvite
=============================================================================
