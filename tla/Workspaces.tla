----------------------------- MODULE Workspaces -----------------------------
(***************************************************************************)
(* A shared workspace and the deletion of an account                       *)
(* (backend/src/modules/workspaces, users/accountDeletionUtils.ts).  Every *)
(* request loads the workspace, decides on its copy and writes one await   *)
(* later; the cascade of a deletion is a row of writes without a           *)
(* transaction.  One workspace, and one of the collections that hold what  *)
(* its members record: the others are swept in the same way.               *)
(***************************************************************************)
EXTENDS Naturals, Sequences, FiniteSets

CONSTANTS
    Users, NoUser,
    Removed,            \* REMOVED_MEMBER_USER_ID
    Records,
    Requests,           \* the requests the server works on at a time
    FirstMembers,       \* the lists of members a behaviour may start with
    MaxStarts, MaxFaults    \* bounds: requests in all, deaths of the process

ASSUME NamesAssumption == NoUser \notin Users /\ Removed \notin Users \cup {NoUser}
ASSUME BoundsAssumption == MaxStarts \in Nat /\ MaxFaults \in Nat

VARIABLES
    users,          \* the accounts that exist
    workspace,      \* its document, with __v as v
    invites,        \* the invites in the order they were made
    record,         \* record[x]: who made it, and where it belongs
    request,        \* request[r]: what r was asked, and its copies
    overlapped,     \* history: overlapped[u] what ran beside the deletion of u
    doubled,        \* history: users one invite may have let in twice
    left,           \* history: left[u] the invites there were when u last left
    quit,           \* history: users who left and did not come back
    starts, faults

history == <<overlapped, doubled, left, quit>>
bounds == <<starts, faults>>
vars == <<users, workspace, invites, record, request, history, bounds>>

InviteRoles == {"editor", "viewer"}
Entry(u, role) == [user |-> u, role |-> role]
ASSUME MembersAssumption == \A m \in FirstMembers :
    /\ m \in Seq([user : Users, role : InviteRoles \cup {"owner"}])
    /\ \A i, j \in DOMAIN m : i # j => m[i].user # m[j].user
    /\ \A i \in DOMAIN m : m[i].role = "owner" <=> i = 1
NoRecord == [by |-> NoUser, shared |-> FALSE]
Idle == [op |-> "none", at |-> "none", user |-> NoUser, who |-> NoUser, role |-> "none",
         invite |-> 0, members |-> <<>>, v |-> 0, shared |-> FALSE, fate |-> "none"]
-----------------------------------------------------------------------------
(* findWorkspaceMember: the first entry of u.  An entry without a userId   *)
(* throws when it is looked at.                                            *)
Place(m, u) ==
    LET here == {i \in DOMAIN m : m[i].user = u /\ \A j \in 1..(i - 1) : m[j].user \notin {u, NoUser}}
    IN IF here = {} THEN 0 ELSE CHOOSE i \in here : TRUE
RoleOf(m, u) == IF Place(m, u) = 0 THEN "none" ELSE m[Place(m, u)].role
Sane(m) == \A i \in DOMAIN m : m[i].user # NoUser
Members == {workspace.members[i].user : i \in DOMAIN workspace.members}

(* $pull and filter: the entries of the others, in their order. *)
Without(m, u) ==
    LET stay == {i \in DOMAIN m : m[i].user # u}
        Rank(i) == Cardinality({j \in stay : j <= i})
    IN [n \in 1..Cardinality(stay) |-> m[CHOOSE i \in stay : Rank(i) = n]]

Busy(r) == request[r].op # "none"
At(r, op, at) == request[r].op = op /\ request[r].at = at
Ends(r) == request' = [request EXCEPT ![r] = Idle]
Goes(r, at) == request' = [request EXCEPT ![r].at = at]

(* authenticateRequest: the account exists when the request is let in.     *)
Begin(r, q) ==
    LET beside == {request[p] : p \in {p \in Requests : Busy(p)}}
        Tag(p, u) == IF p.user = u THEN "own" ELSE p.op
        Joins(p, u) == p.op = "accept" /\ p.user = u
        Asks(p, u) == p.op = "invite" /\ p.who = u
    IN
    /\ ~Busy(r) /\ starts < MaxStarts
    /\ starts' = starts + 1
    /\ q.user \in users
    /\ request' = [request EXCEPT ![r] = q]
    /\ overlapped' = [u \in Users |-> overlapped[u] \cup UNION {
           (IF q.op = "delete" /\ q.user = u THEN {Tag(p, u)} ELSE {})
           \cup (IF p.op = "delete" /\ p.user = u THEN {Tag(q, u)} ELSE {}) : p \in beside}]
    /\ doubled' = doubled \cup {u \in Users : \E p \in beside :
           \/ Joins(q, u) /\ (Joins(p, u) \/ Asks(p, u))
           \/ Asks(q, u) /\ Joins(p, u)}
    /\ UNCHANGED <<users, workspace, invites, record, left, quit, faults>>
-----------------------------------------------------------------------------
(* createWorkspace *)
AskCreate(r, u) ==
    /\ workspace.state = "none"
    /\ \A p \in Requests : request[p].op # "create"
    /\ Begin(r, [Idle EXCEPT !.op = "create", !.at = "write", !.user = u])

InsertWorkspace(r) ==
    /\ At(r, "create", "write")
    /\ workspace' = [state |-> "live", owner |-> request[r].user,
                     members |-> <<Entry(request[r].user, "owner")>>, v |-> 0]
    /\ Ends(r)
    /\ UNCHANGED <<users, invites, record, history, bounds>>

(* inviteWorkspaceMember, updateWorkspaceMemberRole, removeWorkspaceMember.*)
AskInvite(r, u, w, role) ==
    Begin(r, [Idle EXCEPT !.op = "invite", !.at = "load", !.user = u, !.who = w, !.role = role])
AskRole(r, u, w, role) ==
    Begin(r, [Idle EXCEPT !.op = "role", !.at = "load", !.user = u, !.who = w, !.role = role])
AskRemove(r, u, w) ==
    Begin(r, [Idle EXCEPT !.op = "remove", !.at = "load", !.user = u, !.who = w])

MayInvite(q, m) ==
    /\ RoleOf(m, q.user) = "owner"
    /\ q.who \in users \ {q.user}
    /\ Sane(m) /\ Place(m, q.who) = 0
MayChange(q, m) ==
    RoleOf(m, q.user) = "owner" /\ RoleOf(m, q.who) \in InviteRoles
MayRemove(q, m) ==
    /\ RoleOf(m, q.user) = "owner" \/ (q.who = q.user /\ Place(m, q.user) # 0)
    /\ RoleOf(m, q.who) \in InviteRoles
    /\ Sane(m)

Load(r) ==
    LET q == request[r]
        m == workspace.members
        may == /\ workspace.state = "live"
               /\ \/ q.op = "invite" /\ MayInvite(q, m)
                  \/ q.op = "role" /\ MayChange(q, m)
                  \/ q.op = "remove" /\ MayRemove(q, m)
    IN
    /\ q.op \in {"invite", "role", "remove"} /\ q.at = "load"
    /\ IF may THEN request' = [request EXCEPT ![r].at = "write", ![r].members = m,
                                              ![r].v = workspace.v]
       ELSE Ends(r)
    /\ UNCHANGED <<users, workspace, invites, record, history, bounds>>

(* The partial unique index lets in one pending invite for a user.         *)
CreateInvite(r) ==
    LET q == request[r] IN
    /\ At(r, "invite", "write")
    /\ IF \E i \in DOMAIN invites : invites[i].to = q.who /\ invites[i].status = "pending"
       THEN UNCHANGED invites
       ELSE invites' = Append(invites, [to |-> q.who, by |-> q.user, role |-> q.role,
                                        status |-> "pending"])
    /\ Ends(r)
    /\ UNCHANGED <<users, workspace, record, history, bounds>>

(* A slip: __v is not looked at. *)
UnmovedOrNot(r) == workspace.state = "live"

Unmoved(r) == workspace.state = "live" /\ workspace.v = request[r].v

(* $set of members.i.role: beyond its end MongoDB fills the array up.      *)
RoleSetAt(m, i, role) ==
    IF i <= Len(m) THEN [m EXCEPT ![i].role = role]
    ELSE [j \in 1..i |-> IF j <= Len(m) THEN m[j]
                         ELSE Entry(NoUser, IF j = i THEN role ELSE "none")]

(* save() of one role names its position, and looks at __v. *)
SaveRole(r) ==
    LET q == request[r]
        i == Place(q.members, q.who)
    IN
    /\ At(r, "role", "write")
    /\ workspace' = IF Unmoved(r) /\ q.members[i].role # q.role
                    THEN [workspace EXCEPT !.members = RoleSetAt(@, i, q.role)]
                    ELSE workspace
    /\ Ends(r)
    /\ UNCHANGED <<users, invites, record, history, bounds>>

(* save() of the whole array looks at __v and moves it. *)
SaveRemoval(r) ==
    LET q == request[r] IN
    /\ At(r, "remove", "write")
    /\ IF Unmoved(r)
       THEN /\ workspace' = [workspace EXCEPT !.v = @ + 1,
                   !.members = Without(q.members, q.who)]
            /\ left' = [left EXCEPT ![q.who] = Len(invites)]
            /\ quit' = quit \cup {q.who}
       ELSE UNCHANGED <<workspace, left, quit>>
    /\ Ends(r)
    /\ UNCHANGED <<users, invites, record, overlapped, doubled, bounds>>
-----------------------------------------------------------------------------
(* acceptWorkspaceInvite, declineWorkspaceInvite. *)
AskAnswer(r, i, op) ==
    Begin(r, [Idle EXCEPT !.op = op, !.at = "load", !.user = invites[i].to, !.invite = i])

(* loadPendingInviteForUser *)
LoadInvite(r) ==
    LET q == request[r] IN
    /\ q.op \in {"accept", "decline"} /\ q.at = "load"
    /\ IF invites[q.invite].status # "pending" THEN Ends(r)
       ELSE Goes(r, IF q.op = "accept" THEN "join" ELSE "settle")
    /\ UNCHANGED <<users, workspace, invites, record, history, bounds>>

LoadForJoin(r) ==
    LET m == workspace.members
        u == request[r].user
    IN
    /\ At(r, "accept", "join")
    /\ IF workspace.state = "live" /\ Place(m, u) # 0 THEN Goes(r, "settle")
       ELSE IF workspace.state = "live" /\ Sane(m) THEN Goes(r, "push")
       ELSE Ends(r)
    /\ UNCHANGED <<users, workspace, invites, record, history, bounds>>

(* push and save: $push moves __v and does not look at it. *)
Push(r) ==
    LET q == request[r] IN
    /\ At(r, "accept", "push")
    /\ IF workspace.state = "live"
       THEN /\ workspace' = [workspace EXCEPT !.v = @ + 1,
                   !.members = Append(@, Entry(q.user, invites[q.invite].role))]
            /\ quit' = quit \ {q.user}
            /\ Goes(r, "settle")
       ELSE UNCHANGED <<workspace, quit>> /\ Ends(r)
    /\ UNCHANGED <<users, invites, record, overlapped, doubled, left, bounds>>

(* A slip: an accepted invite stays as it was. *)
SettleDeclined(r) ==
    LET q == request[r] IN
    /\ q.op \in {"accept", "decline"} /\ q.at = "settle"
    /\ invites' = [invites EXCEPT ![q.invite].status =
           IF @ = "deleted" \/ q.op = "accept" THEN @ ELSE "declined"]
    /\ Ends(r)
    /\ UNCHANGED <<users, workspace, record, history, bounds>>

SettleInvite(r) ==
    LET q == request[r] IN
    /\ q.op \in {"accept", "decline"} /\ q.at = "settle"
    /\ invites' = [invites EXCEPT ![q.invite].status =
           IF @ = "deleted" THEN @ ELSE IF q.op = "accept" THEN "accepted" ELSE "declined"]
    /\ Ends(r)
    /\ UNCHANGED <<users, workspace, record, history, bounds>>
-----------------------------------------------------------------------------
(* A member with the right role records something in the workspace, or a   *)
(* user for himself.                                                       *)
AskRecord(r, u, shared) ==
    Begin(r, [Idle EXCEPT !.op = "record", !.user = u, !.shared = shared,
                          !.at = IF shared THEN "load" ELSE "write"])

(* assertWorkspaceMembership(workspaceId, userId, 'editor') *)
CheckRole(r) ==
    /\ At(r, "record", "load")
    /\ IF /\ workspace.state = "live"
          /\ RoleOf(workspace.members, request[r].user) \in {"owner", "editor"}
       THEN Goes(r, "write") ELSE Ends(r)
    /\ UNCHANGED <<users, workspace, invites, record, history, bounds>>

InsertRecord(r) ==
    /\ At(r, "record", "write")
    /\ \E x \in Records :
           /\ record[x] = NoRecord
           /\ record' = [record EXCEPT ![x] = [by |-> request[r].user,
                                               shared |-> request[r].shared]]
    /\ Ends(r)
    /\ UNCHANGED <<users, workspace, invites, history, bounds>>
-----------------------------------------------------------------------------
(* deleteUserAccount: assertAccountDeletionAllowed, then the cascade.      *)
AskDelete(r, u) == Begin(r, [Idle EXCEPT !.op = "delete", !.at = "check", !.user = u])

(* A slip: an owner is let go whoever else is a member. *)
CheckNothing(r) ==
    /\ At(r, "delete", "check")
    /\ Goes(r, "impact")
    /\ UNCHANGED <<users, workspace, invites, record, history, bounds>>

CheckAllowed(r) ==
    /\ At(r, "delete", "check")
    /\ IF /\ workspace.state = "live" /\ workspace.owner = request[r].user
          /\ Len(workspace.members) > 1
       THEN Ends(r) ELSE Goes(r, "impact")
    /\ UNCHANGED <<users, workspace, invites, record, history, bounds>>

(* A slip: the owner does not count as somebody who stays. *)
ImpactOnGuests(r) ==
    LET u == request[r].user
        fate == IF workspace.state # "live" \/ u \notin Members THEN "none"
                ELSE IF Members \ {u, workspace.owner} # {} THEN "retained" ELSE "emptied"
    IN
    /\ At(r, "delete", "impact")
    /\ request' = [request EXCEPT ![r].at = "personal", ![r].fate = fate]
    /\ UNCHANGED <<users, workspace, invites, record, history, bounds>>

(* computeWorkspaceDepartureImpact *)
Impact(r) ==
    LET u == request[r].user
        m == workspace.members
        fate == IF workspace.state # "live" \/ u \notin Members THEN "none"
                ELSE IF Members \ {u} # {} THEN "retained" ELSE "emptied"
    IN
    /\ At(r, "delete", "impact")
    /\ IF fate # "none" /\ ~Sane(m) THEN Ends(r)
       ELSE request' = [request EXCEPT ![r].at = "personal", ![r].fate = fate]
    /\ UNCHANGED <<users, workspace, invites, record, history, bounds>>

Swept(r, at, S, to, next) ==
    /\ At(r, "delete", at)
    /\ record' = [x \in Records |-> IF x \in S THEN to[x] ELSE record[x]]
    /\ Goes(r, next)
    /\ UNCHANGED <<users, workspace, invites, history, bounds>>

Own(r, shared) == {x \in Records : record[x] = [by |-> request[r].user, shared |-> shared]}

DeletePersonal(r) ==
    Swept(r, "personal", Own(r, FALSE), [x \in Records |-> NoRecord],
          CASE request[r].fate = "none" -> "invites"
            [] request[r].fate = "retained" -> "sever"
            [] request[r].fate = "emptied" -> "raze")

Sever(r) ==
    Swept(r, "sever", Own(r, TRUE), [x \in Records |-> [record[x] EXCEPT !.by = Removed]],
          "invites")

Raze(r) ==
    Swept(r, "raze", {x \in Records : record[x].shared}, [x \in Records |-> NoRecord], "close")

CloseWorkspace(r) ==
    /\ At(r, "delete", "close")
    /\ workspace' = [workspace EXCEPT !.state = "gone", !.members = <<>>]
    /\ Goes(r, "invites")
    /\ UNCHANGED <<users, invites, record, history, bounds>>

(* A slip: only the invites he received go. *)
DeleteReceivedInvites(r) ==
    /\ At(r, "delete", "invites")
    /\ invites' = [i \in DOMAIN invites |->
           IF request[r].user = invites[i].to
           THEN [invites[i] EXCEPT !.status = "deleted"] ELSE invites[i]]
    /\ Goes(r, "pull")
    /\ UNCHANGED <<users, workspace, record, history, bounds>>

DeleteInvites(r) ==
    LET u == request[r].user IN
    /\ At(r, "delete", "invites")
    /\ invites' = [i \in DOMAIN invites |->
           IF u \in {invites[i].to, invites[i].by}
           THEN [invites[i] EXCEPT !.status = "deleted"] ELSE invites[i]]
    /\ Goes(r, "pull")
    /\ UNCHANGED <<users, workspace, record, history, bounds>>

(* updateMany with $pull: __v is not looked at and not moved.  *)
PullMember(r) ==
    LET u == request[r].user IN
    /\ At(r, "delete", "pull")
    /\ workspace' = [workspace EXCEPT !.members = Without(@, u)]
    /\ left' = IF u \in Members THEN [left EXCEPT ![u] = Len(invites)] ELSE left
    /\ Goes(r, "user")
    /\ UNCHANGED <<users, invites, record, overlapped, doubled, quit, bounds>>

DeleteUser(r) ==
    /\ At(r, "delete", "user")
    /\ users' = users \ {request[r].user}
    /\ Ends(r)
    /\ UNCHANGED <<workspace, invites, record, history, bounds>>

(* The process dies at an await. *)
Crash(r) ==
    /\ Busy(r) /\ faults < MaxFaults
    /\ faults' = faults + 1
    /\ doubled' = IF At(r, "accept", "settle") THEN doubled \cup {request[r].user} ELSE doubled
    /\ Ends(r)
    /\ UNCHANGED <<users, workspace, invites, record, overlapped, left, quit, starts>>
-----------------------------------------------------------------------------
Cascade(r) ==
    \/ CheckAllowed(r) \/ Impact(r) \/ DeletePersonal(r) \/ Sever(r) \/ Raze(r)
    \/ CloseWorkspace(r) \/ DeleteInvites(r) \/ PullMember(r) \/ DeleteUser(r)

Step(r) ==
    \/ InsertWorkspace(r) \/ Load(r) \/ CreateInvite(r) \/ SaveRole(r) \/ SaveRemoval(r)
    \/ LoadInvite(r) \/ LoadForJoin(r) \/ Push(r) \/ SettleInvite(r)
    \/ CheckRole(r) \/ InsertRecord(r) \/ Cascade(r)

Ask(r) ==
    \/ \E u \in Users : AskCreate(r, u) \/ AskDelete(r, u)
    \/ \E u \in Users, w \in Users :
           \/ \E role \in InviteRoles : AskInvite(r, u, w, role) \/ AskRole(r, u, w, role)
           \/ AskRemove(r, u, w)
    \/ \E i \in DOMAIN invites, op \in {"accept", "decline"} : AskAnswer(r, i, op)
    \/ \E u \in Users, shared \in BOOLEAN : AskRecord(r, u, shared)

(* What earlier requests may have left: members, an invite, a record. *)
Opening(m) ==
    IF m = <<>> THEN [state |-> "none", owner |-> NoUser, members |-> m, v |-> 0]
    ELSE [state |-> "live", owner |-> m[1].user, members |-> m, v |-> 0]

Init ==
    /\ users = Users
    /\ \E m \in FirstMembers :
           /\ workspace = Opening(m)
           /\ record \in [Records -> {NoRecord} \cup
                  {[by |-> m[i].user, shared |-> TRUE] : i \in DOMAIN m}]
           /\ invites \in {<<>>} \cup
                  {<<[to |-> u, by |-> m[i].user, role |-> "editor", status |-> "pending"]>> :
                      u \in Users \ {m[j].user : j \in DOMAIN m}, i \in DOMAIN m \cap {1}}
    /\ request = [r \in Requests |-> Idle]
    /\ overlapped = [u \in Users |-> {}] /\ doubled = {}
    /\ left = [u \in Users |-> 0] /\ quit = {}
    /\ starts = 0 /\ faults = 0

Next == \E r \in Requests : Ask(r) \/ Step(r) \/ Crash(r)

Spec == Init /\ [][Next]_vars
-----------------------------------------------------------------------------
(* Every variable has its type, and a request is at a place its kind has.  *)
TypeOK ==
    /\ users \subseteq Users
    /\ workspace.state \in {"none", "live", "gone"} /\ workspace.v \in Nat
    /\ workspace.members \in Seq([user : Users \cup {NoUser}, role : InviteRoles \cup {"owner", "none"}])
    /\ invites \in Seq([to : Users, by : Users, role : InviteRoles,
                        status : {"pending", "accepted", "declined", "deleted"}])
    /\ record \in [Records -> [by : Users \cup {NoUser, Removed}, shared : BOOLEAN]]
    /\ \A r \in Requests :
           /\ request[r].invite \in {0} \cup DOMAIN invites
           /\ request[r].op \in {"accept", "decline"} => request[r].invite # 0
           /\ At(r, "role", "write") => Place(request[r].members, request[r].who) # 0

(* Requests of these kinds ran beside the deletion of u. *)
Beside(u, kinds) == overlapped[u] \cap kinds # {}

(* "no userId-linked rows outlive the account", "no orphans, regardless of *)
(* who created what" (accountDeletionUtils.ts:351, 323): whoever is gone   *)
(* has no record, no pending invite and no membership, and nothing is kept *)
(* of a workspace that is gone, unless he had left the workspace before or *)
(* another request ran beside a cascade: one of his own, a removal that    *)
(* writes back the members it had loaded, an invite for him, a record of   *)
(* somebody let in meanwhile, which he leaves behind when the workspace is *)
(* razed under it.                                                         *)
NoTraceOfTheDeleted ==
    /\ \A u \in Users \ users :
           /\ \A x \in Records : record[x].by = u =>
                  \/ Beside(u, {"own"})
                  \/ record[x].shared /\ (u \in quit \/ workspace.state = "gone")
           /\ u \in Members => Beside(u, {"own", "remove"})
           /\ \A i \in DOMAIN invites :
                  invites[i].status = "pending" /\ u \in {invites[i].to, invites[i].by}
                  => Beside(u, {"own", "invite"})
    /\ workspace.state = "gone" => \A x \in Records : record[x].shared =>
           \E u \in Users : Beside(u, {"own", "record"})

(* A record of the workspace belongs to the members who stay: only who is  *)
(* its last member takes it along, unless somebody accepted an invite      *)
(* while the cascade was at work, or came back with the members that a     *)
(* removal had loaded (accountDeletionUtils.ts:268).                       *)
SharedSurvives ==
    [][\A x \in Records : record[x].shared /\ record'[x] = NoRecord =>
          \E r \in Requests :
              /\ request[r].op = "delete"
              /\ \/ Members \subseteq {request[r].user, NoUser}
                 \/ Beside(request[r].user, {"own", "accept", "remove"})]_vars

(* A change of role reaches the member it was meant for and nobody else,   *)
(* although it names a position: __v guards it against the other requests, *)
(* but not against the $pull of a cascade (updateWorkspaceMemberRole).     *)
Others(m, u) == {m[i] : i \in {j \in DOMAIN m : m[j].user # u}}
RoleGoesToItsMember ==
    [][\A r \in Requests : SaveRole(r) =>
          \/ Others(workspace'.members, request[r].who)
                = Others(workspace.members, request[r].who)
          \/ \E u \in Users : Beside(u, {"own", "role"})]_vars

(* "There is exactly one owner per workspace"                              *)
(* (docs/workspaces/roles-and-permissions.md:15): the owner is a member    *)
(* with an account, unless an invite was accepted or a list of members was *)
(* written back during his deletion; and nobody is a member twice unless   *)
(* one invite could let him in twice, or he was written back.              *)
(* (With the types: a request is at a place its kind has.)                 *)
OwnedAndDistinct ==
    TypeOK /\ (workspace.state = "live" =>
        /\ \/ workspace.owner \in users \cap Members
           \/ Beside(workspace.owner, {"own", "accept", "remove"})
        /\ \A i, j \in DOMAIN workspace.members :
               workspace.members[i].user = workspace.members[j].user /\ i # j =>
                   \/ workspace.members[i].user \in doubled \cup {NoUser}
                   \/ Beside(workspace.members[i].user, {"own", "remove"}))

(* Who left or was removed comes back only by an invite made since, unless *)
(* an accept was cut short before the invite was marked, or answered or    *)
(* renewed twice at a time (acceptWorkspaceInvite, the partial index of    *)
(* workspaceInvite.model.ts).                                              *)
ReturnsOnlyByNewInvite ==
    [][\A u \in users \ Members : Place(workspace'.members, u) # 0 =>
          \/ left[u] = 0 \/ u \in doubled \/ Beside(u, {"own", "remove"})
          \/ \E r \in Requests : Push(r) /\ request[r].user = u /\ request[r].invite > left[u]]_vars
=============================================================================
