----------------------------- MODULE MCSyncPush -----------------------------
(* Instances of SyncPush for TLC: one document, two creates of its _id, two  *)
(* updates and two deletes of it, sent by two requests at a time.          *)
EXTENDS SyncPush, TLC

CONSTANTS c, c2, u1, u2, x1, x2, rec, h1, h2

MCKind == [op \in Ops |-> CASE op \in {c, c2} -> "create"
                            [] op \in {u1, u2} -> "update"
                            [] op \in {x1, x2} -> "delete"]
MCTarget == [op \in Ops |-> rec]

Transaction == [doc \in Docs |-> "transaction"]
Tombstone == [doc \in Docs |-> "tombstone"]
Archive == [doc \in Docs |-> "archive"]

(* Every op alone; and a create followed by a delete in one request.      *)
Singles == {<<op>> : op \in Ops}
WithPairs == {<<c, x1>>} \cup Singles
(* A state in which an update has been applied twice, which takes a rewound *)
(* document, is checked but not followed further.                          *)
FollowsOne == \A op \in Ops : landed[op] <= 1

(* The two requests are alike, and so are the two updates: no definition *)
(* tells them apart.  Not used by the run that checks liveness.            *)
RequestsAlike == Permutations({h1, h2})
RequestsAndUpdatesAlike == RequestsAlike \cup Permutations({u1, u2})
=============================================================================
