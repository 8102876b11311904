---------------------------- MODULE MCWorkspaces ----------------------------
(* An owner and two users who may be members already. *)
EXTENDS Workspaces, TLC

CONSTANTS o, a, b, r1, r2

MCFirstMembers ==
    {<<>>, <<Entry(o, "owner")>>, <<Entry(o, "owner"), Entry(a, "editor")>>,
     <<Entry(o, "owner"), Entry(a, "editor"), Entry(b, "viewer")>>}
RequestsAlike == Permutations(Requests)
=============================================================================
