---------------------------- MODULE PushContract ----------------------------
(***************************************************************************)
(* What POST /sync/push promises its callers, without requests, ledger,    *)
(* versions or clock: an operation takes effect in one step, at most once, *)
(* never after it was answered "conflict" and never against a version that *)
(* another update has already replaced; and what a device is told about an *)
(* operation is true of the database at that moment.  A document whose     *)
(* version has been taken back is past the guards on updates, for good.    *)
(***************************************************************************)
EXTENDS Integers

CONSTANTS Ops, Docs, Kind, Target, Unset, Foreign, Final

VARIABLES
    exists,     \* exists[d]: the document has been created
    removed,    \* removed[d]: it has been deleted or archived
    landed,     \* landed[op]: how often op took effect
    base,       \* base[op]: the version an update was made against
    told,       \* told[op]: the final statuses its device was given
    rewound     \* documents whose version has been taken back

vars == <<exists, removed, landed, base, told, rewound>>

Rivals(a, b) ==
    /\ a # b /\ Target[a] = Target[b]
    /\ Kind[a] = "update" /\ Kind[b] = "update"
    /\ base[a] = base[b]

Done(op) ==
    CASE Kind[op] = "create" -> exists[Target[op]]
      [] Kind[op] = "update" -> landed[op] > 0
      [] Kind[op] = "delete" -> removed[Target[op]]

Init ==
    /\ exists \in [Docs -> BOOLEAN]
    /\ removed = [d \in Docs |-> FALSE]
    /\ landed = [op \in Ops |-> 0]
    /\ base = [op \in Ops |-> Unset]
    /\ told = [op \in Ops |-> {}]
    /\ rewound = {}

(* A device makes an update against a version, once and for all. *)
Compose(op) ==
    /\ Kind[op] = "update" /\ base[op] = Unset
    /\ base'[op] \in Nat \cup {Foreign}
    /\ base' = [base EXCEPT ![op] = base'[op]]
    /\ UNCHANGED <<exists, removed, landed, told, rewound>>

(* op has had no effect, no conflict was answered, and no update made      *)
(* against the same version has had one.                                   *)
Allowed(op) ==
    /\ landed[op] = 0
    /\ "conflict" \notin told[op]
    /\ \A rival \in Ops : Rivals(op, rival) => landed[rival] = 0

(* The effect of op reaches its document.  Its stamp may take the version  *)
(* back, when the clock stood still.                                       *)
Land(op) ==
    /\ Allowed(op) \/ (Kind[op] = "update" /\ Target[op] \in rewound)
    /\ landed' = [landed EXCEPT ![op] = IF @ = 0 THEN 1 ELSE 2]
    /\ rewound' \in {rewound, rewound \cup {Target[op]}}
    /\ \/ /\ Kind[op] = "create" /\ ~exists[Target[op]]
          /\ exists' = [exists EXCEPT ![Target[op]] = TRUE]
          /\ UNCHANGED removed
       \/ /\ Kind[op] = "update" /\ base[op] \notin {Unset, Foreign}
          /\ UNCHANGED <<exists, removed>>
       \/ /\ Kind[op] = "delete" /\ exists[Target[op]]
          /\ removed' = [removed EXCEPT ![Target[op]] = TRUE]
          /\ UNCHANGED exists
    /\ UNCHANGED <<base, told>>

(* Devices are given answers; a success is only ever a statement of fact. *)
Tell ==
    /\ told' \in [Ops -> SUBSET Final]
    /\ \A op \in Ops :
          /\ told[op] \subseteq told'[op]
          /\ told'[op] \cap {"applied", "noop"} # {} => Done(op)
    /\ UNCHANGED <<exists, removed, landed, base, rewound>>

Next == Tell \/ \E op \in Ops : Compose(op) \/ Land(op)

Spec == Init /\ [][Next]_vars
=============================================================================
