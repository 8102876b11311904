---------------------------- MODULE MCPullCursor ----------------------------
(* Instances of PullCursor for TLC: two collections, the first with        *)
(* tombstones, and pages of one or two documents.                          *)
EXTENDS PullCursor

MCEntityOf == [d \in Docs |-> IF d < 3 THEN 1 ELSE 2]
=============================================================================
