---------------------------- MODULE MCSyncSession ----------------------------
(* Instances of SyncSession for TLC: one or two runs, one or two records.  *)
EXTENDS SyncSession

CONSTANTS d1, d2, NumRuns

MCRuns == 1..NumRuns
=============================================================================
