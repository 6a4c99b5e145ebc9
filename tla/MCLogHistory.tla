---------------------------- MODULE MCLogHistory ----------------------------
(* Small instances of LogHistory: two kinds of violation, three runs of up *)
(* to two violations on one log path.                                      *)
EXTENDS LogHistory
=============================================================================
