--------------------------- MODULE MCAuditJournal ---------------------------
(* Small instances of AuditJournal for TLC.                                *)
EXTENDS AuditJournal, TLC

CONSTANTS p1, p2, p3, o1, o2, f1, f2, v1

(* Two runs on the same target with the same options have one context.     *)
SameContext == [p \in Procs |-> "context"]

Symmetric == Permutations(Procs) \cup Permutations(Ops)
=============================================================================
