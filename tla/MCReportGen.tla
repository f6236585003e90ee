---------------------------- MODULE MCReportGen ----------------------------
(* Small instances of ReportGen for TLC.                                   *)
EXTENDS ReportGen, TLC

CONSTANTS r1, r2, v1, v2

Symmetric == Permutations({r1, r2}) \cup Permutations({v1, v2})
=============================================================================
