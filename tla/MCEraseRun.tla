----------------------------- MODULE MCEraseRun -----------------------------
(* Small instances of EraseRun for TLC.                                    *)
EXTENDS EraseRun, TLC

CONSTANTS m1, m2

Symmetric == Permutations(Media)
=============================================================================
