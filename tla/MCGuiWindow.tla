---------------------------- MODULE MCGuiWindow ----------------------------
(* Small instances of GuiWindow for TLC.                                   *)
EXTENDS GuiWindow, TLC

CONSTANTS plain, mounted, \* one disk in two states
          tail,
          t1, t2, s1, s2, j1, j2

MCTail == plain :> tail @@ mounted :> tail

Symmetric == Permutations({t1, t2}) \cup Permutations({s1, s2}) \cup Permutations({j1, j2})
=============================================================================
