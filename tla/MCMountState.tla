---------------------------- MODULE MCMountState ----------------------------
(* A machine for TLC: a disk with a partition, three layers that may be    *)
(* stacked on them, and a disk whose name begins like the first one's      *)
(* (nvme0n1 and nvme0n10).                                                 *)
EXTENDS LinuxInspect, TLC

CONSTANTS nvme, part, lookalike, raid, mapping, volume, f1, f2

MCFamily == [b \in Blocks |-> IF b = nvme THEN {nvme, part, lookalike} ELSE {b}]

MCPartitions == [b \in Blocks |-> IF b = nvme THEN {nvme, part} ELSE {b}]

MCStackable == {<<nvme, raid>>, <<part, raid>>, <<raid, mapping>>, <<mapping, volume>>,
                <<lookalike, mapping>>}

(* A file of each length around the boundaries of two blocks of four bytes *)
(* with two for the length, and another of two bytes.                      *)
MCContents == {<<>>, <<1>>, <<1, 2>>, <<1, 2, 3>>, <<1, 2, 3, 4>>, <<1, 2, 3, 4, 5>>,
               <<1, 2, 3, 4, 5, 6>>}
=============================================================================
