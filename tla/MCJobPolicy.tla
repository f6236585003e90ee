----------------------------- MODULE MCJobPolicy -----------------------------
(* A table with the tuple of the test build and one for an NVMe drive.     *)
EXTENDS JobPolicy

TwoTuples ==
    {[kind |-> "hdd", method |-> "clear", action |-> "none", full |-> TRUE],
     [kind |-> "nvme", method |-> "purge", action |-> "crypto", full |-> TRUE]}
=============================================================================
