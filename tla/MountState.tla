----------------------------- MODULE MountState -----------------------------
(***************************************************************************)
(* The Linux inspection's search for uses of a disk (src/src/platform.c):  *)
(* mount_state reads the mounts, then the holders of the disk and of each  *)
(* partition with everything stacked on them, then the swap areas, while   *)
(* other programs mount, unmount, stack and release.                       *)
(*                                                                         *)
(* A block device is its name; its number is the name again.  A mount has  *)
(* the number the file system reports, which for some (btrfs) is not that  *)
(* of a block device.  What a scan finds is a set of marks; the flags of   *)
(* the device are their union.                                             *)
(***************************************************************************)
EXTENDS Naturals

CONSTANTS Blocks,     \* block devices
          Disk,       \* the one that is inspected
          Family,     \* Family[b]: the names same_block_family takes for b's
          Partitions, \* Partitions[b]: b and its real partitions
          Stackable,  \* the pairs <<b, h>> where h may be stacked on b
          Anonymous,  \* a number that is no block device's
          MaxDepth,   \* holders are followed to this depth
          MaxUses,    \* bound on the mounts and swap areas at the beginning
          MaxFaults,  \* bound on the entries that cannot be read
          MaxChanges  \* bound on the changes during the inspection

ASSUME MountAssumption ==
    /\ Disk \in Blocks /\ Anonymous \notin Blocks
    /\ Family \in [Blocks -> SUBSET Blocks] /\ Partitions \in [Blocks -> SUBSET Blocks]
    /\ \A b \in Blocks : b \in Partitions[b] /\ Partitions[b] \subseteq Family[b]
    /\ \A b \in Blocks : \A c \in Partitions[b] : Partitions[c] \subseteq Partitions[b]
    /\ Stackable \subseteq Blocks \X Blocks
    /\ MaxDepth \in Nat /\ MaxUses \in Nat /\ MaxFaults \in Nat /\ MaxChanges \in Nat

VARIABLES pc,      \* the scan that comes next
          todo,    \* the names of the directory that are still to come
          marks,   \* mounted, system_disk, in_use, and known that was lost
          uses,    \* the mounts, swap areas and holders there are
          faults,  \* what cannot be read
          lasting, \* the uses that were there from the beginning
          calm,    \* nothing has changed since the beginning
          changes

scan == <<pc, todo, marks>>
vars == <<scan, uses, faults, lasting, calm, changes>>

Mount == [kind : {"mount"}, on : Blocks \cup {Anonymous}, root : BOOLEAN]
Swap == [kind : {"swap"}, on : Blocks]
Hold == {[kind |-> "hold", on |-> e[1], by |-> e[2]] : e \in Stackable}
Use == Mount \cup Swap \cup Hold
Marks == {"mounted", "system", "used", "unknown"}
Fault == {[what |-> w, of |-> b] : w \in {"node", "dev", "holders"}, b \in Blocks}
         \cup [what : {"line"}, of : Blocks \cup {Anonymous}]
         \cup [what : {"mountinfo", "swaps", "class"}]

(* The inspection has the shape mount_state gives it.                      *)
TypeOK ==
    /\ pc \in {"mounts", "holders", "done"}
    /\ todo \subseteq Blocks /\ marks \subseteq Marks
    /\ uses \subseteq Use /\ faults \subseteq Fault /\ lasting \subseteq uses
    /\ calm \in BOOLEAN /\ changes \in Nat
    /\ pc # "holders" => todo = {}
    /\ calm => lasting = uses

(* The subsets of S with at most n elements.                               *)
UpTo(n, S) == {{}} \cup {{f[i] : i \in 1..n} : f \in [1..n -> S]}

Init ==
    /\ pc = "mounts" /\ todo = {} /\ marks = {}
    /\ \E stack \in SUBSET Hold, others \in UpTo(MaxUses, Mount \cup Swap) :
         uses = stack \cup others
    /\ faults \in UpTo(MaxFaults, Fault)
    /\ lasting = uses /\ calm = TRUE /\ changes = 0

-----------------------------------------------------------------------------
Unreadable(w, b) == [what |-> w, of |-> b] \in faults
Missing(w) == [what |-> w] \in faults

Flag(mark, condition) == IF condition THEN {mark} ELSE {}

(* family_contains_device: is n the number of b or of one of its family?   *)
ContainsDevice(b, n) ==
    \/ n = b
    \/ ~Missing("class") /\ \E f \in Family[b] : n = f /\ ~Unreadable("dev", f)

(* What it could not read for it: nothing more once n is b's own number.   *)
ContainsUnknown(b, n) ==
    \/ Unreadable("node", b)
    \/ n # b /\ (Missing("class") \/ \E f \in Family[b] : Unreadable("dev", f))

(* family_contains_device, as marks: m when it finds the number.           *)
Found(b, n, m) ==
    Flag("unknown", ContainsUnknown(b, n))
    \cup (IF ~Unreadable("node", b) /\ ContainsDevice(b, n) THEN m ELSE {})

(* One line of the mounts or of the swap areas, which is on n: it may not  *)
(* parse, or stat not find the source it names.                            *)
OnLine(b, n, m) == IF Unreadable("line", n) THEN {"unknown"} ELSE Found(b, n, m)

(* direct_mount_state: every line of the mounts.                           *)
DirectMounts(b) ==
    IF Missing("mountinfo") THEN {"unknown"}
    ELSE UNION {OnLine(b, u.on, {"mounted"} \cup Flag("system", u.root)) :
                u \in {v \in uses : v.kind = "mount"}}

HoldersOf(b) == {u.by : u \in {v \in uses : v.kind = "hold" /\ v.on = b}}

(* Mutant: too deep a stack is cut off and nothing said.                   *)
CutOff == {"used"}

(* holders_mounted gives up.                                               *)
TooDeep == {"unknown", "used"}

(* One call of holders_mounted, the deeper calls having found below.       *)
HolderLevel(below, b) ==
    IF Unreadable("holders", b) THEN {"unknown"}
    ELSE UNION {{"used"} \cup DirectMounts(h) \cup below[h] : h \in HoldersOf(b)}

(* holders_mounted at each depth: the holders, each with its own mounts    *)
(* and its own holders.                                                    *)
HolderMounts[d \in 0..(MaxDepth + 1)] ==
    [b \in Blocks |-> IF d > MaxDepth THEN TooDeep ELSE HolderLevel(HolderMounts[d + 1], b)]

(* Mutant: any active area counts.                                         *)
SwapAreasAny(b) == Flag("used", \E u \in uses : u.kind = "swap")

(* swap_state: an active area is a use, not a mount.                       *)
SwapAreas(b) ==
    IF Missing("swaps") THEN {"unknown"}
    ELSE UNION {OnLine(b, u.on, {"used"}) : u \in {v \in uses : v.kind = "swap"}}

-----------------------------------------------------------------------------
(* mount_state.                                                            *)

ScanMounts ==
    /\ pc = "mounts"
    /\ marks' = DirectMounts(Disk) \cup Flag("unknown", Missing("class"))
    /\ IF Missing("class") THEN pc' = "done" /\ UNCHANGED todo
                           ELSE pc' = "holders" /\ todo' = Family[Disk]
    /\ UNCHANGED <<uses, faults, lasting, calm, changes>>

(* Mutant: only the disk's own holders.                                    *)
OwnHolders(b) == IF b = Disk THEN HolderMounts[0][b] ELSE {}

FamilyHolders(b) == HolderMounts[0][b]

(* readdir returns the names in no particular order.                       *)
ScanHolders(b) ==
    /\ pc = "holders" /\ b \in todo
    /\ marks' = marks \cup FamilyHolders(b)
    /\ todo' = todo \ {b}
    /\ UNCHANGED <<pc, uses, faults, lasting, calm, changes>>

ScanSwaps ==
    /\ pc = "holders" /\ todo = {}
    /\ marks' = marks \cup SwapAreas(Disk)
    /\ pc' = "done"
    /\ UNCHANGED <<todo, uses, faults, lasting, calm, changes>>

(* Other programs mount, unmount, stack and release.                       *)
Change ==
    /\ pc # "done"
    /\ changes < MaxChanges /\ changes' = changes + 1
    /\ calm' = FALSE
    /\ \E u \in Use :
         \/ u \notin uses /\ uses' = uses \cup {u} /\ UNCHANGED lasting
         \/ u \in uses /\ uses' = uses \ {u} /\ lasting' = lasting \ {u}
    /\ UNCHANGED <<scan, faults>>

Next ==
    \/ ScanMounts
    \/ \E b \in Blocks : ScanHolders(b)
    \/ ScanSwaps
    \/ Change

Spec == Init /\ [][Next]_vars

-----------------------------------------------------------------------------
(* What dfx_validate_job lets pass: no flag set and safety_state_known.    *)
Free == pc = "done" /\ marks = {}

(* The blocks a use may hide on: the disk's partitions, and what is        *)
(* stacked, directly or not, on one of them.                               *)
Above(us) ==
    LET stacked(S) == {u.by : u \in {v \in us : v.kind = "hold" /\ v.on \in S}}
        closed == {S \in SUBSET Blocks : Partitions[Disk] \subseteq S /\ stacked(S) \subseteq S}
    IN  {b \in Blocks : \A S \in closed : b \in S}

(* Whatever else is mounted, stacked or released while the inspection      *)
(* runs, a disk found free had no use that lasted from its beginning to    *)
(* its end: no mount of the disk or of a partition, no swap area on them,  *)
(* nothing stacked on them, whatever could not be read (mount_state and    *)
(* dfx_validate_job together).                                             *)
FreeMeansUnused ==
    Free => \A u \in lasting : u.on \notin Partitions[Disk]

(* The file system mounted on / is recognised, or the state said to be     *)
(* unknown, on the disk, on what is stacked on it to any height, and on    *)
(* partitions of these, whatever cannot be read, as long as nothing        *)
(* changes: also beyond the depth where the search gives up                *)
(* (holders_mounted).                                                      *)
SystemDiskSeen ==
    pc = "done" /\ calm =>
        \/ marks \cap {"system", "unknown"} # {}
        \/ ~\E u \in uses : /\ u.kind = "mount" /\ u.root
                            /\ \E b \in Above(uses) : u.on \in Partitions[b]

(* The uses that concern the disk at all, by the name rule of              *)
(* same_block_family.                                                      *)
Concerns(u) ==
    IF u.kind = "mount" THEN \E b \in Above(uses) \cup Family[Disk] : u.on \in Family[b]
    ELSE u.on \in Family[Disk]

(* No false alarm: when everything can be read, nothing changes and        *)
(* nothing uses the disk, its family or what is stacked on it, the disk is *)
(* found free, whatever else the machine has mounted or stacked.           *)
UnusedIsFree ==
    pc = "done" /\ calm /\ faults = {} /\ ~(\E u \in uses : Concerns(u)) => marks = {}
=============================================================================
