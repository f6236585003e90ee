------------------------- MODULE LinuxInspectProofs -------------------------
(***************************************************************************)
(* What mount_state may and may not say of a disk, for every set of block  *)
(* devices and every way of stacking them, every number of mounts, swap    *)
(* areas and unreadable entries, every limit of depth, and whatever other  *)
(* programs change during the inspection; and what the fingerprint of a    *)
(* regular file is, for every content, size of the blocks, of the pieces   *)
(* and of the length field, and whatever other programs write meanwhile.   *)
(*                                                                         *)
(* Three definitions are recursive and count up to a limit: the levels of  *)
(* holders_mounted, the powers of the radix, the bytes of one piece.  The  *)
(* equations they satisfy come from the well-foundedness of < on the       *)
(* naturals (Least), by way of HolderRecursion and RecursionExists;        *)
(* everything else uses those equations.                                   *)
(***************************************************************************)
EXTENDS LinuxInspect, SequenceTheorems, FiniteSetTheorems, WellFoundedInduction, TLAPS

(* No file system on / is mounted on x or a partition of x.                *)
Clear(us, x) ==
    \A u \in us : u.kind = "mount" /\ u.root => u.on \notin Partitions[x]

(* What is stacked on S is in T.                                           *)
StackedIn(us, S, T) == \A u \in us : u.kind = "hold" /\ u.on \in S => u.by \in T

ShapeInv ==
    /\ TypeOK
    /\ todo \subseteq Family[Disk]
    /\ pc = "mounts" => marks = {}

(* As long as no mark was left, what was read had no lasting use.          *)
FreeInv ==
    marks = {} /\ pc # "mounts" =>
      /\ \A u \in lasting : u.kind = "mount" => u.on \notin Family[Disk]
      /\ \A u \in lasting : u.kind = "hold" => u.on \notin Family[Disk] \ todo
      /\ pc = "done" => \A u \in lasting : u.kind = "swap" => u.on \notin Family[Disk]

(* As long as the system was not seen and nothing was lost, everything     *)
(* above the names that were read is in a set that nothing stacked leaves  *)
(* and on which / is not mounted.                                          *)
SeenInv ==
    calm /\ pc # "mounts" /\ marks \cap {"system", "unknown"} = {} =>
      /\ Clear(uses, Disk)
      /\ \A b \in Partitions[Disk] \ todo : \E S \in SUBSET Blocks :
           /\ StackedIn(uses, {b}, S) /\ StackedIn(uses, S, S)
           /\ \A x \in S : Clear(uses, x)

(* Without a use, a change or a fault there is no mark.                    *)
QuietInv ==
    calm /\ faults = {} /\ ~(\E u \in uses : Concerns(u)) => marks = {}

InspectInv == ShapeInv /\ FreeInv /\ SeenInv /\ QuietInv

-----------------------------------------------------------------------------
(* Every set of naturals with a member has a least one.                    *)
LEMMA Least ==
    ASSUME NEW T, T \subseteq Nat, T # {}
    PROVE  \E n \in T : \A m \in T : ~(m < n)
<1> DEFINE R == {ss \in Nat \X Nat : ss[1] < ss[2]}
<1>1. IsWellFoundedOn(R, Nat)
  BY NatLessThanWellFounded DEF OpToRel
<1>2. \A m, n \in Nat : m < n => <<m, n>> \in R
  OBVIOUS
<1> HIDE DEF R
<1>3. PICK n \in T : \A m \in T : ~(<<m, n>> \in R)
  BY <1>1, WFMin
<1> QED
  BY <1>2, <1>3

(* One row of holders_mounted from the row below.                          *)
Row(d, below) ==
    [b \in Blocks |-> IF d > MaxDepth THEN TooDeep ELSE HolderLevel(below, b)]

(* The rows from depth k down exist, whatever k.                           *)
LEMMA RowsExist ==
    \A k \in 0..(MaxDepth + 1) :
      \E g : g = [d \in k..(MaxDepth + 1) |-> Row(d, g[d + 1])]
<1> DEFINE Rows(g, k) == g = [d \in k..(MaxDepth + 1) |-> Row(d, g[d + 1])]
           T == {n \in 0..(MaxDepth + 1) : ~\E g : Rows(g, MaxDepth + 1 - n)}
<1>1. MaxDepth \in Nat
  BY MountAssumption
<1>2. SUFFICES ASSUME T # {} PROVE FALSE
  <2>1. ASSUME NEW k \in 0..(MaxDepth + 1) PROVE \E g : Rows(g, k)
    <3>1. MaxDepth + 1 - k \in 0..(MaxDepth + 1)
      BY <1>1
    <3>2. MaxDepth + 1 - (MaxDepth + 1 - k) = k
      BY <1>1
    <3> HIDE DEF Rows
    <3> QED
      BY <1>2, <3>1, <3>2
  <2> QED
    BY <2>1
<1>3. PICK n \in T : \A m \in T : ~(m < n)
  <2>1. T \subseteq Nat
    BY <1>1
  <2> HIDE DEF T
  <2> QED
    BY <1>2, <2>1, Least
<1> DEFINE k == MaxDepth + 1 - n
<1>4. n \in 0..(MaxDepth + 1) /\ ~\E g : Rows(g, k)
  BY <1>3
<1>5. CASE n = 0
  <2> DEFINE g == [d \in k..(MaxDepth + 1) |-> Row(d, TooDeep)]
  <2>1. \A d \in k..(MaxDepth + 1) : \A below : Row(d, below) = Row(d, TooDeep)
    <3>1. \A d \in k..(MaxDepth + 1) : d > MaxDepth
      BY <1>1, <1>5
    <3> QED
      BY <3>1 DEF Row
  <2>2. Rows(g, k)
    BY <2>1
  <2> QED
    BY <1>4, <2>2
<1>6. CASE n # 0
  <2>1. n - 1 \in 0..(MaxDepth + 1) /\ n - 1 < n /\ MaxDepth + 1 - (n - 1) = k + 1
        /\ k \in 0..MaxDepth
    BY <1>1, <1>4, <1>6
  <2>2. n - 1 \notin T
    BY <1>3, <2>1
  <2>3. PICK h : Rows(h, k + 1)
    <3> HIDE DEF Rows, k
    <3> QED
      BY <2>1, <2>2
  <2> DEFINE g == [d \in k..(MaxDepth + 1) |-> IF d = k THEN Row(k, h[k + 1]) ELSE h[d]]
  <2>4. \A d \in (k + 1)..(MaxDepth + 1) : h[d] = Row(d, h[d + 1])
    BY <2>3
  <2>5. ASSUME NEW d \in k..(MaxDepth + 1) PROVE g[d] = Row(d, g[d + 1])
    <3>1. CASE d > MaxDepth
      <4>1. d \in (k + 1)..(MaxDepth + 1)
        BY <1>1, <2>1, <3>1
      <4>2. g[d] = Row(d, h[d + 1])
        BY <2>1, <2>4, <4>1
      <4>3. \A below : Row(d, below) = Row(d, h[d + 1])
        BY <3>1 DEF Row
      <4> QED
        BY <4>2, <4>3
    <3>2. CASE ~(d > MaxDepth)
      <4>1. d + 1 \in (k + 1)..(MaxDepth + 1) /\ d + 1 \in k..(MaxDepth + 1) /\ d + 1 # k
        BY <1>1, <2>1, <3>2
      <4>2. g[d + 1] = h[d + 1]
        BY <4>1
      <4>3. g[d] = Row(d, h[d + 1])
        <5>1. CASE d = k
          BY <5>1
        <5>2. CASE d # k
          <6>1. d \in (k + 1)..(MaxDepth + 1)
            BY <1>1, <2>1, <5>2
          <6> QED
            BY <2>4, <5>2, <6>1
        <5> QED
          BY <5>1, <5>2
      <4> QED
        BY <4>2, <4>3
    <3> QED
      BY <3>1, <3>2
  <2>6. g = [d \in k..(MaxDepth + 1) |-> g[d]]
    OBVIOUS
  <2> HIDE DEF g, k
  <2>7. Rows(g, k)
    BY <2>5, <2>6
  <2> QED
    BY <1>4, <2>7
<1> QED
  BY <1>5, <1>6

(* The equation of holders_mounted: a call below the limit looks at its    *)
(* holders, the one beyond it gives up.                                    *)
LEMMA HolderRecursion ==
    /\ \A d \in 0..MaxDepth : \A b \in Blocks :
         HolderMounts[d][b] = HolderLevel(HolderMounts[d + 1], b)
    /\ \A b \in Blocks : HolderMounts[MaxDepth + 1][b] = TooDeep
<1>1. MaxDepth \in Nat
  BY MountAssumption
<1>2. \E g : g = [d \in 0..(MaxDepth + 1) |-> Row(d, g[d + 1])]
  BY <1>1, RowsExist
<1>3. HolderMounts = [d \in 0..(MaxDepth + 1) |-> Row(d, HolderMounts[d + 1])]
  BY <1>2 DEF HolderMounts, Row
<1>4. \A d \in 0..(MaxDepth + 1) : HolderMounts[d] = Row(d, HolderMounts[d + 1])
  BY <1>3
<1>5. \A d \in 0..MaxDepth : d \in 0..(MaxDepth + 1) /\ ~(d > MaxDepth)
  BY <1>1
<1>6. MaxDepth + 1 \in 0..(MaxDepth + 1) /\ MaxDepth + 1 > MaxDepth
  BY <1>1
<1>7. ASSUME NEW d \in 0..MaxDepth, NEW b \in Blocks
      PROVE  HolderMounts[d][b] = HolderLevel(HolderMounts[d + 1], b)
  <2>1. HolderMounts[d] = Row(d, HolderMounts[d + 1])
    BY <1>4, <1>5
  <2> QED
    BY <1>5, <2>1 DEF Row
<1>8. ASSUME NEW b \in Blocks PROVE HolderMounts[MaxDepth + 1][b] = TooDeep
  <2>1. HolderMounts[MaxDepth + 1] = Row(MaxDepth + 1, HolderMounts[MaxDepth + 1 + 1])
    BY <1>4, <1>6
  <2> QED
    BY <1>6, <2>1 DEF Row
<1> QED
  BY <1>7, <1>8

-----------------------------------------------------------------------------
(* A number that leaves neither a find nor a doubt is not of the family.   *)
LEMMA FoundMisses ==
    ASSUME NEW b \in Blocks, NEW n, NEW m, NEW q \in m,
           "unknown" \notin Found(b, n, m), q \notin Found(b, n, m)
    PROVE  n \notin Family[b]
<1>1. b \in Family[b]
  BY MountAssumption
<1>2. ~ContainsUnknown(b, n)
  BY DEF Found, Flag
<1>3. ~ContainsDevice(b, n)
  BY <1>2 DEF Found, ContainsUnknown
<1> QED
  BY <1>1, <1>2, <1>3 DEF ContainsUnknown, ContainsDevice

(* So does the line it stands on: one that cannot be read is a doubt.      *)
LEMMA LineMisses ==
    ASSUME NEW b \in Blocks, NEW n, NEW m, NEW q \in m,
           "unknown" \notin OnLine(b, n, m), q \notin OnLine(b, n, m)
    PROVE  n \notin Family[b]
<1>1. OnLine(b, n, m) = Found(b, n, m)
  BY DEF OnLine
<1> QED
  BY <1>1, FoundMisses

(* A number outside the family leaves nothing when all can be read.        *)
LEMMA FoundNothing ==
    ASSUME NEW b \in Blocks, NEW n, NEW m, faults = {}, n \notin Family[b]
    PROVE  Found(b, n, m) = {}
<1>1. b \in Family[b]
  BY MountAssumption
<1> QED
  BY <1>1 DEF Found, Flag, ContainsUnknown, ContainsDevice, Unreadable, Missing

(* And neither does its line.                                             *)
LEMMA LineNothing ==
    ASSUME NEW b \in Blocks, NEW n, NEW m, faults = {}, n \notin Family[b]
    PROVE  OnLine(b, n, m) = {}
  BY FoundNothing DEF OnLine, Unreadable

(* direct_mount_state with no result: nothing is mounted on the family.    *)
LEMMA NoMounts ==
    ASSUME NEW b \in Blocks, DirectMounts(b) = {}
    PROVE  \A u \in uses : u.kind = "mount" => u.on \notin Family[b]
<1> TAKE u \in uses
<1> HAVE u.kind = "mount"
<1> DEFINE m == {"mounted"} \cup Flag("system", u.root)
<1>1. OnLine(b, u.on, m) \subseteq DirectMounts(b)
  <2>1. u \in {v \in uses : v.kind = "mount"}
    OBVIOUS
  <2>2. ~Missing("mountinfo")
    BY DEF DirectMounts
  <2> QED
    BY <2>1, <2>2 DEF DirectMounts
<1>2. "mounted" \in m
  OBVIOUS
<1> HIDE DEF m
<1> QED
  BY <1>1, <1>2, LineMisses

(* direct_mount_state neither sees the system nor loses a line.            *)
LEMMA NoSystem ==
    ASSUME NEW b \in Blocks, DirectMounts(b) \cap {"system", "unknown"} = {}
    PROVE  Clear(uses, b)
<1> SUFFICES ASSUME NEW u \in uses, u.kind = "mount", u.root
             PROVE  u.on \notin Partitions[b]
  BY DEF Clear
<1> DEFINE m == {"mounted"} \cup Flag("system", u.root)
<1>1. OnLine(b, u.on, m) \subseteq DirectMounts(b)
  <2>1. u \in {v \in uses : v.kind = "mount"}
    OBVIOUS
  <2>2. ~Missing("mountinfo")
    BY DEF DirectMounts
  <2> QED
    BY <2>1, <2>2 DEF DirectMounts
<1>2. "system" \in m
  BY DEF Flag
<1> HIDE DEF m
<1>3. "system" \notin OnLine(b, u.on, m) /\ "unknown" \notin OnLine(b, u.on, m)
  BY <1>1
<1>4. u.on \notin Family[b]
  BY <1>2, <1>3, LineMisses
<1> QED
  BY <1>4, MountAssumption

(* A holder is itself a block device.                                      *)
LEMMA HolderIsBlock ==
    ASSUME uses \subseteq Use, NEW u \in uses, u.kind = "hold"
    PROVE  u.on \in Blocks /\ u.by \in Blocks
<1>1. u \in Use
  OBVIOUS
<1>2. u \notin Mount /\ u \notin Swap
  BY DEF Mount, Swap
<1>3. u \in Hold
  BY <1>1, <1>2 DEF Use
<1>4. PICK e \in Stackable : u = [kind |-> "hold", on |-> e[1], by |-> e[2]]
  BY <1>3 DEF Hold
<1> QED
  BY <1>4, MountAssumption

(* What is found at a block holds all that is found at its holders.        *)
LEMMA LevelHolds ==
    ASSUME NEW below, NEW b, NEW u \in uses, u.kind = "hold", u.on = b
    PROVE  \/ HolderLevel(below, b) = {"unknown"}
           \/ /\ "used" \in HolderLevel(below, b)
              /\ DirectMounts(u.by) \subseteq HolderLevel(below, b)
              /\ below[u.by] \subseteq HolderLevel(below, b)
<1>1. u.by \in HoldersOf(b)
  BY DEF HoldersOf
<1> QED
  BY <1>1 DEF HolderLevel

(* mount_state on one name: no result means that nothing is stacked on it. *)
LEMMA NoHolders ==
    ASSUME NEW b \in Blocks, FamilyHolders(b) = {}
    PROVE  \A u \in uses : u.kind = "hold" => u.on # b
<1>1. HolderLevel(HolderMounts[1], b) = {}
  <2>1. 0 \in 0..MaxDepth /\ 0 + 1 = 1
    BY MountAssumption
  <2> QED
    BY <2>1, HolderRecursion DEF FamilyHolders
<1> QED
  BY <1>1, LevelHolds

(* The other way: nothing stacked and all readable, no result.             *)
LEMMA NothingStacked ==
    ASSUME NEW b \in Blocks, faults = {}, \A u \in uses : u.kind = "hold" => u.on # b
    PROVE  FamilyHolders(b) = {}
<1>1. FamilyHolders(b) = HolderLevel(HolderMounts[1], b)
  <2>1. 0 \in 0..MaxDepth /\ 0 + 1 = 1
    BY MountAssumption
  <2> QED
    BY <2>1, HolderRecursion DEF FamilyHolders
<1>2. HoldersOf(b) = {}
  BY DEF HoldersOf
<1> QED
  BY <1>1, <1>2 DEF HolderLevel, Unreadable

(* mount_state on one name that neither sees the system nor loses an       *)
(* entry: the search has been at everything above it.  Were something      *)
(* above the limit of depth, the last call would have said so.             *)
LEMMA AllAboveSeen ==
    ASSUME uses \subseteq Use, NEW b \in Blocks,
           FamilyHolders(b) \cap {"system", "unknown"} = {}
    PROVE  \E S \in SUBSET Blocks :
             /\ StackedIn(uses, {b}, S) /\ StackedIn(uses, S, S)
             /\ \A x \in S : Clear(uses, x)
<1> DEFINE Quiet(set) == set \cap {"system", "unknown"} = {}
           S == {x \in Blocks : /\ Quiet(DirectMounts(x))
                                /\ \E d \in 0..(MaxDepth + 1) : Quiet(HolderMounts[d][x])}
<1>1. MaxDepth \in Nat
  BY MountAssumption
<1>2. ASSUME NEW x \in Blocks, NEW d \in 0..(MaxDepth + 1), Quiet(HolderMounts[d][x]),
             NEW u \in uses, u.kind = "hold", u.on = x
      PROVE  u.by \in S
  <2>1. u.by \in Blocks
    BY <1>2, HolderIsBlock
  <2>2. d # MaxDepth + 1
    BY <1>2, HolderRecursion DEF TooDeep
  <2>3. d \in 0..MaxDepth /\ d + 1 \in 0..(MaxDepth + 1)
    BY <1>1, <2>2
  <2>4. HolderMounts[d][x] = HolderLevel(HolderMounts[d + 1], x)
    BY <2>3, HolderRecursion
  <2>5. /\ DirectMounts(u.by) \subseteq HolderLevel(HolderMounts[d + 1], x)
        /\ HolderMounts[d + 1][u.by] \subseteq HolderLevel(HolderMounts[d + 1], x)
    <3>1. HolderLevel(HolderMounts[d + 1], x) # {"unknown"}
      BY <1>2, <2>4
    <3> HIDE DEF S, Quiet
    <3> QED
      BY <1>2, <3>1, LevelHolds
  <2>6. Quiet(DirectMounts(u.by)) /\ Quiet(HolderMounts[d + 1][u.by])
    BY <1>2, <2>4, <2>5
  <2> QED
    BY <2>1, <2>3, <2>6
<1>3. StackedIn(uses, {b}, S)
  <2>1. 0 \in 0..(MaxDepth + 1) /\ Quiet(HolderMounts[0][b])
    BY <1>1 DEF FamilyHolders
  <2> HIDE DEF S, Quiet
  <2> QED
    BY <1>2, <2>1 DEF StackedIn
<1>4. StackedIn(uses, S, S)
  <2>1. \A x \in S : x \in Blocks /\ \E d \in 0..(MaxDepth + 1) : Quiet(HolderMounts[d][x])
    OBVIOUS
  <2> HIDE DEF S, Quiet
  <2> QED
    BY <1>2, <2>1 DEF StackedIn
<1>5. \A x \in S : Clear(uses, x)
  BY NoSystem
<1>6. S \in SUBSET Blocks
  OBVIOUS
<1> HIDE DEF S
<1> QED
  BY <1>3, <1>4, <1>5, <1>6

(* swap_state with no result: no active area is of the family.             *)
LEMMA NoSwaps ==
    ASSUME NEW b \in Blocks, SwapAreas(b) = {}
    PROVE  \A u \in uses : u.kind = "swap" => u.on \notin Family[b]
<1> TAKE u \in uses
<1> HAVE u.kind = "swap"
<1>1. OnLine(b, u.on, {"used"}) \subseteq SwapAreas(b)
  <2>1. u \in {v \in uses : v.kind = "swap"}
    OBVIOUS
  <2>2. ~Missing("swaps")
    BY DEF SwapAreas
  <2> QED
    BY <2>1, <2>2 DEF SwapAreas
<1>2. "used" \notin OnLine(b, u.on, {"used"}) /\ "unknown" \notin OnLine(b, u.on, {"used"})
  BY <1>1
<1> QED
  BY <1>2, LineMisses

(* Without a use of the family the disk is no one's concern and all is     *)
(* found empty.                                                            *)
LEMMA Unconcerned ==
    ASSUME ~(\E u \in uses : Concerns(u))
    PROVE  \A u \in uses : u.on \notin Family[Disk]
<1>1. Disk \in Blocks /\ Disk \in Family[Disk]
  BY MountAssumption
<1> QED
  BY <1>1 DEF Concerns

LEMMA NothingFound ==
    ASSUME faults = {}, \A u \in uses : u.on \notin Family[Disk]
    PROVE  /\ DirectMounts(Disk) = {} /\ SwapAreas(Disk) = {}
           /\ \A b \in Family[Disk] : FamilyHolders(b) = {}
<1>1. Disk \in Blocks /\ Family[Disk] \subseteq Blocks
  BY MountAssumption
<1>2. \A u \in uses : \A m : OnLine(Disk, u.on, m) = {}
  BY <1>1, LineNothing
<1>3. ~Missing("mountinfo") /\ ~Missing("swaps")
  BY DEF Missing
<1>4. DirectMounts(Disk) = {}
  BY <1>2, <1>3 DEF DirectMounts
<1>5. SwapAreas(Disk) = {}
  BY <1>2, <1>3 DEF SwapAreas
<1>6. \A b \in Family[Disk] : FamilyHolders(b) = {}
  BY <1>1, NothingStacked
<1> QED
  BY <1>4, <1>5, <1>6

(* The marks are marks.                                                    *)
LEMMA LineMarks ==
    ASSUME NEW b, NEW n, NEW m \in SUBSET Marks
    PROVE  OnLine(b, n, m) \subseteq Marks
  BY DEF OnLine, Found, Flag, Marks

LEMMA DirectMarks ==
    ASSUME NEW b
    PROVE  DirectMounts(b) \subseteq Marks /\ SwapAreas(b) \subseteq Marks
<1>1. \A q : {"mounted"} \cup Flag("system", q) \in SUBSET Marks
  BY DEF Flag, Marks
<1>2. {"used"} \in SUBSET Marks /\ {"unknown"} \in SUBSET Marks
  BY DEF Marks
<1>3. DirectMounts(b) \subseteq Marks
  <2>1. \A u \in uses : OnLine(b, u.on, {"mounted"} \cup Flag("system", u.root)) \subseteq Marks
    BY <1>1, LineMarks
  <2> QED
    BY <1>2, <2>1 DEF DirectMounts
<1>4. SwapAreas(b) \subseteq Marks
  BY <1>2, LineMarks DEF SwapAreas
<1> QED
  BY <1>3, <1>4

LEMMA HolderMarks ==
    ASSUME uses \subseteq Use
    PROVE  \A d \in 0..(MaxDepth + 1) : \A b \in Blocks : HolderMounts[d][b] \subseteq Marks
<1> DEFINE Fine(d) == \A b \in Blocks : HolderMounts[d][b] \subseteq Marks
           T == {n \in 0..(MaxDepth + 1) : ~Fine(MaxDepth + 1 - n)}
<1>1. MaxDepth \in Nat
  BY MountAssumption
<1>2. SUFFICES ASSUME T # {} PROVE FALSE
  <2>1. ASSUME NEW d \in 0..(MaxDepth + 1) PROVE Fine(d)
    <3>1. MaxDepth + 1 - d \in 0..(MaxDepth + 1)
      BY <1>1
    <3>2. MaxDepth + 1 - (MaxDepth + 1 - d) = d
      BY <1>1
    <3> HIDE DEF Fine
    <3> QED
      BY <1>2, <3>1, <3>2
  <2> QED
    BY <2>1
<1>3. PICK n \in T : \A m \in T : ~(m < n)
  <2>1. T \subseteq Nat
    BY <1>1
  <2> HIDE DEF T
  <2> QED
    BY <1>2, <2>1, Least
<1> DEFINE d == MaxDepth + 1 - n
<1>4. n \in 0..(MaxDepth + 1) /\ ~Fine(d)
  BY <1>3
<1>5. CASE n = 0
  <2>1. d = MaxDepth + 1
    BY <1>1, <1>5
  <2>2. TooDeep \subseteq Marks
    BY DEF TooDeep, Marks
  <2> QED
    BY <1>4, <2>1, <2>2, HolderRecursion
<1>6. CASE n # 0
  <2>1. n - 1 \in 0..(MaxDepth + 1) /\ n - 1 < n /\ MaxDepth + 1 - (n - 1) = d + 1
        /\ d \in 0..MaxDepth
    BY <1>1, <1>4, <1>6
  <2>2. Fine(d + 1)
    <3>1. n - 1 \notin T
      BY <1>3, <2>1
    <3> HIDE DEF Fine, d
    <3> QED
      BY <2>1, <3>1
  <2>3. ASSUME NEW b \in Blocks PROVE HolderMounts[d][b] \subseteq Marks
    <3>1. HolderMounts[d][b] = HolderLevel(HolderMounts[d + 1], b)
      BY <2>1, HolderRecursion
    <3>2. \A h \in HoldersOf(b) : h \in Blocks
      BY HolderIsBlock DEF HoldersOf
    <3>3. {"used"} \subseteq Marks /\ {"unknown"} \subseteq Marks
      BY DEF Marks
    <3>4. HolderLevel(HolderMounts[d + 1], b) \subseteq Marks
      BY <2>2, <3>2, <3>3, DirectMarks DEF HolderLevel
    <3> QED
      BY <3>1, <3>4
  <2> QED
    BY <1>4, <2>3
<1> QED
  BY <1>5, <1>6

-----------------------------------------------------------------------------
LEMMA UpToSubsets ==
    ASSUME NEW n, NEW S
    PROVE  \A T \in UpTo(n, S) : T \subseteq S
<1>1. \A f \in [1..n -> S] : {f[i] : i \in 1..n} \subseteq S
  OBVIOUS
<1> QED
  BY <1>1 DEF UpTo

LEMMA InspectInitInv == InspectInit => InspectInv
<1> SUFFICES ASSUME InspectInit PROVE InspectInv
  OBVIOUS
<1>1. Disk \in Blocks /\ Family[Disk] \subseteq Blocks
  BY MountAssumption
<1>2. CASE Init
  <2>1. uses \subseteq Use
    <3>1. PICK stack \in SUBSET Hold, others \in UpTo(MaxUses, Mount \cup Swap) :
            uses = stack \cup others
      BY <1>2 DEF Init
    <3>2. others \subseteq Mount \cup Swap
      BY UpToSubsets
    <3> QED
      BY <3>1, <3>2 DEF Use
  <2>2. faults \subseteq Fault
    BY <1>2, UpToSubsets DEF Init
  <2>3. ShapeInv
    BY <1>2, <2>1, <2>2 DEF Init, ShapeInv, TypeOK
  <2> QED
    BY <1>2, <2>3 DEF Init, InspectInv, FreeInv, SeenInv, QuietInv
<1>3. CASE ~Init
  <2>1. /\ pc = "done" /\ todo = {} /\ marks = {} /\ uses = {} /\ faults = {}
        /\ lasting = {} /\ calm = FALSE /\ changes = 0
    BY <1>3 DEF InspectInit
  <2> QED
    BY <2>1 DEF InspectInv, ShapeInv, TypeOK, FreeInv, SeenInv, QuietInv
<1> QED
  BY <1>2, <1>3

(* The scans read the uses and leave them alone.                           *)
LEMMA ScanMountsInv == InspectInv /\ ScanMounts => InspectInv'
<1> SUFFICES ASSUME InspectInv, ScanMounts PROVE InspectInv'
  OBVIOUS
<1> USE DEF InspectInv
<1>1. /\ Disk \in Blocks /\ Family[Disk] \subseteq Blocks
      /\ Partitions[Disk] \subseteq Family[Disk]
  BY MountAssumption
<1>2. /\ pc = "mounts" /\ marks' = DirectMounts(Disk) \cup Flag("unknown", Missing("class"))
      /\ uses' = uses /\ faults' = faults /\ lasting' = lasting /\ calm' = calm
      /\ changes' = changes
  BY DEF ScanMounts
<1>3. CASE Missing("class")
  <2>1. pc' = "done" /\ todo' = {} /\ "unknown" \in marks'
    BY <1>2, <1>3 DEF ScanMounts, ShapeInv, TypeOK, Flag
  <2>2. marks' \subseteq Marks
    BY <1>2, DirectMarks DEF Flag, Marks
  <2>3. ShapeInv'
    BY <1>2, <2>1, <2>2 DEF ShapeInv, TypeOK
  <2>4. faults # {}
    BY <1>3 DEF Missing
  <2> QED
    BY <1>2, <2>1, <2>3, <2>4 DEF FreeInv, SeenInv, QuietInv
<1>4. CASE ~Missing("class")
  <2>1. pc' = "holders" /\ todo' = Family[Disk] /\ marks' = DirectMounts(Disk)
    BY <1>2, <1>4 DEF ScanMounts, Flag
  <2>2. ShapeInv'
    BY <1>1, <1>2, <2>1, DirectMarks DEF ShapeInv, TypeOK
  <2>3. FreeInv'
    BY <1>1, <1>2, <2>1, NoMounts DEF FreeInv, ShapeInv, TypeOK
  <2>4. SeenInv'
    <3>1. marks' \cap {"system", "unknown"} = {} => Clear(uses, Disk)
      BY <1>1, <2>1, NoSystem
    <3>2. Partitions[Disk] \ todo' = {}
      BY <1>1, <2>1
    <3> QED
      BY <1>2, <3>1, <3>2 DEF SeenInv
  <2>5. QuietInv'
    <3>1. faults = {} /\ ~(\E u \in uses : Concerns(u)) => DirectMounts(Disk) = {}
      BY Unconcerned, NothingFound
    <3> QED
      BY <1>2, <2>1, <3>1 DEF QuietInv, Concerns
  <2> QED
    BY <2>2, <2>3, <2>4, <2>5
<1> QED
  BY <1>3, <1>4

LEMMA ScanHoldersInv ==
    ASSUME InspectInv, NEW b \in Blocks, ScanHolders(b) PROVE InspectInv'
<1> USE DEF InspectInv
<1>1. Partitions[Disk] \subseteq Family[Disk] /\ Family[Disk] \subseteq Blocks
  BY MountAssumption
<1>2. /\ pc = "holders" /\ pc' = pc /\ b \in todo /\ todo' = todo \ {b}
      /\ marks' = marks \cup FamilyHolders(b)
      /\ uses' = uses /\ faults' = faults /\ lasting' = lasting /\ calm' = calm
      /\ changes' = changes
  BY DEF ScanHolders
<1>3. uses \subseteq Use /\ lasting \subseteq uses /\ todo \subseteq Family[Disk]
  BY DEF ShapeInv, TypeOK
<1>4. ShapeInv'
  <2>1. FamilyHolders(b) \subseteq Marks
    <3>1. 0 \in 0..(MaxDepth + 1)
      BY MountAssumption
    <3> QED
      BY <1>3, <3>1, HolderMarks DEF FamilyHolders
  <2> QED
    BY <1>2, <2>1 DEF ShapeInv, TypeOK
<1>5. FreeInv'
  <2>1. SUFFICES ASSUME marks' = {}
                 PROVE  /\ \A u \in lasting : u.kind = "mount" => u.on \notin Family[Disk]
                        /\ \A u \in lasting : u.kind = "hold" => u.on \notin Family[Disk] \ (todo \ {b})
    BY <1>2 DEF FreeInv
  <2>2. marks = {} /\ FamilyHolders(b) = {}
    BY <1>2, <2>1
  <2>3. \A u \in lasting : u.kind = "hold" => u.on # b
    BY <1>3, <2>2, NoHolders
  <2> QED
    BY <1>2, <2>2, <2>3 DEF FreeInv
<1>6. SeenInv'
  <2>1. SUFFICES ASSUME calm, marks' \cap {"system", "unknown"} = {}
                 PROVE  /\ Clear(uses, Disk)
                        /\ \A c \in Partitions[Disk] \ (todo \ {b}) : \E S \in SUBSET Blocks :
                             /\ StackedIn(uses, {c}, S) /\ StackedIn(uses, S, S)
                             /\ \A x \in S : Clear(uses, x)
    BY <1>2 DEF SeenInv
  <2>2. /\ marks \cap {"system", "unknown"} = {}
        /\ FamilyHolders(b) \cap {"system", "unknown"} = {}
    BY <1>2, <2>1
  <2>3. /\ Clear(uses, Disk)
        /\ \A c \in Partitions[Disk] \ todo : \E S \in SUBSET Blocks :
             /\ StackedIn(uses, {c}, S) /\ StackedIn(uses, S, S)
             /\ \A x \in S : Clear(uses, x)
    BY <1>2, <2>1, <2>2 DEF SeenInv
  <2>4. \E S \in SUBSET Blocks :
          /\ StackedIn(uses, {b}, S) /\ StackedIn(uses, S, S)
          /\ \A x \in S : Clear(uses, x)
    BY <1>3, <2>2, AllAboveSeen
  <2> QED
    BY <2>3, <2>4
<1>7. QuietInv'
  <2>1. faults = {} /\ ~(\E u \in uses : Concerns(u)) => FamilyHolders(b) = {}
    BY <1>2, <1>3, Unconcerned, NothingFound
  <2> QED
    BY <1>2, <2>1 DEF QuietInv, Concerns
<1> QED
  BY <1>4, <1>5, <1>6, <1>7

LEMMA ScanSwapsInv == InspectInv /\ ScanSwaps => InspectInv'
<1> SUFFICES ASSUME InspectInv, ScanSwaps PROVE InspectInv'
  OBVIOUS
<1> USE DEF InspectInv
<1>1. Disk \in Blocks
  BY MountAssumption
<1>2. /\ pc = "holders" /\ pc' = "done" /\ todo = {} /\ todo' = todo
      /\ marks' = marks \cup SwapAreas(Disk)
      /\ uses' = uses /\ faults' = faults /\ lasting' = lasting /\ calm' = calm
      /\ changes' = changes
  BY DEF ScanSwaps
<1>3. lasting \subseteq uses
  BY DEF ShapeInv, TypeOK
<1>4. ShapeInv'
  BY <1>2, DirectMarks DEF ShapeInv, TypeOK
<1>5. FreeInv'
  <2>1. SwapAreas(Disk) = {} => \A u \in lasting : u.kind = "swap" => u.on \notin Family[Disk]
    BY <1>1, <1>3, NoSwaps
  <2> QED
    BY <1>2, <2>1 DEF FreeInv
<1>6. SeenInv'
  BY <1>2 DEF SeenInv
<1>7. QuietInv'
  <2>1. faults = {} /\ ~(\E u \in uses : Concerns(u)) => SwapAreas(Disk) = {}
    BY Unconcerned, NothingFound
  <2> QED
    BY <1>2, <2>1 DEF QuietInv, Concerns
<1> QED
  BY <1>4, <1>5, <1>6, <1>7

(* A change ends the calm, and only shortens the list of what lasted.      *)
LEMMA ChangeInv == InspectInv /\ Change => InspectInv'
<1> SUFFICES ASSUME InspectInv, Change PROVE InspectInv'
  OBVIOUS
<1> USE DEF InspectInv
<1>1. /\ pc' = pc /\ todo' = todo /\ marks' = marks /\ faults' = faults
      /\ calm' = FALSE /\ changes' = changes + 1
  BY DEF Change, scan
<1>2. uses' \subseteq Use /\ lasting' \subseteq uses' /\ lasting' \subseteq lasting
  BY DEF Change, ShapeInv, TypeOK
<1>3. ShapeInv'
  <2>1. changes' \in Nat
    BY <1>1 DEF ShapeInv, TypeOK
  <2>2. calm' \in BOOLEAN /\ (calm' => lasting' = uses')
    BY <1>1
  <2> QED
    BY <1>1, <1>2, <2>1, <2>2 DEF ShapeInv, TypeOK
<1>4. FreeInv'
  BY <1>1, <1>2 DEF FreeInv
<1>5. SeenInv' /\ QuietInv'
  BY <1>1 DEF SeenInv, QuietInv
<1> QED
  BY <1>3, <1>4, <1>5

(* An inspection, of a block device or of a regular file, keeps InspectInv.*)
THEOREM InspectInvariant == InspectSpec => []InspectInv
<1>1. InspectInit => InspectInv
  BY InspectInitInv
<1>2. InspectInv /\ [InspectNext]_<<vars, fileVars>> => InspectInv'
  <2> SUFFICES ASSUME InspectInv, [InspectNext]_<<vars, fileVars>> PROVE InspectInv'
    OBVIOUS
  <2>1. CASE Next
    BY <2>1, ScanMountsInv, ScanHoldersInv, ScanSwapsInv, ChangeInv DEF Next
  <2>2. CASE UNCHANGED vars
    <3>1. /\ pc' = pc /\ todo' = todo /\ marks' = marks /\ faults' = faults /\ uses' = uses
          /\ lasting' = lasting /\ calm' = calm /\ changes' = changes
      BY <2>2 DEF vars, scan
    <3>2. ShapeInv'
      BY <3>1 DEF InspectInv, ShapeInv, TypeOK
    <3>3. FreeInv' /\ SeenInv'
      BY <3>1 DEF InspectInv, FreeInv, SeenInv
    <3>4. QuietInv'
      BY <3>1 DEF InspectInv, QuietInv, Concerns
    <3> QED
      BY <3>2, <3>3, <3>4 DEF InspectInv
  <2> QED
    BY <2>1, <2>2 DEF InspectNext
<1> QED
  BY <1>1, <1>2, PTL DEF InspectSpec

-----------------------------------------------------------------------------
(* The inspection has the shape mount_state gives it.                      *)
THEOREM MountTypeOK == InspectSpec => []TypeOK
<1>1. InspectInv => TypeOK
  BY DEF InspectInv, ShapeInv
<1> QED
  BY <1>1, InspectInvariant, PTL

(* A disk found free had no use that lasted, whatever could not be read    *)
(* and whatever happened meanwhile (mount_state, dfx_validate_job).        *)
THEOREM FreeAlwaysUnused == InspectSpec => []FreeMeansUnused
<1>1. InspectInv => FreeMeansUnused
  <2> SUFFICES ASSUME InspectInv, Free, NEW u \in lasting PROVE u.on \notin Partitions[Disk]
    BY DEF FreeMeansUnused
  <2>1. Partitions[Disk] \subseteq Family[Disk]
    BY MountAssumption
  <2>2. u \in Use /\ todo = {} /\ marks = {} /\ pc = "done"
    BY DEF Free, InspectInv, ShapeInv, TypeOK
  <2>3. u.kind \in {"mount", "hold", "swap"}
    BY <2>2 DEF Use, Mount, Swap, Hold
  <2>4. u.on \notin Family[Disk]
    BY <2>2, <2>3 DEF InspectInv, FreeInv
  <2> QED
    BY <2>1, <2>4
<1> QED
  BY <1>1, InspectInvariant, PTL

(* The system is seen, or the search says that it lost something, at any   *)
(* height and on any shape of stack (holders_mounted).                     *)
THEOREM SystemAlwaysSeen == InspectSpec => []SystemDiskSeen
<1>1. InspectInv => SystemDiskSeen
  <2> SUFFICES ASSUME InspectInv, pc = "done", calm,
                      marks \cap {"system", "unknown"} = {},
                      NEW u \in uses, u.kind = "mount", u.root,
                      NEW b \in Above(uses)
               PROVE  u.on \notin Partitions[b]
    BY DEF SystemDiskSeen
  <2> DEFINE Good(S) == StackedIn(uses, S, S) /\ \A x \in S : Clear(uses, x)
             All == Partitions[Disk] \cup UNION {S \in SUBSET Blocks : Good(S)}
  <2>1. /\ Disk \in Blocks /\ Partitions[Disk] \subseteq Blocks
        /\ \A c \in Partitions[Disk] : Partitions[c] \subseteq Partitions[Disk]
    BY MountAssumption
  <2>2. /\ Clear(uses, Disk)
        /\ \A c \in Partitions[Disk] : \E S \in SUBSET Blocks :
             StackedIn(uses, {c}, S) /\ Good(S)
    BY DEF InspectInv, ShapeInv, TypeOK, SeenInv
  <2>3. All \in SUBSET Blocks
    BY <2>1
  <2>4. ASSUME NEW v \in uses, v.kind = "hold", v.on \in All PROVE v.by \in All
    <3>1. CASE v.on \in Partitions[Disk]
      BY <2>2, <2>4, <3>1 DEF StackedIn
    <3>2. CASE v.on \notin Partitions[Disk]
      BY <2>4, <3>2 DEF StackedIn
    <3> QED
      BY <3>1, <3>2
  <2>5. \A x \in All : Clear(uses, x)
    BY <2>1, <2>2 DEF Clear
  <2>6. b \in All
    <3>1. Partitions[Disk] \subseteq All
      OBVIOUS
    <3> HIDE DEF All
    <3>2. {v.by : v \in {w \in uses : w.kind = "hold" /\ w.on \in All}} \subseteq All
      BY <2>4
    <3> QED
      BY <2>3, <3>1, <3>2 DEF Above
  <2> HIDE DEF All
  <2> QED
    BY <2>5, <2>6 DEF Clear
<1> QED
  BY <1>1, InspectInvariant, PTL

(* No false alarm, whatever the rest of the machine uses (mount_state and  *)
(* same_block_family).                                                     *)
THEOREM UnusedAlwaysFree == InspectSpec => []UnusedIsFree
<1>1. InspectInv => UnusedIsFree
  BY DEF InspectInv, QuietInv, UnusedIsFree
<1> QED
  BY <1>1, InspectInvariant, PTL

-----------------------------------------------------------------------------
(* Arithmetic: quotient, remainder, and the powers of the radix.           *)

(* g is first at 0, and at each number F of what it is below.              *)
Follows(g, N, S, first, F) ==
    /\ g \in [0..N -> S] /\ g[0] = first
    /\ \A n \in 1..N : g[n] = F[n][g[n - 1]]

(* There is such a function.                                               *)
LEMMA RecursionExists ==
    ASSUME NEW N \in Nat, NEW S, NEW first \in S, NEW F \in [1..N -> [S -> S]]
    PROVE  \E g : Follows(g, N, S, first, F)
<1> DEFINE Upto(k, g) == /\ g \in [0..k -> S] /\ g[0] = first
                         /\ \A n \in 1..k : g[n] = F[n][g[n - 1]]
           T == {k \in 0..N : ~\E g : Upto(k, g)}
<1>1. SUFFICES ASSUME T # {} PROVE FALSE
  <2>1. N \in 0..N
    OBVIOUS
  <2>2. \E g : Upto(N, g)
    BY <1>1, <2>1
  <2> QED
    BY <2>2 DEF Follows
<1>2. PICK k \in T : \A j \in T : ~(j < k)
  <2>1. T \subseteq Nat
    OBVIOUS
  <2> HIDE DEF T
  <2> QED
    BY <1>1, <2>1, Least
<1>3. k \in 0..N /\ ~\E g : Upto(k, g)
  BY <1>2
<1>4. CASE k = 0
  <2>1. Upto(0, [n \in 0..0 |-> first])
    OBVIOUS
  <2> QED
    BY <1>3, <1>4, <2>1
<1>5. CASE k # 0
  <2>1. k - 1 \in 0..N /\ k - 1 < k /\ k \in 1..N
    BY <1>3, <1>5
  <2>2. PICK h : Upto(k - 1, h)
    <3>1. k - 1 \notin T
      BY <1>2, <2>1
    <3> HIDE DEF Upto
    <3> QED
      BY <2>1, <3>1
  <2> DEFINE g == [n \in 0..k |-> IF n = k THEN F[k][h[k - 1]] ELSE h[n]]
  <2>3. h[k - 1] \in S /\ F[k][h[k - 1]] \in S
    BY <2>1, <2>2
  <2>4. g \in [0..k -> S]
    <3>1. \A n \in 0..k : n # k => n \in 0..(k - 1)
      BY <2>1
    <3> QED
      BY <2>2, <2>3, <3>1
  <2>5. g[0] = first
    BY <2>1, <2>2
  <2>6. ASSUME NEW n \in 1..k PROVE g[n] = F[n][g[n - 1]]
    <3>1. n - 1 \in 0..k /\ n - 1 # k /\ n \in 0..k
      BY <2>1
    <3>2. g[n - 1] = h[n - 1]
      BY <3>1
    <3>3. CASE n = k
      BY <3>1, <3>2, <3>3
    <3>4. CASE n # k
      <4>1. n \in 1..(k - 1)
        BY <2>1, <3>4
      <4> QED
        BY <2>2, <3>1, <3>2, <3>4, <4>1
    <3> QED
      BY <3>3, <3>4
  <2> HIDE DEF g
  <2> QED
    BY <1>3, <2>4, <2>5, <2>6
<1> QED
  BY <1>4, <1>5

LEMMA Product ==
    ASSUME NEW a \in Nat, NEW b \in Nat, NEW d \in Nat
    PROVE  /\ a * d \in Nat
           /\ a < b => a * d + d <= b * d
           /\ a <= b => a * d <= b * d
           /\ (a + 1) * d = a * d + d
           /\ a * d = d * a
  BY SMT

LEMMA Division ==
    ASSUME NEW n \in Nat, NEW d \in Nat \ {0}
    PROVE  /\ n \div d \in Nat /\ (n % d) \in 0..(d - 1)
           /\ n = d * (n \div d) + (n % d)
  BY SMT

(* Quotient and remainder are the only ones.                               *)
LEMMA Quotient ==
    ASSUME NEW d \in Nat \ {0}, NEW q \in Nat, NEW r \in 0..(d - 1)
    PROVE  (d * q + r) \div d = q /\ (d * q + r) % d = r
<1> DEFINE n == d * q + r
           Q == n \div d
           R == n % d
<1>1. n \in Nat /\ d * q \in Nat
  BY SMT
<1>2. Q \in Nat /\ R \in 0..(d - 1) /\ n = d * Q + R
  BY <1>1, Division
<1>3. n = q * d + r /\ n = Q * d + R
  BY <1>2, Product
<1> HIDE DEF n, Q, R
<1>4. Q = q
  <2>1. CASE Q < q
    <3>1. Q * d + d <= q * d
      BY <1>2, <2>1, Product
    <3>2. Q * d \in Nat /\ q * d \in Nat
      BY <1>2, Product
    <3> QED
      BY <1>2, <1>3, <3>1, <3>2
  <2>2. CASE q < Q
    <3>1. q * d + d <= Q * d
      BY <1>2, <2>2, Product
    <3>2. Q * d \in Nat /\ q * d \in Nat
      BY <1>2, Product
    <3> QED
      BY <1>2, <1>3, <3>1, <3>2
  <2> QED
    BY <1>2, <2>1, <2>2
<1>5. R = r
  <2>1. q * d \in Nat
    BY Product
  <2> QED
    BY <1>2, <1>3, <1>4, <2>1
<1> QED
  BY <1>4, <1>5 DEF n, Q, R

LEMMA RemainderAdds ==
    ASSUME NEW a \in Nat, NEW b \in Nat, NEW d \in Nat \ {0}
    PROVE  ((a % d) + b) % d = (a + b) % d
<1> DEFINE u == a \div d
           v == a % d
           s == (v + b) \div d
           t == (v + b) % d
<1>1. u \in Nat /\ v \in 0..(d - 1) /\ a = d * u + v
  BY Division
<1>2. s \in Nat /\ t \in 0..(d - 1) /\ v + b = d * s + t
  <2>1. v + b \in Nat
    BY <1>1
  <2> HIDE DEF v
  <2> QED
    BY <2>1, Division
<1> HIDE DEF u, v, s, t
<1>3. a + b = d * (u + s) + t
  <2>1. d * (u + s) = d * u + d * s
    BY <1>1, <1>2
  <2>2. d * u \in Nat /\ d * s \in Nat /\ d * (u + s) \in Nat
    BY <1>1, <1>2
  <2> QED
    BY <1>1, <1>2, <2>1, <2>2
<1>4. (a + b) % d = t
  <2>1. u + s \in Nat
    BY <1>1, <1>2
  <2> QED
    BY <1>2, <1>3, <2>1, Quotient
<1> QED
  BY <1>4 DEF t, v

LEMMA Constants ==
    /\ BlockBytes \in Nat \ {0} /\ LengthBytes \in Nat \ {0} /\ Room \in Nat \ {0}
    /\ Room + LengthBytes = BlockBytes
    /\ Radix \in Nat \ {0, 1} /\ Marker \in AnyByte \ {0} /\ 0 \in AnyByte
<1>1. BlockBytes \in Nat /\ LengthBytes \in 1..(BlockBytes - 1) /\ Radix \in Nat \ {0, 1}
  BY DigestAssumption
<1>2. Marker \in AnyByte \ {0}
  BY <1>1 DEF Marker, AnyByte
<1> QED
  BY <1>1, <1>2 DEF Room, AnyByte

LEMMA Powers ==
    /\ Power \in [0..LengthBytes -> Nat \ {0}]
    /\ Power[0] = 1
    /\ \A n \in 1..LengthBytes : Power[n] = Radix * Power[n - 1]
<1> DEFINE S == Nat \ {0}
           F == [n \in 1..LengthBytes |-> [x \in S |-> Radix * x]]
<1>1. LengthBytes \in Nat /\ Radix \in Nat \ {0}
  BY Constants
<1>2. F \in [1..LengthBytes -> [S -> S]] /\ 1 \in S
  <2>1. \A x \in S : Radix * x \in S
    BY <1>1
  <2> QED
    BY <2>1
<1>3. PICK g : Follows(g, LengthBytes, S, 1, F)
  <2> HIDE DEF F, S
  <2> QED
    BY <1>1, <1>2, RecursionExists
<1>4. \A n \in 1..LengthBytes : g[n] = Radix * g[n - 1]
  <2>1. \A n \in 1..LengthBytes : n - 1 \in 0..LengthBytes
    BY <1>1
  <2> QED
    BY <1>3, <2>1 DEF Follows
<1> HIDE DEF F
<1>5. g = [n \in 0..LengthBytes |-> IF n = 0 THEN 1 ELSE Radix * g[n - 1]]
  <2>1. \A n \in 0..LengthBytes : n # 0 => n \in 1..LengthBytes
    BY <1>1
  <2> QED
    BY <1>3, <1>4, <2>1 DEF Follows
<1>6. Power = [n \in 0..LengthBytes |-> IF n = 0 THEN 1 ELSE Radix * Power[n - 1]]
  BY <1>5 DEF Power
<1>7. \A n \in 0..LengthBytes : Power[n] = IF n = 0 THEN 1 ELSE Radix * Power[n - 1]
  BY <1>6
<1>8. Power[0] = 1 /\ \A n \in 1..LengthBytes : Power[n] = Radix * Power[n - 1]
  <2>1. 0 \in 0..LengthBytes /\ \A n \in 1..LengthBytes : n \in 0..LengthBytes /\ n # 0
    BY <1>1
  <2> QED
    BY <1>7, <2>1
<1>9. \A n \in 0..LengthBytes : Power[n] \in Nat \ {0}
  <2> DEFINE T == {n \in 0..LengthBytes : Power[n] \notin Nat \ {0}}
  <2>1. SUFFICES ASSUME T # {} PROVE FALSE
    OBVIOUS
  <2>2. PICK n \in T : \A m \in T : ~(m < n)
    <3>1. T \subseteq Nat
      OBVIOUS
    <3> HIDE DEF T
    <3> QED
      BY <2>1, <3>1, Least
  <2>3. n \in 0..LengthBytes /\ Power[n] \notin Nat \ {0}
    BY <2>2
  <2>4. n # 0
    BY <1>8, <2>3
  <2>5. n - 1 \in 0..LengthBytes /\ n - 1 < n /\ n \in 1..LengthBytes
    BY <1>1, <2>3, <2>4
  <2>6. Power[n - 1] \in Nat \ {0}
    BY <2>2, <2>5
  <2>7. Power[n] = Radix * Power[n - 1]
    BY <1>8, <2>5
  <2> QED
    BY <1>1, <2>3, <2>6, <2>7
<1>10. Power \in [0..LengthBytes -> Nat \ {0}]
  <2>1. Power = [n \in 0..LengthBytes |-> Power[n]]
    BY <1>6
  <2> QED
    BY <1>9, <2>1
<1> QED
  BY <1>8, <1>10

(* Each power divides the width.                                           *)
LEMMA PowerDivides ==
    \A k \in 0..LengthBytes : \E K \in Nat : Width = Power[k] * K
<1> DEFINE Fine(k) == \E K \in Nat : Width = Power[k] * K
           T == {n \in 0..LengthBytes : ~Fine(LengthBytes - n)}
<1>1. LengthBytes \in Nat /\ Radix \in Nat
  BY Constants
<1>2. SUFFICES ASSUME T # {} PROVE FALSE
  <2>1. ASSUME NEW k \in 0..LengthBytes PROVE Fine(k)
    <3>1. LengthBytes - k \in 0..LengthBytes /\ LengthBytes - (LengthBytes - k) = k
      BY <1>1
    <3> HIDE DEF Fine
    <3> QED
      BY <1>2, <3>1
  <2> QED
    BY <2>1
<1>3. PICK n \in T : \A m \in T : ~(m < n)
  <2>1. T \subseteq Nat
    BY <1>1
  <2> HIDE DEF T
  <2> QED
    BY <1>2, <2>1, Least
<1> DEFINE k == LengthBytes - n
<1>4. n \in 0..LengthBytes /\ ~Fine(k)
  BY <1>3
<1>5. CASE n = 0
  <2>1. k = LengthBytes
    BY <1>1, <1>5
  <2>2. Width = Power[k] * 1
    <3>1. Width \in Nat /\ Power[k] = Width
      BY <1>1, <2>1, Powers DEF Width
    <3> QED
      BY <3>1
  <2> QED
    BY <1>4, <2>2
<1>6. CASE n # 0
  <2>1. n - 1 \in 0..LengthBytes /\ n - 1 < n /\ LengthBytes - (n - 1) = k + 1
        /\ k + 1 \in 1..LengthBytes /\ (k + 1) - 1 = k /\ k \in 0..LengthBytes
    BY <1>1, <1>4, <1>6
  <2>2. PICK K \in Nat : Width = Power[k + 1] * K
    <3>1. n - 1 \notin T
      BY <1>3, <2>1
    <3>2. Fine(k + 1)
      <4> HIDE DEF Fine, k
      <4> QED
        BY <2>1, <3>1
    <3> QED
      BY <3>2
  <2>3. Power[k + 1] = Radix * Power[k] /\ Power[k] \in Nat
    BY <2>1, Powers
  <2>4. Radix * K \in Nat /\ Width = Power[k] * (Radix * K)
    <3>1. \A x, y, z \in Nat : (x * y) * z = y * (x * z)
      BY SMT
    <3> QED
      BY <1>1, <2>2, <2>3, <3>1
  <2> QED
    BY <1>4, <2>4
<1> QED
  BY <1>5, <1>6

(* The length field holds the length as far as it is wide: bit_length may  *)
(* be reduced before it is written out.                                    *)
LEMMA LengthFieldReduced ==
    ASSUME NEW x \in Nat
    PROVE  Width \in Nat \ {0} /\ LengthField(x % Width) = LengthField(x)
<1>1. LengthBytes \in Nat \ {0} /\ Radix \in Nat \ {0}
  BY Constants
<1>2. Width \in Nat \ {0}
  BY <1>1, Powers DEF Width
<1>3. ASSUME NEW i \in 1..LengthBytes
      PROVE  ((x % Width) \div Power[LengthBytes - i]) % Radix
               = (x \div Power[LengthBytes - i]) % Radix
  <2> DEFINE P == Power[LengthBytes - i]
             a == x \div Width
             b == x % Width
             c == b \div P
             d == b % P
             e == c \div Radix
             f == c % Radix
  <2>1. LengthBytes - i \in 0..LengthBytes /\ LengthBytes - i + 1 \in 1..LengthBytes
        /\ (LengthBytes - i + 1) - 1 = LengthBytes - i
    BY <1>1
  <2>2. P \in Nat \ {0} /\ Power[LengthBytes - i + 1] = Radix * P
    BY <2>1, Powers
  <2>3. PICK K \in Nat : Width = (Radix * P) * K
    <3>1. LengthBytes - i + 1 \in 0..LengthBytes
      BY <1>1
    <3>2. \E K \in Nat : Width = Power[LengthBytes - i + 1] * K
      BY <3>1, PowerDivides
    <3> HIDE DEF P
    <3> QED
      BY <2>2, <3>2
  <2>4. a \in Nat /\ b \in Nat /\ x = Width * a + b
    <3>1. a \in Nat /\ b \in 0..(Width - 1) /\ x = Width * a + b
      BY <1>2, Division
    <3> HIDE DEF a, b
    <3> QED
      BY <1>2, <3>1
  <2> HIDE DEF P, a, b
  <2>5. c \in Nat /\ d \in 0..(P - 1) /\ b = P * c + d
    BY <2>2, <2>4, Division
  <2> HIDE DEF c, d
  <2>6. e \in Nat /\ f \in 0..(Radix - 1) /\ c = Radix * e + f
    BY <1>1, <2>5, Division
  <2> HIDE DEF e, f
  <2> DEFINE y == Radix * (K * a)
  <2>7. y \in Nat /\ Width * a = P * y
    <3>1. K * a \in Nat
      BY <2>3, <2>4
    <3>2. \A r, p, k, n \in Nat : ((r * p) * k) * n = p * (r * (k * n))
      BY SMT
    <3> QED
      BY <1>1, <2>2, <2>3, <2>4, <3>1, <3>2
  <2>8. x = P * (y + c) + d
    <3>1. P * (y + c) = P * y + P * c
      BY <2>2, <2>5, <2>7
    <3>2. P * y \in Nat /\ P * c \in Nat
      BY <2>2, <2>5, <2>7
    <3> HIDE DEF y
    <3> QED
      BY <2>4, <2>5, <2>7, <3>1, <3>2
  <2>9. x \div P = y + c
    <3>1. y + c \in Nat
      BY <2>5, <2>7
    <3> HIDE DEF y
    <3> QED
      BY <2>2, <2>5, <2>8, <3>1, Quotient
  <2>10. (y + c) % Radix = f
    <3>1. K * a + e \in Nat
      BY <2>3, <2>4, <2>6
    <3>2. y + c = Radix * (K * a + e) + f
      <4>1. K * a \in Nat
        BY <2>3, <2>4
      <4>2. \A r, p, q \in Nat : r * (p + q) = r * p + r * q
        BY SMT
      <4>3. Radix * (K * a + e) = y + Radix * e
        BY <1>1, <2>6, <4>1, <4>2
      <4>4. Radix * e \in Nat
        BY <1>1, <2>6
      <4> HIDE DEF y
      <4> QED
        BY <2>6, <2>7, <4>3, <4>4
    <3> HIDE DEF y
    <3> QED
      BY <1>1, <2>6, <3>1, <3>2, Quotient
  <2>11. c % Radix = f
    BY DEF f
  <2> HIDE DEF y
  <2>12. (b \div P) % Radix = (x \div P) % Radix
    BY <2>9, <2>10, <2>11 DEF c
  <2> QED
    BY <2>12 DEF P, b
<1> QED
  BY <1>2, <1>3 DEF LengthField

-----------------------------------------------------------------------------
(* The streaming digest is that of FIPS 180-4, for every message.          *)
Context == [state : Seq(Seq(AnyByte)), block : Seq(AnyByte), bits : Nat]

(* c is what dfx_sha256_update has collected of m.                         *)
IsCtx(c, m) ==
    /\ c \in Context
    /\ Len(c.block) < BlockBytes
    /\ Len(m) = Len(c.state) * BlockBytes + Len(c.block)
    /\ \A i \in 1..Len(c.state) :
         /\ Len(c.state[i]) = BlockBytes
         /\ \A j \in 1..BlockBytes : c.state[i][j] = m[(i - 1) * BlockBytes + j]
    /\ \A j \in 1..Len(c.block) : c.block[j] = m[Len(c.state) * BlockBytes + j]
    /\ c.bits = (8 * (BlockBytes * Len(c.state))) % Width

LEMMA StartCtx == IsCtx(Start, <<>>)
<1>1. Width \in Nat \ {0}
  BY LengthFieldReduced
<1>2. BlockBytes \in Nat \ {0}
  BY Constants
<1>3. Start \in Context
  BY DEF Start, Context
<1>4. 8 * (BlockBytes * 0) = 0 /\ 0 * BlockBytes = 0
  BY <1>2
<1>5. 0 % Width = 0
  BY <1>1
<1>6. Len(Start.state) = 0 /\ Len(Start.block) = 0 /\ Start.bits = 0
  BY DEF Start
<1> QED
  BY <1>1, <1>2, <1>3, <1>4, <1>5, <1>6 DEF IsCtx

(* One byte more.                                                          *)
LEMMA AddByteCtx ==
    ASSUME NEW m \in Seq(AnyByte), NEW x \in AnyByte, NEW c, IsCtx(c, m)
    PROVE  IsCtx(AddByte(c, x), Append(m, x))
<1> DEFINE n == Len(c.state)
           k == Len(c.block)
           M == Append(m, x)
           block == Append(c.block, x)
<1>1. BlockBytes \in Nat \ {0} /\ Width \in Nat \ {0}
  BY Constants, LengthFieldReduced
<1>2. /\ c \in Context /\ n \in Nat /\ k \in Nat /\ k < BlockBytes
      /\ c.state \in Seq(Seq(AnyByte)) /\ c.block \in Seq(AnyByte)
  BY DEF IsCtx, Context
<1>3. n * BlockBytes \in Nat /\ Len(m) = n * BlockBytes + k
  BY <1>1, <1>2, Product DEF IsCtx
<1>4. /\ block \in Seq(AnyByte) /\ Len(block) = k + 1
      /\ block[k + 1] = x /\ \A j \in 1..k : block[j] = c.block[j]
  BY <1>2
<1>5. /\ M \in Seq(AnyByte) /\ Len(M) = n * BlockBytes + (k + 1)
      /\ M[n * BlockBytes + (k + 1)] = x
      /\ \A y \in 1..Len(m) : M[y] = m[y]
  BY <1>2, <1>3
<1>6. \A j \in 1..(k + 1) : block[j] = M[n * BlockBytes + j]
  <2>1. ASSUME NEW j \in 1..k PROVE block[j] = M[n * BlockBytes + j]
    <3>1. n * BlockBytes + j \in 1..Len(m)
      BY <1>2, <1>3
    <3>2. c.block[j] = m[n * BlockBytes + j]
      BY DEF IsCtx
    <3> QED
      BY <1>4, <1>5, <3>1, <3>2
  <2>2. \A j \in 1..(k + 1) : j \in 1..k \/ j = k + 1
    BY <1>2
  <2> HIDE DEF block, M, k, n
  <2> QED
    BY <1>4, <1>5, <2>1, <2>2
<1>7. \A i \in 1..n : /\ Len(c.state[i]) = BlockBytes
                      /\ \A j \in 1..BlockBytes : c.state[i][j] = M[(i - 1) * BlockBytes + j]
  <2>1. ASSUME NEW i \in 1..n, NEW j \in 1..BlockBytes
        PROVE  (i - 1) * BlockBytes + j \in 1..Len(m)
    <3>1. i - 1 \in Nat /\ i - 1 < n
      BY <1>2
    <3>2. (i - 1) * BlockBytes \in Nat /\ (i - 1) * BlockBytes + BlockBytes <= n * BlockBytes
      BY <1>1, <1>2, <3>1, Product
    <3> HIDE DEF n, k
    <3> QED
      BY <1>1, <1>2, <1>3, <3>2
  <2>2. \A i \in 1..n : /\ Len(c.state[i]) = BlockBytes
                        /\ \A j \in 1..BlockBytes : c.state[i][j] = m[(i - 1) * BlockBytes + j]
    BY DEF IsCtx
  <2> HIDE DEF M, n
  <2> QED
    BY <1>5, <2>1, <2>2
<1>8. c.bits = (8 * (BlockBytes * n)) % Width
  BY DEF IsCtx
<1>9. CASE k + 1 < BlockBytes
  <2> DEFINE d == [c EXCEPT !.block = block]
  <2>1. AddByte(c, x) = d
    BY <1>4, <1>9 DEF AddByte
  <2>2. d \in Context /\ d.state = c.state /\ d.block = block /\ d.bits = c.bits
    BY <1>2, <1>4 DEF Context
  <2> HIDE DEF block, M, k, n, d
  <2>3. IsCtx(d, M)
    BY <1>4, <1>5, <1>6, <1>7, <1>8, <1>9, <2>2 DEF IsCtx, n
  <2> QED
    BY <2>1, <2>3 DEF M
<1>10. CASE ~(k + 1 < BlockBytes)
  <2> DEFINE bits == (c.bits + 8 * BlockBytes) % Width
             d == [state |-> Append(c.state, block), block |-> <<>>, bits |-> bits]
  <2>1. AddByte(c, x) = d
    BY <1>4, <1>10 DEF AddByte
  <2>2. k + 1 = BlockBytes
    BY <1>1, <1>2, <1>10
  <2>3. bits = (8 * (BlockBytes * (n + 1))) % Width
    <3> HIDE DEF n
    <3>1. 8 * (BlockBytes * n) \in Nat /\ 8 * BlockBytes \in Nat
      <4>1. \A a, b \in Nat : 8 * (a * b) \in Nat /\ 8 * a \in Nat
        BY SMT
      <4> QED
        BY <1>1, <1>2, <4>1
    <3>2. 8 * (BlockBytes * (n + 1)) = 8 * (BlockBytes * n) + 8 * BlockBytes
      <4>1. \A a, b \in Nat : 8 * (a * (b + 1)) = 8 * (a * b) + 8 * a
        BY SMT
      <4> QED
        BY <1>1, <1>2, <4>1
    <3> QED
      BY <1>1, <1>8, <3>1, <3>2, RemainderAdds
  <2>4. bits \in Nat
    <3>1. n + 1 \in Nat
      BY <1>2
    <3>2. 8 * (BlockBytes * (n + 1)) \in Nat
      BY <1>1, <3>1
    <3> HIDE DEF bits, n
    <3>3. bits \in 0..(Width - 1)
      BY <1>1, <2>3, <3>2, Division
    <3> QED
      BY <1>1, <3>3
  <2>5. /\ Append(c.state, block) \in Seq(Seq(AnyByte))
        /\ Len(Append(c.state, block)) = n + 1
        /\ Append(c.state, block)[n + 1] = block
        /\ \A i \in 1..n : Append(c.state, block)[i] = c.state[i]
    BY <1>2, <1>4
  <2>6. /\ d \in Context /\ d.state = Append(c.state, block) /\ d.block = <<>> /\ d.bits = bits
    BY <2>4, <2>5 DEF Context
  <2>7. (n + 1) * BlockBytes = n * BlockBytes + BlockBytes
    BY <1>1, <1>2, Product
  <2>8. ASSUME NEW i \in 1..(n + 1)
        PROVE  /\ Len(d.state[i]) = BlockBytes
               /\ \A j \in 1..BlockBytes : d.state[i][j] = M[(i - 1) * BlockBytes + j]
    <3>1. CASE i \in 1..n
      <4> HIDE DEF block, M, k, n, bits
      <4> QED
        BY <1>7, <2>5, <2>6, <3>1
    <3>2. CASE i = n + 1
      <4>1. d.state[i] = block /\ i - 1 = n
        BY <1>2, <2>5, <2>6, <3>2
      <4> HIDE DEF block, M, k, n, bits, d
      <4> QED
        BY <1>4, <1>6, <2>2, <4>1
    <3> HIDE DEF block, M, k, n, bits, d
    <3> QED
      BY <1>2, <3>1, <3>2
  <2>9. Len(d.state) = n + 1 /\ Len(d.block) = 0
    BY <2>5, <2>6
  <2> HIDE DEF block, M, k, n, bits, d
  <2>10. IsCtx(d, M)
    <3>1. Len(M) = (n + 1) * BlockBytes + 0
      BY <1>1, <1>3, <1>5, <2>2, <2>7
    <3>2. Len(M) = Len(d.state) * BlockBytes + Len(d.block) /\ Len(d.block) < BlockBytes
      BY <1>1, <2>9, <3>1
    <3>3. \A j \in 1..Len(d.block) : d.block[j] = M[Len(d.state) * BlockBytes + j]
      BY <2>9
    <3>4. d.bits = (8 * (BlockBytes * Len(d.state))) % Width
      BY <2>3, <2>6, <2>9
    <3> QED
      BY <2>6, <2>8, <2>9, <3>2, <3>3, <3>4 DEF IsCtx
  <2> QED
    BY <2>1, <2>10 DEF M
<1> QED
  BY <1>9, <1>10

(* A piece more: the order in which the pieces come does not show.         *)
LEMMA UpdateCtx ==
    ASSUME NEW m \in Seq(AnyByte), NEW bytes \in Seq(AnyByte), NEW c, IsCtx(c, m)
    PROVE  IsCtx(Update(c, bytes), m \o bytes)
<1> DEFINE N == Len(bytes)
           F == [n \in 1..N |-> [x \in Context |-> AddByte(x, bytes[n])]]
           Rule(h) == h = [n \in 0..N |-> IF n = 0 THEN c ELSE AddByte(h[n - 1], bytes[n])]
           after == CHOOSE h : Rule(h)
           read(n) == m \o SubSeq(bytes, 1, n)
<1>1. N \in Nat /\ \A n \in 1..N : bytes[n] \in AnyByte
  OBVIOUS
<1>2. c \in Context
  BY DEF IsCtx
<1>3. \A x \in Context, b \in AnyByte : AddByte(x, b) \in Context
  <2> TAKE x \in Context, b \in AnyByte
  <2>1. Append(x.block, b) \in Seq(AnyByte) /\ x.state \in Seq(Seq(AnyByte)) /\ x.bits \in Nat
    BY DEF Context
  <2>2. (x.bits + 8 * BlockBytes) % Width \in Nat
    <3>1. Width \in Nat \ {0} /\ x.bits + 8 * BlockBytes \in Nat
      BY <2>1, Constants, LengthFieldReduced
    <3>2. (x.bits + 8 * BlockBytes) % Width \in 0..(Width - 1)
      BY <3>1, Division
    <3> QED
      BY <3>1, <3>2
  <2>3. [x EXCEPT !.block = Append(x.block, b)] \in Context
    BY <2>1 DEF Context
  <2>4. Append(x.state, Append(x.block, b)) \in Seq(Seq(AnyByte)) /\ <<>> \in Seq(AnyByte)
    BY <2>1
  <2>5. [state |-> Append(x.state, Append(x.block, b)), block |-> <<>>,
         bits |-> (x.bits + 8 * BlockBytes) % Width] \in Context
    BY <2>2, <2>4 DEF Context
  <2> QED
    BY <2>3, <2>5 DEF AddByte
<1>4. F \in [1..N -> [Context -> Context]]
  BY <1>1, <1>3
<1>5. PICK g : Follows(g, N, Context, c, F)
  <2> HIDE DEF F, N
  <2> QED
    BY <1>1, <1>2, <1>4, RecursionExists
<1>6. Rule(g)
  <2>1. g \in [0..N -> Context] /\ g[0] = c
    BY <1>5 DEF Follows
  <2>2. \A n \in 1..N : g[n] = AddByte(g[n - 1], bytes[n])
    <3> TAKE n \in 1..N
    <3>1. g[n] = F[n][g[n - 1]]
      BY <1>5 DEF Follows
    <3>2. g[n - 1] \in Context
      <4>1. n - 1 \in 0..N
        BY <1>1
      <4> QED
        BY <2>1, <4>1
    <3> QED
      BY <3>1, <3>2
  <2>3. \A n \in 0..N : n # 0 => n \in 1..N
    BY <1>1
  <2> HIDE DEF N, F
  <2> QED
    BY <2>1, <2>2, <2>3
<1>7. Rule(after)
  <2>1. \E h : Rule(h)
    BY <1>6
  <2> HIDE DEF Rule
  <2> QED
    BY <2>1
<1>8. Update(c, bytes) = after[N]
  BY DEF Update
<1>9. after[0] = c /\ \A n \in 1..N : after[n] = AddByte(after[n - 1], bytes[n])
  <2>1. \A n \in 0..N : after[n] = IF n = 0 THEN c ELSE AddByte(after[n - 1], bytes[n])
    BY <1>7
  <2>2. 0 \in 0..N /\ \A n \in 1..N : n \in 0..N /\ n # 0
    BY <1>1
  <2> HIDE DEF after, N
  <2> QED
    BY <2>1, <2>2
<1> HIDE DEF after, F
<1>10. \A n \in 0..N : IsCtx(after[n], read(n))
  <2> DEFINE T == {n \in 0..N : ~IsCtx(after[n], read(n))}
  <2>1. SUFFICES ASSUME T # {} PROVE FALSE
    OBVIOUS
  <2>2. PICK n \in T : \A k \in T : ~(k < n)
    <3>1. T \subseteq Nat
      OBVIOUS
    <3> HIDE DEF T
    <3> QED
      BY <2>1, <3>1, Least
  <2>3. n \in 0..N /\ ~IsCtx(after[n], read(n))
    BY <2>2
  <2>4. CASE n = 0
    <3>1. SubSeq(bytes, 1, 0) = <<>>
      BY SubSeqEmpty
    <3>2. read(0) = m
      BY <3>1, ConcatEmptySeq
    <3> HIDE DEF read
    <3> QED
      BY <1>9, <2>3, <2>4, <3>2
  <2>5. CASE n # 0
    <3>1. n \in 1..N /\ n - 1 \in 0..N /\ n - 1 < n
      BY <1>1, <2>3, <2>5
    <3>2. IsCtx(after[n - 1], read(n - 1))
      <4> HIDE DEF read
      <4> QED
        BY <2>2, <3>1
    <3> DEFINE before == SubSeq(bytes, 1, n - 1)
               x == bytes[n]
    <3>3. before \in Seq(AnyByte) /\ x \in AnyByte
      <4>1. \A i \in 1..(n - 1) : bytes[i] \in AnyByte
        BY <1>1, <3>1
      <4>2. n - 1 \in Int
        BY <3>1
      <4> QED
        BY <1>1, <3>1, <4>1, <4>2, SubSeqProperties
    <3>4. SubSeq(bytes, 1, n) = before \o <<x>>
      <4>1. 1 \in 1..Len(bytes) /\ n \in 1..Len(bytes)
        BY <1>1, <3>1
      <4> QED
        BY <4>1, SubSeqRecursiveSecond
    <3>5. read(n) = Append(read(n - 1), x) /\ read(n - 1) \in Seq(AnyByte)
      <4> HIDE DEF before, x
      <4>1. m \o (before \o <<x>>) = (m \o before) \o <<x>>
        <5>1. <<x>> \in Seq(AnyByte)
          BY <3>3
        <5> QED
          BY <3>3, <5>1, ConcatAssociative
      <4>2. m \o before \in Seq(AnyByte)
        BY <3>3, ConcatProperties
      <4>3. (m \o before) \o <<x>> = Append(m \o before, x)
        BY <3>3, <4>2, AppendIsConcat
      <4> QED
        BY <3>4, <4>1, <4>2, <4>3 DEF before
    <3>6. after[n] = AddByte(after[n - 1], x)
      BY <1>9, <3>1
    <3> HIDE DEF read, x, before
    <3>7. IsCtx(AddByte(after[n - 1], x), Append(read(n - 1), x))
      BY <3>2, <3>3, <3>5, AddByteCtx
    <3> QED
      BY <2>3, <3>5, <3>6, <3>7
  <2> QED
    BY <2>4, <2>5
<1>11. read(N) = m \o bytes
  BY SubSeqFull
<1>12. N \in 0..N
  BY <1>1
<1> HIDE DEF read, N
<1> QED
  BY <1>8, <1>10, <1>11, <1>12

LEMMA Fields ==
    /\ \A n \in Nat : /\ Zeros(n) \in Seq(AnyByte) /\ Len(Zeros(n)) = n
                      /\ \A i \in 1..n : Zeros(n)[i] = 0
    /\ \A x \in Nat : LengthField(x) \in Seq(AnyByte) /\ Len(LengthField(x)) = LengthBytes
<1>1. 0 \in AnyByte /\ LengthBytes \in Nat \ {0} /\ Radix \in Nat \ {0}
  BY Constants
<1>2. ASSUME NEW n \in Nat
      PROVE  /\ Zeros(n) \in Seq(AnyByte) /\ Len(Zeros(n)) = n
             /\ \A i \in 1..n : Zeros(n)[i] = 0
  <2>1. Zeros(n) \in [1..n -> AnyByte]
    BY <1>1 DEF Zeros
  <2>2. Zeros(n) \in Seq(AnyByte)
    BY <2>1, SeqDef
  <2>3. Len(Zeros(n)) = n
    <3>1. DOMAIN Zeros(n) = 1..n /\ DOMAIN Zeros(n) = 1..Len(Zeros(n)) /\ Len(Zeros(n)) \in Nat
      BY <2>1, <2>2, LenProperties
    <3> QED
      BY <3>1
  <2> QED
    BY <2>2, <2>3 DEF Zeros
<1>3. ASSUME NEW x \in Nat
      PROVE  LengthField(x) \in Seq(AnyByte) /\ Len(LengthField(x)) = LengthBytes
  <2>1. ASSUME NEW i \in 1..LengthBytes
        PROVE  (x \div Power[LengthBytes - i]) % Radix \in AnyByte
    <3>1. LengthBytes - i \in 0..LengthBytes
      BY <1>1
    <3>2. Power[LengthBytes - i] \in Nat \ {0}
      BY <3>1, Powers
    <3>3. x \div Power[LengthBytes - i] \in Nat
      BY <3>2, Division
    <3> QED
      BY <1>1, <3>3, Division DEF AnyByte
  <2>2. LengthField(x) \in [1..LengthBytes -> AnyByte]
    BY <2>1 DEF LengthField
  <2>3. LengthField(x) \in Seq(AnyByte)
    BY <1>1, <2>2, SeqDef
  <2>4. Len(LengthField(x)) = LengthBytes
    <3>1. /\ DOMAIN LengthField(x) = 1..LengthBytes
          /\ DOMAIN LengthField(x) = 1..Len(LengthField(x)) /\ Len(LengthField(x)) \in Nat
      BY <2>2, <2>3, LenProperties
    <3> QED
      BY <1>1, <3>1
  <2> QED
    BY <2>3, <2>4
<1> QED
  BY <1>2, <1>3

(* The blocks behind the full ones: one if the length field still fits.    *)
Extra(r) == IF r + 1 <= Room THEN 1 ELSE 2

(* The padded message: the message, the marker, zeros, the length field,   *)
(* a whole number of blocks together.                                      *)
LEMMA PaddedShape ==
    ASSUME NEW m \in Seq(AnyByte), NEW q \in Nat, NEW r \in 0..(BlockBytes - 1),
           Len(m) = q * BlockBytes + r,
           NEW T, T = (q + Extra(r)) * BlockBytes
    PROVE  /\ T \in Nat /\ Len(m) + 1 <= T - LengthBytes
           /\ Padded(m) \in Seq(AnyByte) /\ Len(Padded(m)) = T
           /\ \A x \in 1..Len(m) : Padded(m)[x] = m[x]
           /\ Padded(m)[Len(m) + 1] = Marker
           /\ \A x \in (Len(m) + 2)..(T - LengthBytes) : Padded(m)[x] = 0
           /\ \A j \in 1..LengthBytes :
                Padded(m)[(T - LengthBytes) + j] = LengthField(8 * Len(m))[j]
<1> DEFINE N == Len(m)
           e == Extra(r)
           z == T - (N + 1) - LengthBytes
           Whole(k) == (N + 1 + k + LengthBytes) % BlockBytes = 0
           field == LengthField(8 * N)
<1>1. /\ BlockBytes \in Nat \ {0} /\ LengthBytes \in Nat \ {0} /\ Room \in Nat \ {0}
      /\ Room + LengthBytes = BlockBytes /\ Marker \in AnyByte
  BY Constants
<1>2. N \in Nat /\ q * BlockBytes \in Nat /\ r \in Nat /\ r < BlockBytes
  BY <1>1, Product
<1>3. e \in {1, 2} /\ q + e \in Nat
  BY DEF Extra
<1>4. T = q * BlockBytes + e * BlockBytes /\ e * BlockBytes \in {BlockBytes, BlockBytes + BlockBytes}
  <2>1. \A a, b \in Nat : (a + 1) * b = a * b + b /\ (a + 2) * b = a * b + (b + b)
                          /\ 1 * b = b /\ 2 * b = b + b
    BY SMT
  <2> QED
    BY <1>1, <1>3, <2>1
<1>5. T \in Nat /\ z \in 0..(BlockBytes - 1) /\ N + 1 <= T - LengthBytes
  <2>1. CASE r + 1 <= Room
    <3>1. T = q * BlockBytes + BlockBytes
      BY <1>1, <1>4, <2>1 DEF Extra
    <3> QED
      BY <1>1, <1>2, <2>1, <3>1
  <2>2. CASE ~(r + 1 <= Room)
    <3>1. T = q * BlockBytes + (BlockBytes + BlockBytes)
      <4>1. e = 2 /\ 2 * BlockBytes = BlockBytes + BlockBytes
        BY <1>1, <2>2 DEF Extra
      <4> QED
        BY <1>4, <4>1
    <3> QED
      BY <1>1, <1>2, <2>2, <3>1
  <2> QED
    BY <2>1, <2>2
<1>6. Whole(z)
  <2>1. N + 1 + z + LengthBytes = BlockBytes * (q + e) + 0
    <3>1. N + 1 + z + LengthBytes = T
      BY <1>1, <1>2, <1>5
    <3>2. T = BlockBytes * (q + e)
      BY <1>1, <1>3, Product
    <3>3. T = T + 0
      BY <1>5
    <3> QED
      BY <3>1, <3>2, <3>3
  <2>2. 0 \in 0..(BlockBytes - 1)
    BY <1>1
  <2> HIDE DEF e, z, N
  <2>3. (BlockBytes * (q + e) + 0) % BlockBytes = 0
    BY <1>1, <1>3, <2>2, Quotient
  <2> QED
    BY <2>1, <2>3
<1>7. ASSUME NEW k \in 0..(BlockBytes - 1), Whole(k) PROVE k = z
  <2> DEFINE n == N + 1 + k + LengthBytes
             Q == n \div BlockBytes
  <2>1. n \in Nat /\ n % BlockBytes = 0
    BY <1>1, <1>2, <1>7
  <2>2. Q \in Nat /\ n = BlockBytes * Q
    <3>1. Q \in Nat /\ n = BlockBytes * Q + (n % BlockBytes)
      BY <1>1, <2>1, Division
    <3>2. BlockBytes * Q \in Nat
      BY <1>1, <3>1
    <3> HIDE DEF n, Q
    <3> QED
      BY <2>1, <3>1, <3>2
  <2>3. n = Q * BlockBytes /\ Q * BlockBytes \in Nat
    BY <1>1, <2>2, Product
  <2>4. n = T + (k - z)
    BY <1>1, <1>2, <1>5
  <2> HIDE DEF n, Q, e, N, z
  <2>5. Q = q + e
    <3>1. CASE Q < q + e
      <4>1. Q * BlockBytes + BlockBytes <= (q + e) * BlockBytes
        BY <1>1, <1>3, <2>2, <3>1, Product
      <4>2. Q * BlockBytes + BlockBytes <= T
        BY <4>1 DEF e
      <4> QED
        BY <1>1, <1>5, <2>3, <2>4, <4>2
    <3>2. CASE q + e < Q
      <4>1. (q + e) * BlockBytes + BlockBytes <= Q * BlockBytes
        BY <1>1, <1>3, <2>2, <3>2, Product
      <4>2. T + BlockBytes <= Q * BlockBytes
        BY <4>1 DEF e
      <4> QED
        BY <1>1, <1>5, <2>3, <2>4, <4>2
    <3> QED
      BY <1>3, <2>2, <3>1, <3>2
  <2>6. n = T
    BY <2>3, <2>5 DEF e
  <2> QED
    BY <1>1, <1>5, <2>4, <2>6
<1>8. z = CHOOSE k \in 0..(BlockBytes - 1) : Whole(k)
  <2> HIDE DEF z, Whole
  <2> QED
    BY <1>5, <1>6, <1>7
<1>9. Padded(m) = m \o <<Marker>> \o Zeros(z) \o field
  BY <1>8 DEF Padded
<1> HIDE DEF z, e, Whole
<1>10. z \in Nat
  BY <1>1, <1>5
<1>11. /\ Zeros(z) \in Seq(AnyByte) /\ Len(Zeros(z)) = z /\ \A i \in 1..z : Zeros(z)[i] = 0
       /\ field \in Seq(AnyByte) /\ Len(field) = LengthBytes
  BY <1>2, <1>10, Fields
<1> HIDE DEF field
<1> DEFINE s1 == m \o <<Marker>>
           s2 == s1 \o Zeros(z)
           s3 == s2 \o field
<1>12. /\ s1 \in Seq(AnyByte) /\ Len(s1) = N + 1
       /\ s1[N + 1] = Marker /\ \A x \in 1..N : s1[x] = m[x]
  <2>1. s1 = Append(m, Marker)
    BY <1>1, AppendIsConcat
  <2> QED
    BY <1>1, <2>1, AppendProperties
<1> HIDE DEF s1
<1>13. /\ s2 \in Seq(AnyByte) /\ Len(s2) = N + 1 + z
       /\ \A x \in 1..(N + 1) : s2[x] = s1[x]
       /\ \A x \in (N + 2)..(N + 1 + z) : s2[x] = 0
  <2>1. /\ s2 \in Seq(AnyByte) /\ Len(s2) = N + 1 + z
        /\ \A x \in 1..(N + 1 + z) : s2[x] = IF x <= N + 1 THEN s1[x] ELSE Zeros(z)[x - (N + 1)]
    <3>1. /\ s2 \in Seq(AnyByte) /\ Len(s2) = Len(s1) + Len(Zeros(z))
          /\ \A x \in 1..(Len(s1) + Len(Zeros(z))) :
               s2[x] = IF x <= Len(s1) THEN s1[x] ELSE Zeros(z)[x - Len(s1)]
      BY <1>11, <1>12, ConcatProperties
    <3> HIDE DEF s2, N
    <3> QED
      BY <1>11, <1>12, <3>1
  <2> HIDE DEF s2, N
  <2>2. \A x \in 1..(N + 1) : x \in 1..(N + 1 + z) /\ x <= N + 1
    BY <1>2, <1>10
  <2>3. \A x \in (N + 2)..(N + 1 + z) :
          x \in 1..(N + 1 + z) /\ ~(x <= N + 1) /\ x - (N + 1) \in 1..z
    BY <1>2, <1>10
  <2> QED
    BY <1>11, <2>1, <2>2, <2>3
<1> HIDE DEF s2
<1>14. /\ s3 \in Seq(AnyByte) /\ Len(s3) = N + 1 + z + LengthBytes
       /\ \A x \in 1..(N + 1 + z) : s3[x] = s2[x]
       /\ \A j \in 1..LengthBytes : s3[(N + 1 + z) + j] = field[j]
  <2>1. /\ s3 \in Seq(AnyByte) /\ Len(s3) = N + 1 + z + LengthBytes
        /\ \A x \in 1..(N + 1 + z + LengthBytes) :
             s3[x] = IF x <= N + 1 + z THEN s2[x] ELSE field[x - (N + 1 + z)]
    <3>1. /\ s3 \in Seq(AnyByte) /\ Len(s3) = Len(s2) + Len(field)
          /\ \A x \in 1..(Len(s2) + Len(field)) :
               s3[x] = IF x <= Len(s2) THEN s2[x] ELSE field[x - Len(s2)]
      BY <1>11, <1>13, ConcatProperties
    <3> HIDE DEF s3, N
    <3> QED
      BY <1>11, <1>13, <3>1
  <2> HIDE DEF s3, N
  <2>2. \A x \in 1..(N + 1 + z) : x \in 1..(N + 1 + z + LengthBytes) /\ x <= N + 1 + z
    BY <1>1, <1>2, <1>10
  <2>3. \A j \in 1..LengthBytes :
          /\ (N + 1 + z) + j \in 1..(N + 1 + z + LengthBytes)
          /\ ~((N + 1 + z) + j <= N + 1 + z)
          /\ ((N + 1 + z) + j) - (N + 1 + z) = j
    BY <1>1, <1>2, <1>10
  <2> QED
    BY <2>1, <2>2, <2>3
<1>15. Padded(m) = s3
  BY <1>9 DEF s1, s2
<1>16. T - LengthBytes = N + 1 + z /\ T = N + 1 + z + LengthBytes
  BY <1>1, <1>2, <1>5 DEF z
<1>17. \A x \in 1..N : Padded(m)[x] = m[x]
  <2>1. \A x \in 1..N : x \in 1..(N + 1) /\ x \in 1..(N + 1 + z)
    BY <1>2, <1>10
  <2> HIDE DEF s3, N
  <2> QED
    BY <1>12, <1>13, <1>14, <1>15, <2>1
<1>18. Padded(m)[N + 1] = Marker
  <2>1. N + 1 \in 1..(N + 1) /\ N + 1 \in 1..(N + 1 + z)
    BY <1>2, <1>10
  <2> HIDE DEF s3, N
  <2> QED
    BY <1>12, <1>13, <1>14, <1>15, <2>1
<1>19. \A x \in (N + 2)..(T - LengthBytes) : Padded(m)[x] = 0
  <2>1. \A x \in (N + 2)..(N + 1 + z) : x \in 1..(N + 1 + z)
    BY <1>2, <1>10
  <2> HIDE DEF s3, N
  <2> QED
    BY <1>13, <1>14, <1>15, <1>16, <2>1
<1>20. \A j \in 1..LengthBytes : Padded(m)[(T - LengthBytes) + j] = LengthField(8 * N)[j]
  <2> HIDE DEF s3, N
  <2> QED
    BY <1>14, <1>15, <1>16 DEF field
<1>21. Padded(m) \in Seq(AnyByte) /\ Len(Padded(m)) = T
  <2> HIDE DEF s3, N
  <2> QED
    BY <1>14, <1>15, <1>16
<1> HIDE DEF s3
<1> QED
  BY <1>5, <1>17, <1>18, <1>19, <1>20, <1>21

(* Its blocks.                                                             *)
LEMMA DigestShape ==
    ASSUME NEW m \in Seq(AnyByte), NEW n \in Nat, Padded(m) \in Seq(AnyByte),
           Len(Padded(m)) = n * BlockBytes
    PROVE  /\ Digest(m) \in Seq(Seq(AnyByte)) /\ Len(Digest(m)) = n
           /\ \A i \in 1..n :
                /\ Digest(m)[i] \in Seq(AnyByte) /\ Len(Digest(m)[i]) = BlockBytes
                /\ \A j \in 1..BlockBytes : Digest(m)[i][j] = Padded(m)[(i - 1) * BlockBytes + j]
<1> DEFINE P == Padded(m)
           Block(i) == SubSeq(P, (i - 1) * BlockBytes + 1, i * BlockBytes)
<1>1. BlockBytes \in Nat \ {0}
  BY Constants
<1>2. Len(P) \div BlockBytes = n
  <2>1. Len(P) = BlockBytes * n + 0
    <3>1. n * BlockBytes = BlockBytes * n /\ n * BlockBytes \in Nat
      BY <1>1, Product
    <3> QED
      BY <3>1
  <2>2. 0 \in 0..(BlockBytes - 1)
    BY <1>1
  <2> HIDE DEF P
  <2> QED
    BY <1>1, <2>1, <2>2, Quotient
<1>3. Digest(m) = [i \in 1..n |-> Block(i)]
  BY <1>2 DEF Digest
<1>4. ASSUME NEW i \in 1..n
      PROVE  /\ Block(i) \in Seq(AnyByte) /\ Len(Block(i)) = BlockBytes
             /\ \A j \in 1..BlockBytes : Block(i)[j] = P[(i - 1) * BlockBytes + j]
  <2> DEFINE a == (i - 1) * BlockBytes
             b == i * BlockBytes
  <2>1. a \in Nat /\ b = a + BlockBytes /\ b <= n * BlockBytes /\ n * BlockBytes \in Nat
    <3>1. i - 1 \in Nat /\ i \in Nat /\ i <= n /\ (i - 1) + 1 = i
      OBVIOUS
    <3> QED
      BY <1>1, <3>1, Product
  <2> HIDE DEF a, b
  <2>2. \A x \in (a + 1)..b : P[x] \in AnyByte
    <3>1. \A x \in (a + 1)..b : x \in 1..Len(P)
      BY <1>1, <2>1
    <3> HIDE DEF P
    <3> QED
      BY <3>1, ElementOfSeq DEF P
  <2> HIDE DEF P
  <2>3. /\ SubSeq(P, a + 1, b) \in Seq(AnyByte)
        /\ Len(SubSeq(P, a + 1, b)) = IF a + 1 <= b THEN b - (a + 1) + 1 ELSE 0
        /\ \A j \in 1..(b - (a + 1) + 1) : SubSeq(P, a + 1, b)[j] = P[(a + 1) + j - 1]
    <3>1. a + 1 \in Int /\ b \in Int
      BY <1>1, <2>1
    <3> QED
      BY <2>2, <3>1, SubSeqProperties
  <2>4. b - (a + 1) + 1 = BlockBytes /\ a + 1 <= b
    BY <1>1, <2>1
  <2>5. \A j \in 1..BlockBytes : (a + 1) + j - 1 = a + j
    BY <1>1, <2>1
  <2>6. Block(i) = SubSeq(P, a + 1, b)
    BY DEF a, b
  <2> QED
    BY <2>3, <2>4, <2>5, <2>6 DEF a
<1> HIDE DEF Block, P
<1>5. Digest(m) \in Seq(Seq(AnyByte)) /\ Len(Digest(m)) = n
  <2>1. Digest(m) \in [1..n -> Seq(AnyByte)]
    BY <1>3, <1>4
  <2>2. Digest(m) \in Seq(Seq(AnyByte))
    BY <2>1, SeqDef
  <2>3. DOMAIN Digest(m) = 1..n /\ DOMAIN Digest(m) = 1..Len(Digest(m)) /\ Len(Digest(m)) \in Nat
    BY <2>1, <2>2, LenProperties
  <2> QED
    BY <2>2, <2>3
<1> QED
  BY <1>3, <1>4, <1>5 DEF P

(* Two sequences one behind the other, position by position.               *)
LEMMA Joined ==
    ASSUME NEW S, NEW s \in Seq(S), NEW t \in Seq(S)
    PROVE  /\ s \o t \in Seq(S) /\ Len(s \o t) = Len(s) + Len(t)
           /\ \A j \in 1..Len(s) : (s \o t)[j] = s[j]
           /\ \A j \in 1..Len(t) : (s \o t)[Len(s) + j] = t[j]
<1>1. Len(s) \in Nat /\ Len(t) \in Nat
  OBVIOUS
<1> DEFINE u == s \o t
<1>2. /\ u \in Seq(S) /\ Len(u) = Len(s) + Len(t)
      /\ \A i \in 1..(Len(s) + Len(t)) : u[i] = IF i <= Len(s) THEN s[i] ELSE t[i - Len(s)]
  BY ConcatProperties
<1> HIDE DEF u
<1>3. \A j \in 1..Len(s) : u[j] = s[j]
  BY <1>1, <1>2
<1>4. ASSUME NEW j \in 1..Len(t) PROVE u[Len(s) + j] = t[j]
  <2>1. /\ Len(s) + j \in 1..(Len(s) + Len(t)) /\ ~(Len(s) + j <= Len(s))
        /\ (Len(s) + j) - Len(s) = j
    BY <1>1
  <2> QED
    BY <1>2, <2>1
<1> QED
  BY <1>2, <1>3, <1>4 DEF u

(* What dfx_sha256_final makes of a context is the digest of the message,  *)
(* at every length: one more block when the length field fits behind the   *)
(* marker, two when it does not.                                           *)
THEOREM FinalDigest ==
    ASSUME NEW m \in Seq(AnyByte), NEW c, IsCtx(c, m)
    PROVE  Final(c) = Digest(m)
<1> DEFINE q == Len(c.state)
           r == Len(c.block)
           N == Len(m)
           T == (q + Extra(r)) * BlockBytes
           P == Padded(m)
           bits == (c.bits + 8 * Len(c.block)) % Width
           field == LengthField(bits)
           marked == Append(c.block, Marker)
           base == q * BlockBytes
<1>1. /\ BlockBytes \in Nat \ {0} /\ LengthBytes \in Nat \ {0} /\ Room \in Nat \ {0}
      /\ Room + LengthBytes = BlockBytes /\ Marker \in AnyByte
  BY Constants
<1>2. /\ c \in Context /\ q \in Nat /\ r \in 0..(BlockBytes - 1) /\ N = base + r
      /\ c.state \in Seq(Seq(AnyByte)) /\ c.block \in Seq(AnyByte)
  BY <1>1 DEF IsCtx, Context
<1>3. base \in Nat /\ N \in Nat /\ (q + 1) * BlockBytes = base + BlockBytes
      /\ (q + 2) * BlockBytes = base + (BlockBytes + BlockBytes)
      /\ Extra(r) \in {1, 2}
  <2>1. \A a, b \in Nat : a * b \in Nat /\ (a + 1) * b = a * b + b
                          /\ (a + 2) * b = a * b + (b + b)
    BY SMT
  <2>2. Extra(r) \in {1, 2}
    BY DEF Extra
  <2>3. q \in Nat /\ BlockBytes \in Nat
    BY <1>1, <1>2
  <2> HIDE DEF q
  <2>4. /\ base \in Nat /\ (q + 1) * BlockBytes = base + BlockBytes
        /\ (q + 2) * BlockBytes = base + (BlockBytes + BlockBytes)
    BY <2>1, <2>3
  <2> HIDE DEF base, r, N
  <2>5. N \in Nat
    BY <1>1, <1>2, <2>4
  <2> QED
    BY <2>2, <2>4, <2>5
<1>4. field = LengthField(8 * N) /\ field \in Seq(AnyByte) /\ Len(field) = LengthBytes
  <2>1. Width \in Nat \ {0}
    BY LengthFieldReduced
  <2>2. c.bits = (8 * (BlockBytes * q)) % Width
    BY DEF IsCtx
  <2>3. 8 * N = 8 * (BlockBytes * q) + 8 * r /\ 8 * (BlockBytes * q) \in Nat /\ 8 * r \in Nat
        /\ 8 * N \in Nat
    <3>1. base = BlockBytes * q /\ BlockBytes * q \in Nat
      BY <1>1, <1>2, Product
    <3> DEFINE full == BlockBytes * q
    <3> HIDE DEF base, r, N
    <3>2. full \in Nat /\ N = full + r /\ r \in Nat
      BY <1>1, <1>2, <3>1
    <3> HIDE DEF full
    <3>3. 8 * N = 8 * full + 8 * r /\ 8 * full \in Nat /\ 8 * r \in Nat /\ 8 * N \in Nat
      BY <3>2
    <3> QED
      BY <3>3 DEF full
  <2> HIDE DEF q, r, N
  <2>4. bits = (8 * N) % Width
    BY <2>1, <2>2, <2>3, RemainderAdds DEF r
  <2> HIDE DEF bits
  <2>5. field = LengthField(8 * N)
    BY <2>3, <2>4, LengthFieldReduced
  <2> HIDE DEF field
  <2> QED
    BY <2>3, <2>5, Fields
<1> HIDE DEF bits, field
<1>5. marked \in Seq(AnyByte) /\ Len(marked) = r + 1 /\ marked[r + 1] = Marker
      /\ \A j \in 1..r : marked[j] = c.block[j]
  BY <1>1, <1>2, AppendProperties
<1>6. /\ T \in Nat /\ N + 1 <= T - LengthBytes
      /\ P \in Seq(AnyByte) /\ Len(P) = T
      /\ \A x \in 1..N : P[x] = m[x]
      /\ P[N + 1] = Marker
      /\ \A x \in (N + 2)..(T - LengthBytes) : P[x] = 0
      /\ \A j \in 1..LengthBytes : P[(T - LengthBytes) + j] = field[j]
  <2> HIDE DEF q, r, base, field
  <2> QED
    BY <1>2, <1>4, PaddedShape DEF base
<1> HIDE DEF P, field
<1>7. /\ Digest(m) \in Seq(Seq(AnyByte)) /\ Len(Digest(m)) = q + Extra(r)
      /\ \A i \in 1..(q + Extra(r)) :
           /\ Digest(m)[i] \in Seq(AnyByte) /\ Len(Digest(m)[i]) = BlockBytes
           /\ \A j \in 1..BlockBytes : Digest(m)[i][j] = P[(i - 1) * BlockBytes + j]
  <2> HIDE DEF q, r
  <2>1. q + Extra(r) \in Nat
    BY <1>2, <1>3
  <2> QED
    BY <1>6, <2>1, DigestShape DEF P
(* The marked bytes where they are in the padded message.                  *)
<1>8. \A j \in 1..(r + 1) : marked[j] = P[base + j]
  <2>1. ASSUME NEW j \in 1..r PROVE marked[j] = P[base + j]
    <3>1. base + j \in 1..N
      BY <1>2, <1>3
    <3>2. c.block[j] = m[base + j]
      BY DEF IsCtx
    <3> HIDE DEF marked, base, r, N
    <3> QED
      BY <1>5, <1>6, <3>1, <3>2
  <2>2. marked[r + 1] = P[base + (r + 1)]
    <3>1. base + (r + 1) = N + 1
      BY <1>2, <1>3
    <3> HIDE DEF marked, base, r, N
    <3> QED
      BY <1>5, <1>6, <3>1
  <2>3. \A j \in 1..(r + 1) : j \in 1..r \/ j = r + 1
    BY <1>2
  <2> HIDE DEF marked, base, r
  <2> QED
    BY <2>1, <2>2, <2>3
(* The full blocks.                                                        *)
<1>9. \A i \in 1..q : c.state[i] = Digest(m)[i]
  <2> TAKE i \in 1..q
  <2>1. /\ Len(c.state[i]) = BlockBytes /\ c.state[i] \in Seq(AnyByte)
        /\ \A j \in 1..BlockBytes : c.state[i][j] = m[(i - 1) * BlockBytes + j]
    BY <1>2 DEF IsCtx
  <2>2. i \in 1..(q + Extra(r))
    <3> HIDE DEF q, r, base
    <3> QED
      BY <1>2, <1>3
  <2>3. /\ Digest(m)[i] \in Seq(AnyByte) /\ Len(Digest(m)[i]) = BlockBytes
        /\ \A j \in 1..BlockBytes : Digest(m)[i][j] = P[(i - 1) * BlockBytes + j]
    <3> HIDE DEF q, r
    <3> QED
      BY <1>7, <2>2
  <2>4. \A j \in 1..BlockBytes : (i - 1) * BlockBytes + j \in 1..N
    <3>1. i - 1 \in Nat /\ i - 1 < q
      BY <1>2
    <3> DEFINE before == (i - 1) * BlockBytes
    <3>2. before \in Nat /\ before + BlockBytes <= base
      BY <1>1, <1>2, <3>1, Product
    <3> HIDE DEF q, r, N, base, before
    <3>3. \A j \in 1..BlockBytes : before + j \in 1..N
      BY <1>1, <1>2, <1>3, <3>2
    <3> QED
      BY <3>3 DEF before
  <2>5. \A j \in 1..Len(c.state[i]) : c.state[i][j] = Digest(m)[i][j]
    <3> HIDE DEF q, r, N
    <3> QED
      BY <1>6, <2>1, <2>3, <2>4
  <2> QED
    BY <2>1, <2>3, <2>5, SeqEqual
<1>10. \A n \in Nat : /\ Zeros(n) \in Seq(AnyByte) /\ Len(Zeros(n)) = n
                      /\ \A j \in 1..n : Zeros(n)[j] = 0
  BY Fields
(* The length field fits behind the marker.                                *)
<1>11. CASE r + 1 <= Room
  <2> DEFINE head == marked \o Zeros(Room - Len(marked))
             last == head \o field
  <2>1. /\ Room - Len(marked) = Room - (r + 1) /\ Room - (r + 1) \in Nat
        /\ T = base + BlockBytes /\ T - LengthBytes = base + Room /\ Extra(r) = 1
    <3>1. Extra(r) = 1
      BY <1>11 DEF Extra
    <3>2. T = (q + 1) * BlockBytes
      BY <3>1
    <3> HIDE DEF q, r, base, T, marked, N
    <3> QED
      BY <1>1, <1>2, <1>3, <1>5, <1>11, <3>1, <3>2
  <2>2. Final(c) = Append(c.state, last)
    BY <1>5, <1>11 DEF Final, Fits, field, bits
  <2> HIDE DEF marked, N, T, q, r, base
  <2>3. /\ head \in Seq(AnyByte) /\ Len(head) = Room
        /\ \A j \in 1..(r + 1) : head[j] = marked[j]
        /\ \A j \in 1..(Room - (r + 1)) : head[(r + 1) + j] = 0
    <3> DEFINE n == Room - (r + 1)
    <3>1. n \in Nat /\ head = marked \o Zeros(n)
      BY <2>1
    <3> HIDE DEF head, n
    <3>2. /\ Zeros(n) \in Seq(AnyByte) /\ Len(Zeros(n)) = n
          /\ \A j \in 1..n : Zeros(n)[j] = 0
      BY <1>10, <3>1
    <3>3. /\ head \in Seq(AnyByte) /\ Len(head) = Len(marked) + Len(Zeros(n))
          /\ \A j \in 1..Len(marked) : head[j] = marked[j]
          /\ \A j \in 1..Len(Zeros(n)) : head[Len(marked) + j] = Zeros(n)[j]
      <4> DEFINE z == Zeros(n)
      <4>1. marked \in Seq(AnyByte) /\ z \in Seq(AnyByte) /\ head = marked \o z
        BY <1>5, <3>1, <3>2
      <4> HIDE DEF z
      <4>2. /\ marked \o z \in Seq(AnyByte) /\ Len(marked \o z) = Len(marked) + Len(z)
            /\ \A j \in 1..Len(marked) : (marked \o z)[j] = marked[j]
            /\ \A j \in 1..Len(z) : (marked \o z)[Len(marked) + j] = z[j]
        BY <4>1, Joined
      <4> QED
        BY <4>1, <4>2 DEF z
    <3>4. /\ head \in Seq(AnyByte) /\ Len(head) = (r + 1) + n
          /\ \A j \in 1..(r + 1) : head[j] = marked[j]
          /\ \A j \in 1..n : head[(r + 1) + j] = 0
      BY <1>5, <3>2, <3>3
    <3>5. (r + 1) + n = Room
      BY <1>1, <1>2 DEF n
    <3> QED
      BY <3>4, <3>5 DEF n
  <2> HIDE DEF head
  <2>4. /\ last \in Seq(AnyByte) /\ Len(last) = BlockBytes
        /\ \A j \in 1..Room : last[j] = head[j]
        /\ \A j \in 1..LengthBytes : last[Room + j] = field[j]
    <3>1. /\ last \in Seq(AnyByte) /\ Len(last) = Len(head) + Len(field)
          /\ \A j \in 1..Len(head) : last[j] = head[j]
          /\ \A j \in 1..Len(field) : last[Len(head) + j] = field[j]
      <4>1. head \in Seq(AnyByte) /\ field \in Seq(AnyByte)
        BY <1>4, <2>3
      <4> QED
        BY <4>1, Joined
    <3> HIDE DEF last
    <3> QED
      BY <1>1, <1>4, <2>3, <3>1
  <2> HIDE DEF last
  <2>5. \A j \in 1..BlockBytes : last[j] = P[base + j]
    <3> TAKE j \in 1..BlockBytes
    <3>1. CASE j \in 1..(r + 1)
      BY <1>8, <1>2, <1>1, <1>11, <2>3, <2>4, <3>1
    <3>2. CASE j \in (r + 2)..Room
      <4>1. last[j] = 0
        <5>1. j - (r + 1) \in 1..(Room - (r + 1)) /\ (r + 1) + (j - (r + 1)) = j /\ j \in 1..Room
          BY <1>1, <1>2, <3>2
        <5> QED
          BY <2>3, <2>4, <5>1
      <4>2. P[base + j] = 0
        <5>1. base + j \in (N + 2)..(T - LengthBytes)
          BY <1>1, <1>2, <1>3, <2>1, <3>2
        <5> QED
          BY <1>6, <5>1
      <4> QED
        BY <4>1, <4>2
    <3>3. CASE j \in (Room + 1)..BlockBytes
      <4>1. j - Room \in 1..LengthBytes /\ Room + (j - Room) = j
            /\ (T - LengthBytes) + (j - Room) = base + j
        BY <1>1, <1>3, <2>1, <3>3
      <4> QED
        BY <1>6, <2>4, <4>1
    <3> QED
      BY <1>1, <1>2, <3>1, <3>2, <3>3
  <2>6. last = Digest(m)[q + 1]
    <3>1. q + 1 \in 1..(q + Extra(r)) /\ (q + 1) - 1 = q
      BY <1>2, <2>1
    <3>2. /\ Digest(m)[q + 1] \in Seq(AnyByte) /\ Len(Digest(m)[q + 1]) = BlockBytes
          /\ \A j \in 1..BlockBytes : Digest(m)[q + 1][j] = P[base + j]
      BY <1>7, <3>1 DEF base
    <3> QED
      BY <2>4, <2>5, <3>2, SeqEqual
  <2> DEFINE whole == Append(c.state, last)
  <2>7. /\ whole \in Seq(Seq(AnyByte)) /\ Len(whole) = q + 1 /\ whole[q + 1] = last
        /\ \A i \in 1..q : whole[i] = c.state[i]
    BY <1>2, <2>4, AppendProperties DEF q
  <2> HIDE DEF whole
  <2>8. \A i \in 1..Len(whole) : whole[i] = Digest(m)[i]
    <3>1. \A i \in 1..(q + 1) : i \in 1..q \/ i = q + 1
      BY <1>2
    <3> QED
      BY <1>9, <2>6, <2>7, <3>1
  <2>9. whole = Digest(m)
    BY <1>7, <2>1, <2>7, <2>8, SeqEqual
  <2> QED
    BY <2>2, <2>9 DEF whole
(* It does not: a block filled with zeros, and another for the length.     *)
<1>12. CASE ~(r + 1 <= Room)
  <2> DEFINE full == marked \o Zeros(BlockBytes - Len(marked))
             head == <<>> \o Zeros(Room - Len(<<>>))
             last == head \o field
             whole == c.state \o <<full, last>>
  <2>1. /\ BlockBytes - Len(marked) = BlockBytes - (r + 1) /\ BlockBytes - (r + 1) \in Nat
        /\ T = base + (BlockBytes + BlockBytes) /\ T - LengthBytes = base + BlockBytes + Room
        /\ Extra(r) = 2
    <3>1. Extra(r) = 2
      BY <1>12 DEF Extra
    <3>2. T = (q + 2) * BlockBytes
      BY <3>1
    <3> HIDE DEF q, r, base, T, marked, N
    <3> QED
      BY <1>1, <1>2, <1>3, <1>5, <1>12, <3>1, <3>2
  <2>2. Final(c) = whole
    BY <1>5, <1>12 DEF Final, Fits, field, bits
  <2> HIDE DEF marked, N, T, q, r, base
  <2>3. /\ full \in Seq(AnyByte) /\ Len(full) = BlockBytes
        /\ \A j \in 1..(r + 1) : full[j] = marked[j]
        /\ \A j \in 1..(BlockBytes - (r + 1)) : full[(r + 1) + j] = 0
    <3> DEFINE n == BlockBytes - (r + 1)
    <3>1. n \in Nat /\ full = marked \o Zeros(n)
      BY <2>1
    <3> HIDE DEF full, n
    <3>2. /\ Zeros(n) \in Seq(AnyByte) /\ Len(Zeros(n)) = n
          /\ \A j \in 1..n : Zeros(n)[j] = 0
      BY <1>10, <3>1
    <3>3. /\ full \in Seq(AnyByte) /\ Len(full) = Len(marked) + Len(Zeros(n))
          /\ \A j \in 1..Len(marked) : full[j] = marked[j]
          /\ \A j \in 1..Len(Zeros(n)) : full[Len(marked) + j] = Zeros(n)[j]
      <4> DEFINE z == Zeros(n)
      <4>1. marked \in Seq(AnyByte) /\ z \in Seq(AnyByte) /\ full = marked \o z
        BY <1>5, <3>1, <3>2
      <4> HIDE DEF z
      <4>2. /\ marked \o z \in Seq(AnyByte) /\ Len(marked \o z) = Len(marked) + Len(z)
            /\ \A j \in 1..Len(marked) : (marked \o z)[j] = marked[j]
            /\ \A j \in 1..Len(z) : (marked \o z)[Len(marked) + j] = z[j]
        BY <4>1, Joined
      <4> QED
        BY <4>1, <4>2 DEF z
    <3>4. /\ full \in Seq(AnyByte) /\ Len(full) = (r + 1) + n
          /\ \A j \in 1..(r + 1) : full[j] = marked[j]
          /\ \A j \in 1..n : full[(r + 1) + j] = 0
      BY <1>5, <3>2, <3>3
    <3>5. (r + 1) + n = BlockBytes
      BY <1>1, <1>2 DEF n
    <3> QED
      BY <3>4, <3>5 DEF n
  <2> HIDE DEF full
  <2>4. /\ head \in Seq(AnyByte) /\ Len(head) = Room /\ \A j \in 1..Room : head[j] = 0
    <3>1. Len(<<>>) = 0 /\ Room - 0 = Room /\ <<>> \in Seq(AnyByte)
      BY <1>1
    <3>2. head = Zeros(Room)
      BY <1>1, <1>10, <3>1, ConcatEmptySeq
    <3> QED
      BY <1>1, <1>10, <3>2
  <2> HIDE DEF head
  <2>5. /\ last \in Seq(AnyByte) /\ Len(last) = BlockBytes
        /\ \A j \in 1..Room : last[j] = head[j]
        /\ \A j \in 1..LengthBytes : last[Room + j] = field[j]
    <3>1. /\ last \in Seq(AnyByte) /\ Len(last) = Len(head) + Len(field)
          /\ \A j \in 1..Len(head) : last[j] = head[j]
          /\ \A j \in 1..Len(field) : last[Len(head) + j] = field[j]
      <4>1. head \in Seq(AnyByte) /\ field \in Seq(AnyByte)
        BY <1>4, <2>4
      <4> QED
        BY <4>1, Joined
    <3> HIDE DEF last
    <3> QED
      BY <1>1, <1>4, <2>4, <3>1
  <2> HIDE DEF last
  <2>6. \A j \in 1..BlockBytes : full[j] = P[base + j]
    <3> TAKE j \in 1..BlockBytes
    <3>1. CASE j \in 1..(r + 1)
      BY <1>8, <2>3, <3>1
    <3>2. CASE j \in (r + 2)..BlockBytes
      <4>1. full[j] = 0
        <5>1. j - (r + 1) \in 1..(BlockBytes - (r + 1)) /\ (r + 1) + (j - (r + 1)) = j
          BY <1>1, <1>2, <3>2
        <5> QED
          BY <2>3, <5>1
      <4>2. P[base + j] = 0
        <5>1. base + j \in (N + 2)..(T - LengthBytes)
          BY <1>1, <1>2, <1>3, <2>1, <3>2
        <5> QED
          BY <1>6, <5>1
      <4> QED
        BY <4>1, <4>2
    <3> QED
      BY <1>1, <1>2, <3>1, <3>2
  <2>7. \A j \in 1..BlockBytes : last[j] = P[(base + BlockBytes) + j]
    <3> TAKE j \in 1..BlockBytes
    <3>1. CASE j \in 1..Room
      <4>1. (base + BlockBytes) + j \in (N + 2)..(T - LengthBytes)
        BY <1>1, <1>2, <1>3, <2>1, <3>1
      <4> QED
        BY <1>6, <2>4, <2>5, <3>1, <4>1
    <3>2. CASE j \in (Room + 1)..BlockBytes
      <4>1. j - Room \in 1..LengthBytes /\ Room + (j - Room) = j
            /\ (T - LengthBytes) + (j - Room) = (base + BlockBytes) + j
        BY <1>1, <1>3, <2>1, <3>2
      <4> QED
        BY <1>6, <2>5, <4>1
    <3> QED
      BY <1>1, <3>1, <3>2
  <2>8. full = Digest(m)[q + 1] /\ last = Digest(m)[q + 2]
    <3>1. /\ q + 1 \in 1..(q + Extra(r)) /\ (q + 1) - 1 = q
          /\ q + 2 \in 1..(q + Extra(r)) /\ (q + 2) - 1 = q + 1
      BY <1>2, <2>1
    <3>2. /\ Digest(m)[q + 1] \in Seq(AnyByte) /\ Len(Digest(m)[q + 1]) = BlockBytes
          /\ \A j \in 1..BlockBytes : Digest(m)[q + 1][j] = P[base + j]
      BY <1>7, <3>1 DEF base
    <3>3. /\ Digest(m)[q + 2] \in Seq(AnyByte) /\ Len(Digest(m)[q + 2]) = BlockBytes
          /\ \A j \in 1..BlockBytes : Digest(m)[q + 2][j] = P[(base + BlockBytes) + j]
      <4>1. /\ Digest(m)[q + 2] \in Seq(AnyByte) /\ Len(Digest(m)[q + 2]) = BlockBytes
            /\ \A j \in 1..BlockBytes :
                 Digest(m)[q + 2][j] = P[((q + 2) - 1) * BlockBytes + j]
        BY <1>7, <3>1
      <4>2. ((q + 2) - 1) * BlockBytes = base + BlockBytes
        BY <1>3, <3>1
      <4> QED
        BY <4>1, <4>2
    <3>4. full = Digest(m)[q + 1]
      BY <2>3, <2>6, <3>2, SeqEqual
    <3>5. last = Digest(m)[q + 2]
      BY <2>5, <2>7, <3>3, SeqEqual
    <3> QED
      BY <3>4, <3>5
  <2>9. /\ whole \in Seq(Seq(AnyByte)) /\ Len(whole) = q + 2
        /\ whole[q + 1] = full /\ whole[q + 2] = last
        /\ \A i \in 1..q : whole[i] = c.state[i]
    <3>1. <<full, last>> \in Seq(Seq(AnyByte)) /\ Len(<<full, last>>) = 2
          /\ <<full, last>>[1] = full /\ <<full, last>>[2] = last
      BY <2>3, <2>5
    <3> QED
      BY <1>2, <3>1, Joined DEF q
  <2> HIDE DEF whole
  <2>10. \A i \in 1..Len(whole) : whole[i] = Digest(m)[i]
    <3>1. \A i \in 1..(q + 2) : i \in 1..q \/ i = q + 1 \/ i = q + 2
      BY <1>2
    <3> QED
      BY <1>9, <2>8, <2>9, <3>1
  <2>11. whole = Digest(m)
    BY <1>7, <2>1, <2>9, <2>10, SeqEqual
  <2> QED
    BY <2>2, <2>11
<1> QED
  BY <1>11, <1>12
(* Every byte of the padded message is where DigestByte looks for it, and  *)
(* a digest says how long it is.                                           *)
LEMMA DigestReads ==
    ASSUME NEW m \in Seq(AnyByte)
    PROVE  /\ Len(Padded(m)) = Len(Digest(m)) * BlockBytes
           /\ Len(Padded(m)) \in Nat /\ Len(Padded(m)) - LengthBytes \in Nat
           /\ Len(m) + 1 <= Len(Padded(m)) - LengthBytes
           /\ \A x \in 1..Len(m) : Padded(m)[x] = m[x]
           /\ Padded(m)[Len(m) + 1] = Marker
           /\ \A x \in (Len(m) + 2)..(Len(Padded(m)) - LengthBytes) : Padded(m)[x] = 0
           /\ \A x \in 1..Len(Padded(m)) : DigestByte(Digest(m), x) = Padded(m)[x]
<1> DEFINE N == Len(m)
           q == N \div BlockBytes
           r == N % BlockBytes
           n == q + Extra(r)
           T == n * BlockBytes
           P == Padded(m)
<1>1. BlockBytes \in Nat \ {0} /\ LengthBytes \in Nat \ {0} /\ N \in Nat
  BY Constants
<1>2. q \in Nat /\ r \in 0..(BlockBytes - 1) /\ N = q * BlockBytes + r
  <2> HIDE DEF N
  <2>1. q \in Nat /\ r \in 0..(BlockBytes - 1) /\ N = BlockBytes * q + r
    BY <1>1, Division
  <2> HIDE DEF q, r
  <2> QED
    BY <1>1, <2>1, Product
<1> HIDE DEF q, r
<1>3. n \in Nat
  BY <1>2 DEF Extra
<1>4. /\ T \in Nat /\ N + 1 <= T - LengthBytes
      /\ P \in Seq(AnyByte) /\ Len(P) = T
      /\ \A x \in 1..N : P[x] = m[x]
      /\ P[N + 1] = Marker
      /\ \A x \in (N + 2)..(T - LengthBytes) : P[x] = 0
  BY <1>2, PaddedShape
<1>5. /\ Digest(m) \in Seq(Seq(AnyByte)) /\ Len(Digest(m)) = n
      /\ \A i \in 1..n : \A j \in 1..BlockBytes : Digest(m)[i][j] = P[(i - 1) * BlockBytes + j]
  <2> HIDE DEF n
  <2> QED
    BY <1>3, <1>4, DigestShape
<1> HIDE DEF P, N, n
<1>6. T - LengthBytes \in Nat
  <2> HIDE DEF T
  <2> QED
    BY <1>1, <1>4
<1>7. ASSUME NEW x \in 1..T PROVE DigestByte(Digest(m), x) = P[x]
  <2> DEFINE i == (x - 1) \div BlockBytes
             j == (x - 1) % BlockBytes
  <2>1. x - 1 \in Nat /\ x <= T
    BY <1>4
  <2>2. i \in Nat /\ j \in 0..(BlockBytes - 1) /\ x - 1 = BlockBytes * i + j
    BY <1>1, <2>1, Division
  <2>3. DigestByte(Digest(m), x) = Digest(m)[i + 1][j + 1]
    BY DEF DigestByte
  <2> HIDE DEF i, j
  <2>4. x = i * BlockBytes + (j + 1) /\ i * BlockBytes \in Nat
    <3>1. BlockBytes * i = i * BlockBytes /\ i * BlockBytes \in Nat
      BY <1>1, <2>2, Product
    <3> HIDE DEF T
    <3> QED
      BY <1>1, <2>1, <2>2, <3>1
  <2>5. i < n
    <3>1. SUFFICES ASSUME n <= i PROVE FALSE
      BY <1>3, <2>2
    <3>2. T <= i * BlockBytes
      BY <1>1, <1>3, <2>2, <3>1, Product
    <3> HIDE DEF T
    <3> QED
      BY <1>4, <2>1, <2>2, <2>4, <3>2
  <2>6. i + 1 \in 1..n /\ j + 1 \in 1..BlockBytes /\ (i + 1) - 1 = i
    BY <1>1, <1>3, <2>2, <2>5
  <2>7. Digest(m)[i + 1][j + 1] = P[((i + 1) - 1) * BlockBytes + (j + 1)]
    BY <1>5, <2>6
  <2> QED
    BY <2>3, <2>4, <2>6, <2>7
<1>8. Len(P) = Len(Digest(m)) * BlockBytes
  BY <1>4, <1>5
<1> HIDE DEF T
<1> QED
  BY <1>4, <1>6, <1>7, <1>8 DEF P, N

(* Two messages with the same digest are the same: transform is left       *)
(* uninterpreted, and neither the padding nor the order of the pieces      *)
(* confuses two of them.                                                   *)
THEOREM DigestInjective ==
    ASSUME NEW m \in Seq(AnyByte), NEW k \in Seq(AnyByte), Digest(m) = Digest(k)
    PROVE  m = k
<1>1. LengthBytes \in Nat \ {0} /\ Marker # 0
  BY Constants
<1>2. ASSUME NEW a \in Seq(AnyByte), NEW b \in Seq(AnyByte), Digest(a) = Digest(b)
      PROVE  /\ Len(Padded(a)) = Len(Padded(b))
             /\ \A x \in 1..Len(Padded(a)) : Padded(a)[x] = Padded(b)[x]
  <2>1. Len(Padded(a)) = Len(Padded(b))
    BY <1>2, DigestReads
  <2> QED
    BY <1>2, <2>1, DigestReads
<1>3. ASSUME NEW a \in Seq(AnyByte), NEW b \in Seq(AnyByte), Digest(a) = Digest(b)
      PROVE  ~(Len(a) < Len(b))
  <2> DEFINE N == Len(a)
             M == Len(b)
             T == Len(Padded(a))
             U == Len(Padded(b))
  <2>1. SUFFICES ASSUME N < M PROVE FALSE
    OBVIOUS
  <2>2. N \in Nat /\ M \in Nat
    OBVIOUS
  <2>3. /\ T - LengthBytes \in Nat /\ T = U
        /\ \A x \in 1..T : Padded(a)[x] = Padded(b)[x]
    BY <1>2, <1>3, DigestReads
  <2>4. /\ N + 1 <= T - LengthBytes
        /\ Padded(a)[N + 1] = Marker
        /\ \A x \in 1..N : Padded(a)[x] = a[x]
        /\ \A x \in (N + 2)..(T - LengthBytes) : Padded(a)[x] = 0
    BY DigestReads
  <2>5. /\ M + 1 <= U - LengthBytes /\ Padded(b)[M + 1] = Marker
    BY DigestReads
  <2> HIDE DEF N, M, T, U
  <2>6. T \in Int
    BY <2>3 DEF T
  <2>7. M + 1 \in (N + 2)..(T - LengthBytes) /\ M + 1 \in 1..T
    BY <1>1, <2>1, <2>2, <2>3, <2>5, <2>6
  <2> QED
    BY <1>1, <2>3, <2>4, <2>5, <2>7
<1>4. Len(m) = Len(k)
  <2>1. Len(m) \in Nat /\ Len(k) \in Nat
    OBVIOUS
  <2>2. ~(Len(m) < Len(k)) /\ ~(Len(k) < Len(m))
    BY <1>3
  <2> QED
    BY <2>1, <2>2
<1>5. \A i \in 1..Len(m) : m[i] = k[i]
  <2>1. \A i \in 1..Len(m) : Padded(m)[i] = m[i] /\ Padded(k)[i] = k[i]
    BY <1>4, DigestReads
  <2>2. \A i \in 1..Len(m) : i \in 1..Len(Padded(m))
    <3>1. Len(m) + 1 <= Len(Padded(m)) - LengthBytes /\ Len(Padded(m)) \in Nat
      BY DigestReads
    <3> QED
      BY <1>1, <3>1
  <2> QED
    BY <1>2, <2>1, <2>2
<1> QED
  BY <1>4, <1>5, SeqEqual

(* The bytes of a message read back out of its digest.                     *)
LEMMA DigestKeepsBytes ==
    ASSUME NEW m \in Seq(AnyByte)
    PROVE  [i \in 1..Len(m) |-> DigestByte(Digest(m), i)] = m
<1>1. Len(m) \in Nat /\ m = [i \in 1..Len(m) |-> m[i]]
  OBVIOUS
<1>2. \A i \in 1..Len(m) : i \in 1..Len(Padded(m))
  <2>1. /\ Len(m) + 1 <= Len(Padded(m)) - LengthBytes /\ Len(Padded(m)) \in Nat
        /\ LengthBytes \in Nat
    BY Constants, DigestReads
  <2> QED
    BY <1>1, <2>1
<1>3. \A i \in 1..Len(m) : DigestByte(Digest(m), i) = m[i]
  BY <1>2, DigestReads
<1> QED
  BY <1>1, <1>3
-----------------------------------------------------------------------------
(* The reading of a file.                                                  *)
FileTypeOK ==
    /\ files \in [Files -> [bytes : Seq(AnyByte), stamp : Nat]]
    /\ named \in Files
    /\ open \in [file : Files, position : Nat, context : Context]
    /\ moments \in SUBSET Seq(AnyByte) /\ IsFiniteSet(moments)

(* r was read up to the position: each of its bytes from a content that    *)
(* the file had, and, while the times of the file say so, all of them from *)
(* the one that it has.                                                    *)
Collected(r) ==
    LET bytes == files[open.file].bytes
        stamp == files[open.file].stamp
    IN  /\ Len(r) = open.position /\ IsCtx(open.context, r)
        /\ \A i \in 1..Len(r) : \E m \in moments : i <= Len(m) /\ m[i] = r[i]
        /\ step \in {"compare", "match"} => \E m \in moments : Len(m) <= Len(r)
        /\ step \in {"hash", "compare"} =>
             /\ seen.file = open.file /\ seen.stamp \in 0..stamp
             /\ seen.stamp = stamp =>
                  /\ Len(r) <= Len(bytes) /\ \A i \in 1..Len(r) : r[i] = bytes[i]
                  /\ step = "compare" => Len(r) = Len(bytes)

ReadInv ==
    step \in {"hash", "compare", "check", "match"} =>
      /\ files[open.file].bytes \in moments
      /\ \E r \in Seq(AnyByte) : Collected(r)

(* What the inspection reported stays what the erasure confirms.           *)
DeviceInv ==
    step \in {"inspected", "check", "match"} =>
      \E m \in Seq(AnyByte) : device.size = Len(m) /\ device.digest = Digest(m)

HashInv == FileTypeOK /\ ReadInv /\ DeviceInv /\ FingerprintOfOneMoment

LEMMA ClosedOK ==
    ASSUME NEW f \in Files
    PROVE  /\ Closed(f) \in [file : Files, position : Nat, context : Context]
           /\ Closed(f).file = f /\ Closed(f).position = 0 /\ Closed(f).context = Start
  BY StartCtx DEF Closed, IsCtx

LEMMA HashInitInv == InspectInit => HashInv
<1> SUFFICES ASSUME InspectInit PROVE HashInv
  OBVIOUS
<1>1. PICK first \in {"idle", "lstat"} : IdleAt(first)
  BY DEF InspectInit, HashInit
<1>2. files \in [Files -> [bytes : Seq(AnyByte), stamp : Nat]]
  <2>1. CASE files = [f \in Files |-> [bytes |-> <<>>, stamp |-> 0]]
    <3>1. [bytes |-> <<>>, stamp |-> 0] \in [bytes : Seq(AnyByte), stamp : Nat]
      OBVIOUS
    <3> QED
      BY <2>1, <3>1
  <2>2. CASE files \in [Files -> [bytes : Contents, stamp : {0}]]
    <3>1. [bytes : Contents, stamp : {0}] \subseteq [bytes : Seq(AnyByte), stamp : Nat]
      BY FileAssumption
    <3> QED
      BY <2>2, <3>1
  <2> QED
    BY <2>1, <2>2 DEF InspectInit, HashInit
<1>3. named \in Files /\ open = Closed(named) /\ step \in {"idle", "lstat"} /\ moments = {}
  BY <1>1 DEF IdleAt
<1>4. FileTypeOK
  BY <1>2, <1>3, ClosedOK, FS_EmptySet DEF FileTypeOK
<1> QED
  BY <1>3, <1>4 DEF HashInv, ReadInv, DeviceInv, FingerprintOfOneMoment, OneMoment,
                    ConfirmedByteByByte

(* A step that ends the reading without a result.                          *)
LEMMA FailInv == HashInv /\ Fail => HashInv'
<1> SUFFICES ASSUME HashInv, Fail PROVE HashInv'
  OBVIOUS
<1>1. /\ step' = "failed" /\ files' = files /\ named' = named /\ open' = open
      /\ moments' = moments
  BY DEF Fail, reading
<1>2. FileTypeOK'
  BY <1>1 DEF HashInv, FileTypeOK
<1> QED
  BY <1>1, <1>2 DEF HashInv, ReadInv, DeviceInv, FingerprintOfOneMoment, OneMoment,
                    ConfirmedByteByByte

(* A freshly opened file: nothing was read of it.                          *)
LEMMA OpenedCollects ==
    ASSUME FileTypeOK, open' = Closed(named), moments' = {files[named].bytes},
           files' = files, step' \in {"hash", "check"},
           step' = "hash" => seen' = Stat(named)
    PROVE  /\ open' \in [file : Files, position : Nat, context : Context]
           /\ moments' \in SUBSET Seq(AnyByte) /\ IsFiniteSet(moments')
           /\ files'[open'.file].bytes \in moments'
           /\ <<>> \in Seq(AnyByte) /\ Collected(<<>>)'
<1>1. /\ files[named].bytes \in Seq(AnyByte) /\ files[named].stamp \in Nat /\ named \in Files
  BY DEF FileTypeOK
<1>2. /\ open' \in [file : Files, position : Nat, context : Context]
      /\ open'.file = named /\ open'.position = 0 /\ open'.context = Start
  BY <1>1, ClosedOK
<1>3. moments' \in SUBSET Seq(AnyByte) /\ IsFiniteSet(moments')
  BY <1>1, FS_Singleton
<1>4. step' = "hash" => seen'.file = named /\ seen'.stamp = files[named].stamp
  BY DEF Stat
<1>5. Len(<<>>) = 0 /\ <<>> \in Seq(AnyByte) /\ 0 <= Len(files[named].bytes)
  BY <1>1
<1>6. Collected(<<>>)'
  BY <1>1, <1>2, <1>4, <1>5, StartCtx DEF Collected
<1> QED
  BY <1>1, <1>2, <1>3, <1>5, <1>6

LEMMA OpenForHashInv == HashInv /\ OpenForHash => HashInv'
<1> SUFFICES ASSUME HashInv, OpenForHash, ~Fail PROVE HashInv'
  BY FailInv
<1>1. /\ open' = Closed(named) /\ moments' = {files[named].bytes} /\ files' = files
      /\ named' = named /\ step' = "hash" /\ seen' = Stat(named)
  BY DEF OpenForHash
<1>2. FileTypeOK
  BY DEF HashInv
<1>3. /\ open' \in [file : Files, position : Nat, context : Context]
      /\ moments' \in SUBSET Seq(AnyByte) /\ IsFiniteSet(moments')
      /\ files'[open'.file].bytes \in moments'
      /\ <<>> \in Seq(AnyByte) /\ Collected(<<>>)'
  BY <1>1, <1>2, OpenedCollects
<1>4. FileTypeOK'
  BY <1>1, <1>2, <1>3 DEF FileTypeOK
<1>5. ReadInv'
  BY <1>3 DEF ReadInv
<1> QED
  BY <1>1, <1>4, <1>5 DEF HashInv, DeviceInv, FingerprintOfOneMoment, OneMoment,
                          ConfirmedByteByByte

LEMMA OpenForEraseInv == HashInv /\ OpenForErase => HashInv'
<1> SUFFICES ASSUME HashInv, OpenForErase, ~Fail PROVE HashInv'
  BY FailInv
<1>1. /\ open' = Closed(named) /\ moments' = {files[named].bytes} /\ files' = files
      /\ named' = named /\ step = "inspected" /\ step' = "check" /\ device' = device
  BY DEF OpenForErase
<1>2. FileTypeOK
  BY DEF HashInv
<1>3. /\ open' \in [file : Files, position : Nat, context : Context]
      /\ moments' \in SUBSET Seq(AnyByte) /\ IsFiniteSet(moments')
      /\ files'[open'.file].bytes \in moments'
      /\ <<>> \in Seq(AnyByte) /\ Collected(<<>>)'
  BY <1>1, <1>2, OpenedCollects
<1>4. FileTypeOK'
  BY <1>1, <1>2, <1>3 DEF FileTypeOK
<1>5. ReadInv'
  BY <1>3 DEF ReadInv
<1>6. DeviceInv'
  BY <1>1 DEF HashInv, DeviceInv
<1> QED
  BY <1>1, <1>4, <1>5, <1>6 DEF HashInv, FingerprintOfOneMoment, OneMoment,
                                ConfirmedByteByByte

LEMMA LstatInv == HashInv /\ Lstat => HashInv'
<1> SUFFICES ASSUME HashInv, Lstat PROVE HashInv'
  OBVIOUS
<1>1. /\ step' = "open" /\ files' = files /\ named' = named /\ open' = open
      /\ moments' = moments
  BY DEF Lstat
<1>2. FileTypeOK'
  BY <1>1 DEF HashInv, FileTypeOK
<1> QED
  BY <1>1, <1>2 DEF HashInv, ReadInv, DeviceInv, FingerprintOfOneMoment, OneMoment,
                    ConfirmedByteByByte

(* The times did not change: what was read is what the file holds.         *)
LEMMA EndHashInv == HashInv /\ EndHash => HashInv'
<1> SUFFICES ASSUME HashInv, EndHash, ~Fail PROVE HashInv'
  BY FailInv
<1> DEFINE bytes == files[open.file].bytes
<1>1. /\ step = "compare" /\ Stat(open.file) = seen /\ step' = "inspected"
      /\ device' = [file |-> seen.file, size |-> seen.size, digest |-> Final(open.context)]
      /\ files' = files /\ named' = named /\ open' = open /\ moments' = moments
  BY DEF EndHash, UnchangedSince
<1>2. bytes \in moments /\ moments \subseteq Seq(AnyByte)
  BY <1>1 DEF HashInv, ReadInv, FileTypeOK
<1>3. PICK r \in Seq(AnyByte) : Collected(r)
  BY <1>1 DEF HashInv, ReadInv
<1>4. seen.stamp = files[open.file].stamp /\ seen.size = Len(bytes)
  BY <1>1 DEF Stat
<1>5. IsCtx(open.context, r) /\ Len(r) = Len(bytes) /\ \A i \in 1..Len(r) : r[i] = bytes[i]
  BY <1>1, <1>3, <1>4 DEF Collected
<1>6. r = bytes
  <2> HIDE DEF bytes
  <2>1. bytes \in Seq(AnyByte)
    BY <1>2
  <2> QED
    BY <1>5, <2>1, SeqEqual
<1>7. device'.size = Len(bytes) /\ device'.digest = Digest(bytes)
  BY <1>1, <1>4, <1>5, <1>6, FinalDigest
<1>8. FileTypeOK'
  BY <1>1 DEF HashInv, FileTypeOK
<1>9. DeviceInv' /\ OneMoment'
  BY <1>1, <1>2, <1>7 DEF DeviceInv, OneMoment
<1> QED
  BY <1>1, <1>8, <1>9 DEF HashInv, ReadInv, FingerprintOfOneMoment, ConfirmedByteByByte

(* The digests agree: what was read is what was confirmed.                 *)
LEMMA EndCheckInv == HashInv /\ EndCheck => HashInv'
<1> SUFFICES ASSUME HashInv, EndCheck, ~Fail PROVE HashInv'
  BY FailInv
<1>1. /\ step = "match" /\ Final(open.context) = device.digest /\ step' = "confirmed"
      /\ files' = files /\ named' = named /\ open' = open /\ moments' = moments
      /\ device' = device
  BY DEF EndCheck, reading
<1>2. PICK r \in Seq(AnyByte) : Collected(r)
  BY <1>1 DEF HashInv, ReadInv
<1>3. PICK m \in Seq(AnyByte) : device.size = Len(m) /\ device.digest = Digest(m)
  BY <1>1 DEF HashInv, DeviceInv
<1>4. IsCtx(open.context, r)
  BY <1>2 DEF Collected
<1>5. r = m
  BY <1>1, <1>3, <1>4, FinalDigest, DigestInjective
<1> DEFINE confirmed == [i \in 1..device.size |-> DigestByte(device.digest, i)]
<1>6. confirmed = r /\ device.size = Len(r)
  BY <1>3, <1>5, DigestKeepsBytes
<1>7. /\ \A i \in 1..Len(r) : \E n \in moments : i <= Len(n) /\ n[i] = r[i]
      /\ \E n \in moments : Len(n) <= Len(r)
  BY <1>1, <1>2 DEF Collected
<1>8. FileTypeOK
  BY DEF HashInv
<1>9. ASSUME Cardinality(moments) = 1 PROVE r \in moments
  <2>1. PICK n : moments = {n}
    BY <1>8, <1>9, FS_Singleton DEF FileTypeOK
  <2>2. n \in Seq(AnyByte)
    BY <1>8, <2>1 DEF FileTypeOK
  <2>3. \A i \in 1..Len(r) : i <= Len(n) /\ n[i] = r[i]
    BY <1>7, <2>1
  <2>4. Len(n) = Len(r)
    <3>1. Len(n) \in Nat /\ Len(r) \in Nat /\ Len(n) <= Len(r)
      BY <1>7, <2>1, <2>2
    <3>2. Len(r) # 0 => Len(r) \in 1..Len(r)
      BY <3>1
    <3> QED
      BY <2>3, <3>1, <3>2
  <2>5. n = r
    BY <2>2, <2>3, <2>4, SeqEqual
  <2> QED
    BY <2>1, <2>5
<1>10. ConfirmedByteByByte'
  <2>1. /\ \A i \in 1..device.size : \E n \in moments : i <= Len(n) /\ n[i] = confirmed[i]
        /\ Cardinality(moments) = 1 => confirmed \in moments
    <3> HIDE DEF confirmed
    <3> QED
      BY <1>6, <1>7, <1>9
  <2> QED
    BY <1>1, <2>1 DEF ConfirmedByteByByte
<1>11. FileTypeOK'
  BY <1>1, <1>8 DEF FileTypeOK
<1> QED
  BY <1>1, <1>10, <1>11 DEF HashInv, ReadInv, DeviceInv, FingerprintOfOneMoment,
     OneMoment
(* One piece more, from where the last one ended to where the file ends    *)
(* now; a short one reaches its end.                                       *)
LEMMA ReadPieceInv ==
    ASSUME HashInv, NEW now, NEW next, ReadPiece(now, next),
           \/ now = "hash" /\ next = "compare"
           \/ now = "check" /\ next = "match"
    PROVE  HashInv'
<1> SUFFICES ASSUME ~Fail PROVE HashInv'
  BY FailInv
<1> DEFINE bytes == files[open.file].bytes
           N == Len(bytes)
           p == open.position
           last == IF p + Piece < N THEN p + Piece ELSE N
           piece == SubSeq(bytes, p + 1, last)
<1>1. /\ step = now /\ files' = files /\ named' = named /\ seen' = seen /\ device' = device
      /\ moments' = moments
      /\ open' = [open EXCEPT !.position = @ + Len(piece), !.context = Update(open.context, piece)]
      /\ step' = IF Len(piece) < Piece THEN next ELSE now
  BY DEF ReadPiece
<1>2. FileTypeOK
  BY DEF HashInv
<1>3. /\ bytes \in Seq(AnyByte) /\ N \in Nat /\ p \in Nat /\ Piece \in Nat \ {0}
      /\ bytes \in moments /\ files[open.file].stamp \in Nat
  BY <1>1, <1>2, FileAssumption DEF FileTypeOK, HashInv, ReadInv
<1>4. PICK r \in Seq(AnyByte) : Collected(r)
  BY <1>1 DEF HashInv, ReadInv
<1>5. Len(r) = p /\ IsCtx(open.context, r)
  BY <1>4 DEF Collected
<1> HIDE DEF bytes, p
<1>6. /\ last \in Nat /\ last <= N
      /\ p <= N => p <= last
      /\ last < p + Piece => last = N
  BY <1>3
<1> HIDE DEF N
<1>7. /\ piece \in Seq(AnyByte)
      /\ Len(piece) = IF p + 1 <= last THEN last - p ELSE 0
      /\ \A j \in 1..(last - p) : piece[j] = bytes[p + j]
  <2> HIDE DEF last
  <2>1. \A x \in (p + 1)..last : bytes[x] \in AnyByte
    <3>1. \A x \in (p + 1)..last : x \in 1..N
      BY <1>3, <1>6
    <3> QED
      BY <1>3, <3>1, ElementOfSeq DEF N
  <2>2. p + 1 \in Int /\ last \in Int
    BY <1>3, <1>6
  <2>3. /\ SubSeq(bytes, p + 1, last) \in Seq(AnyByte)
        /\ Len(SubSeq(bytes, p + 1, last)) = IF p + 1 <= last THEN last - (p + 1) + 1 ELSE 0
        /\ \A j \in 1..(last - (p + 1) + 1) : SubSeq(bytes, p + 1, last)[j] = bytes[(p + 1) + j - 1]
    BY <2>1, <2>2, SubSeqProperties
  <2>4. last - (p + 1) + 1 = last - p /\ \A j \in 1..(last - p) : (p + 1) + j - 1 = p + j
    BY <1>3, <1>6
  <2> QED
    BY <2>3, <2>4
<1> HIDE DEF piece
<1>8. PICK R \in Seq(AnyByte) :
        /\ R = r \o piece /\ Len(R) = p + Len(piece)
        /\ \A j \in 1..p : R[j] = r[j]
        /\ \A j \in 1..Len(piece) : R[p + j] = piece[j]
  <2>1. /\ r \o piece \in Seq(AnyByte) /\ Len(r \o piece) = Len(r) + Len(piece)
        /\ \A j \in 1..Len(r) : (r \o piece)[j] = r[j]
        /\ \A j \in 1..Len(piece) : (r \o piece)[Len(r) + j] = piece[j]
    BY <1>7, Joined
  <2> QED
    BY <1>5, <2>1
<1>9. IsCtx(Update(open.context, piece), R)
  BY <1>5, <1>7, <1>8, UpdateCtx
<1>10. /\ open' \in [file : Files, position : Nat, context : Context]
       /\ open'.file = open.file /\ open'.position = Len(R)
       /\ open'.context = Update(open.context, piece)
  <2>1. Update(open.context, piece) \in Context /\ Len(piece) \in Nat
    BY <1>7, <1>9 DEF IsCtx
  <2>2. open.position + Len(piece) \in Nat /\ open.position + Len(piece) = Len(R)
    BY <1>3, <1>8, <2>1 DEF p
  <2> QED
    BY <1>1, <1>2, <2>1, <2>2 DEF FileTypeOK
(* Where the bytes behind r come from.                                     *)
<1>11. ASSUME NEW i \in 1..Len(R), i \notin 1..p PROVE i <= N /\ R[i] = bytes[i]
  <2>1. Len(piece) \in Nat
    BY <1>7
  <2>2. i - p \in 1..Len(piece) /\ p + (i - p) = i
    BY <1>3, <1>8, <1>11, <2>1
  <2>3. Len(piece) = last - p /\ p + 1 <= last
    <3> HIDE DEF last
    <3> QED
      BY <1>7, <2>2
  <2> HIDE DEF last
  <2>4. i - p \in 1..(last - p)
    BY <2>2, <2>3
  <2>5. i <= N
    BY <1>3, <1>6, <2>3, <2>4
  <2> QED
    BY <1>7, <1>8, <2>2, <2>4, <2>5
<1>12. \A i \in 1..Len(R) : \E m \in moments : i <= Len(m) /\ m[i] = R[i]
  <2> TAKE i \in 1..Len(R)
  <2>1. CASE i \in 1..p
    BY <1>4, <1>5, <1>8, <2>1 DEF Collected
  <2>2. CASE i \notin 1..p
    BY <1>3, <1>11, <2>2 DEF N
  <2> QED
    BY <2>1, <2>2
(* A short piece ends where the file ends now, or earlier than r.          *)
<1>13. /\ Len(piece) < Piece => N <= Len(R)
       /\ p <= N => Len(R) <= N /\ (Len(piece) < Piece => Len(R) = N)
  <2>1. CASE p + 1 <= last
    <3>1. Len(piece) = last - p /\ Len(R) = last
      <4> HIDE DEF last
      <4> QED
        BY <1>3, <1>6, <1>7, <1>8, <2>1
    <3> HIDE DEF last
    <3> QED
      BY <1>3, <1>6, <3>1
  <2>2. CASE ~(p + 1 <= last)
    <3>1. Len(piece) = 0 /\ Len(R) = p
      <4> HIDE DEF last
      <4> QED
        BY <1>3, <1>6, <1>7, <1>8, <2>2
    <3> HIDE DEF last
    <3>2. last <= p /\ last < p + Piece
      BY <1>3, <1>6, <2>2
    <3> QED
      BY <1>3, <1>6, <3>1, <3>2
  <2> QED
    BY <2>1, <2>2
<1>14. step' \in {"compare", "match"} => \E m \in moments : Len(m) <= Len(R)
  BY <1>1, <1>3, <1>13 DEF N
<1>15. ASSUME step' \in {"hash", "compare"}
       PROVE  /\ seen.file = open.file /\ seen.stamp \in 0..files[open.file].stamp
              /\ seen.stamp = files[open.file].stamp =>
                   /\ Len(R) <= N /\ \A i \in 1..Len(R) : R[i] = bytes[i]
                   /\ step' = "compare" => Len(R) = N
  <2>1. step = "hash" /\ (step' = "compare" => Len(piece) < Piece)
    BY <1>1, <1>15
  <2>2. /\ seen.file = open.file /\ seen.stamp \in 0..files[open.file].stamp
        /\ seen.stamp = files[open.file].stamp =>
             p <= N /\ \A i \in 1..p : r[i] = bytes[i]
    BY <1>4, <1>5, <2>1 DEF Collected, bytes, N
  <2>3. ASSUME seen.stamp = files[open.file].stamp, NEW i \in 1..Len(R) PROVE R[i] = bytes[i]
    BY <1>8, <1>11, <2>2, <2>3
  <2> QED
    BY <1>13, <2>1, <2>2, <2>3
<1>16. Collected(R)'
  <2>1. files'[open'.file].bytes = bytes /\ files'[open'.file].stamp = files[open.file].stamp
        /\ seen' = seen /\ moments' = moments /\ open'.file = open.file
    BY <1>1, <1>10 DEF bytes
  <2>2. Len(R) = open'.position /\ IsCtx(open'.context, R)
    BY <1>9, <1>10
  <2>3. \A i \in 1..Len(R) : \E m \in moments' : i <= Len(m) /\ m[i] = R[i]
    BY <1>12, <2>1
  <2>4. step' \in {"compare", "match"} => \E m \in moments' : Len(m) <= Len(R)
    BY <1>14, <2>1
  <2>5. step' \in {"hash", "compare"} =>
          /\ seen'.file = open'.file /\ seen'.stamp \in 0..files'[open'.file].stamp
          /\ seen'.stamp = files'[open'.file].stamp =>
               /\ Len(R) <= Len(files'[open'.file].bytes)
               /\ \A i \in 1..Len(R) : R[i] = files'[open'.file].bytes[i]
               /\ step' = "compare" => Len(R) = Len(files'[open'.file].bytes)
    BY <1>15, <2>1 DEF N
  <2> QED
    BY <2>2, <2>3, <2>4, <2>5 DEF Collected
<1>17. FileTypeOK'
  BY <1>1, <1>2, <1>10 DEF FileTypeOK
<1>18. ReadInv'
  <2>1. files'[open'.file].bytes \in moments'
    BY <1>1, <1>3, <1>10 DEF bytes
  <2> QED
    BY <1>8, <1>16, <2>1 DEF ReadInv
<1>19. DeviceInv'
  BY <1>1 DEF HashInv, DeviceInv
<1>20. step' \in {"hash", "compare", "check", "match"}
  BY <1>1
<1> QED
  BY <1>17, <1>18, <1>19, <1>20 DEF HashInv, FingerprintOfOneMoment, OneMoment,
                                    ConfirmedByteByByte

(* Another program writes: the times of the file change, and what it held  *)
(* stays among the contents that it had.                                   *)
LEMMA SetBytesInv ==
    ASSUME HashInv, NEW f \in Files, NEW bytes \in Seq(AnyByte), Busy, SetBytes(f, bytes)
    PROVE  HashInv'
<1>1. /\ files' = [files EXCEPT ![f] = [bytes |-> bytes, stamp |-> @.stamp + 1]]
      /\ moments' = IF f = open.file /\ moments # {} THEN moments \cup {bytes} ELSE moments
      /\ step' = step /\ named' = named /\ seen' = seen /\ open' = open /\ device' = device
  BY DEF SetBytes, reading
<1>2. FileTypeOK /\ step # "confirmed"
  BY DEF HashInv, Busy
<1>3. /\ files[f].stamp \in Nat /\ open.file \in Files
      /\ files'[f].bytes = bytes /\ files'[f].stamp = files[f].stamp + 1
      /\ \A g \in Files \ {f} : files'[g] = files[g]
  BY <1>1, <1>2 DEF FileTypeOK
<1>4. FileTypeOK'
  <2>1. moments' \in SUBSET Seq(AnyByte) /\ IsFiniteSet(moments')
    BY <1>1, <1>2, FS_AddElement DEF FileTypeOK
  <2>2. files' \in [Files -> [bytes : Seq(AnyByte), stamp : Nat]]
    <3>1. [bytes |-> bytes, stamp |-> files[f].stamp + 1] \in [bytes : Seq(AnyByte), stamp : Nat]
      BY <1>3
    <3> QED
      BY <1>1, <1>2, <3>1 DEF FileTypeOK
  <2> QED
    BY <1>1, <1>2, <2>1, <2>2 DEF FileTypeOK
<1>5. moments \subseteq moments'
  BY <1>1
<1>6. ReadInv'
  <2> SUFFICES ASSUME step \in {"hash", "compare", "check", "match"}
               PROVE  /\ files'[open.file].bytes \in moments'
                      /\ \E r \in Seq(AnyByte) : Collected(r)'
    BY <1>1 DEF ReadInv
  <2>1. files[open.file].bytes \in moments
    BY DEF HashInv, ReadInv
  <2>2. files'[open.file].bytes \in moments'
    BY <1>1, <1>3, <2>1
  <2>3. PICK r \in Seq(AnyByte) : Collected(r)
    BY DEF HashInv, ReadInv
  <2>4. CASE f = open.file
    <3>1. step \in {"hash", "compare"} =>
            seen.stamp \in 0..files'[open.file].stamp /\ seen.stamp # files'[open.file].stamp
      <4>1. step \in {"hash", "compare"} => seen.stamp \in 0..files[f].stamp
        BY <2>3, <2>4 DEF Collected
      <4> QED
        BY <1>3, <2>4, <4>1
    <3> QED
      BY <1>1, <1>5, <2>2, <2>3, <3>1 DEF Collected
  <2>5. CASE f # open.file
    <3>1. files'[open.file] = files[open.file]
      BY <1>3, <2>5
    <3> QED
      BY <1>1, <1>5, <2>2, <2>3, <3>1 DEF Collected
  <2> QED
    BY <2>4, <2>5
<1>7. DeviceInv'
  BY <1>1 DEF HashInv, DeviceInv
<1>8. OneMoment'
  BY <1>1, <1>5 DEF HashInv, FingerprintOfOneMoment, OneMoment
<1> QED
  BY <1>1, <1>2, <1>4, <1>6, <1>7, <1>8 DEF HashInv, FingerprintOfOneMoment,
     ConfirmedByteByByte

LEMMA WritesInv ==
    ASSUME HashInv, NEW f \in Files, Overwrite(f) \/ Shorten(f)
    PROVE  HashInv'
<1> DEFINE bytes == files[f].bytes
           N == Len(bytes)
<1>1. bytes \in Seq(AnyByte) /\ N \in Nat /\ Byte \in AnyByte
  BY FileAssumption DEF HashInv, FileTypeOK
<1>2. CASE Overwrite(f)
  <2>1. PICK i \in 1..(N + 1) :
          SetBytes(f, [j \in 1..(IF i > N THEN i ELSE N) |-> IF j = i THEN Byte ELSE bytes[j]])
    BY <1>2 DEF Overwrite
  <2> DEFINE n == IF i > N THEN i ELSE N
             new == [j \in 1..n |-> IF j = i THEN Byte ELSE bytes[j]]
  <2> HIDE DEF N, bytes
  <2>2. n \in Nat /\ \A j \in 1..n : j # i => j \in 1..N
    BY <1>1
  <2> HIDE DEF n
  <2>3. \A j \in 1..n : j # i => bytes[j] \in AnyByte
    BY <1>1, <2>2, ElementOfSeq DEF N
  <2>4. new \in [1..n -> AnyByte]
    BY <1>1, <2>3
  <2>5. new \in Seq(AnyByte)
    BY <2>2, <2>4, SeqDef
  <2>6. SetBytes(f, new)
    BY <2>1 DEF n
  <2> HIDE DEF new
  <2> QED
    BY <1>2, <2>5, <2>6, SetBytesInv DEF Overwrite
<1>3. CASE Shorten(f)
  <2>1. Front(bytes) \in Seq(AnyByte)
    <3> HIDE DEF bytes
    <3>1. \A x \in 1..(N - 1) : bytes[x] \in AnyByte
      BY <1>1, ElementOfSeq
    <3>2. 1 \in Int /\ N - 1 \in Int
      BY <1>1
    <3> QED
      BY <1>1, <3>1, <3>2, SubSeqProperties DEF Front
  <2> QED
    BY <1>3, <2>1, SetBytesInv DEF Shorten
<1> QED
  BY <1>2, <1>3

LEMMA RenameInv == HashInv /\ Rename => HashInv'
<1> SUFFICES ASSUME HashInv, Rename PROVE HashInv'
  OBVIOUS
<1>1. /\ step' = step /\ files' = files /\ open' = open /\ moments' = moments
      /\ seen' = seen /\ device' = device /\ named' \in Files
  BY DEF Rename, reading
<1>2. FileTypeOK'
  BY <1>1 DEF HashInv, FileTypeOK
<1>3. ReadInv'
  BY <1>1 DEF HashInv, ReadInv, Collected
<1> QED
  BY <1>1, <1>2, <1>3 DEF HashInv, DeviceInv, FingerprintOfOneMoment, OneMoment,
                          ConfirmedByteByByte

(* The inspection of a file, and of a block device, keeps HashInv.         *)
THEOREM FingerprintInvariant == InspectSpec => []HashInv
<1>1. InspectInit => HashInv
  BY HashInitInv
<1>2. HashInv /\ [InspectNext]_<<vars, fileVars>> => HashInv'
  <2> SUFFICES ASSUME HashInv, [InspectNext]_<<vars, fileVars>> PROVE HashInv'
    OBVIOUS
  <2>1. CASE HashNext
    <3>1. CASE Lstat \/ OpenForHash \/ EndHash \/ OpenForErase \/ EndCheck \/ Rename
      BY <3>1, LstatInv, OpenForHashInv, EndHashInv, OpenForEraseInv, EndCheckInv,
         RenameInv
    <3>2. CASE ReadPiece("hash", "compare") \/ ReadPiece("check", "match")
      BY <3>2, ReadPieceInv
    <3>3. CASE \E f \in Files : Overwrite(f) \/ Shorten(f)
      BY <3>3, WritesInv
    <3> QED
      BY <2>1, <3>1, <3>2, <3>3 DEF HashNext
  <2>2. CASE UNCHANGED fileVars
    <3>1. /\ step' = step /\ files' = files /\ named' = named /\ open' = open
          /\ moments' = moments /\ seen' = seen /\ device' = device
      BY <2>2 DEF fileVars
    <3>2. FileTypeOK'
      BY <3>1 DEF HashInv, FileTypeOK
    <3>3. ReadInv'
      BY <3>1 DEF HashInv, ReadInv, Collected
    <3> QED
      BY <3>1, <3>2, <3>3 DEF HashInv, DeviceInv, FingerprintOfOneMoment, OneMoment,
                              ConfirmedByteByByte
  <2> QED
    BY <2>1, <2>2 DEF InspectNext
<1> QED
  BY <1>1, <1>2, PTL DEF InspectSpec

(* The fingerprint of a regular file is the digest of one content that the *)
(* file had as a whole, and what the erasure confirms was in the open file *)
(* byte by byte, at every length and whatever is written meanwhile         *)
(* (hash_regular_file, validate_regular_content, dfx_sha256_final).        *)
THEOREM FingerprintAlwaysOneMoment == InspectSpec => []FingerprintOfOneMoment
<1>1. HashInv => FingerprintOfOneMoment
  BY DEF HashInv
<1> QED
  BY <1>1, FingerprintInvariant, PTL
=============================================================================
