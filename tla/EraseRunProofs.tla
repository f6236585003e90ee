--------------------------- MODULE EraseRunProofs ---------------------------
(***************************************************************************)
(* Safety of one run of `diskpurge erase`, for every number of media, every*)
(* size and chunk length, and every number of interferences: renames, swaps*)
(* of disks, foreign writes, mounts.                                       *)
(*                                                                         *)
(* RunInv says of each place of the run what is settled there: that        *)
(* nothing is modified before the start is announced, whose bytes the      *)
(* descriptor reaches, whether the confirmed content is still there, and   *)
(* how far the bytes are zeroed, synchronised and read back.               *)
(***************************************************************************)
EXTENDS EraseRun, TLAPS

-----------------------------------------------------------------------------
(* What clear-zero writes and what verify_zero reads back, for every size  *)
(* of medium and of chunk: TLC runs them on one medium.                    *)

(* Division rounds down.                                                   *)
LEMMA DivisionFacts ==
    ASSUME NEW n \in Nat, NEW d \in Nat \ {0}
    PROVE  /\ n \div d \in Nat /\ (n % d) \in 0..(d - 1)
           /\ n = d * (n \div d) + (n % d)
  BY SMT

LEMMA ProductMonotone ==
    ASSUME NEW a \in Nat, NEW b \in Nat, NEW d \in Nat, a < b
    PROVE  a * d \in Nat /\ a * d + d <= b * d
  BY SMT

(* A piece that begins inside the medium is not empty, no longer than a    *)
(* chunk and ends inside the medium: the loop of dfx_run_job ends, and     *)
(* never writes behind size_bytes, whatever the last chunk.                *)
THEOREM PieceInside ==
    ASSUME NEW size \in Nat, NEW position \in Nat, position < size,
           NEW chunk \in Nat \ {0}
    PROVE  /\ Wanted(size, position, chunk) \in 1..chunk
           /\ position + Wanted(size, position, chunk) <= size
           /\ Piece(size, position, chunk) \subseteq 0..(size - 1)
           /\ \A b \in 0..(size - 1) :
                b < position + Wanted(size, position, chunk) =>
                    b < position \/ b \in Piece(size, position, chunk)
  BY DEF Wanted, Piece

(* A round reads the bytes of the medium that its chunk holds.             *)
LEMMA ReadMembers ==
    ASSUME NEW size \in Nat, NEW full \in BOOLEAN, NEW index \in Nat, NEW p \in Nat,
           PositionOf(size, full, index) = p
    PROVE  /\ ReadIn(size, full, index) \subseteq 0..(size - 1)
           /\ \A b \in 0..(size - 1) :
                b \in ReadIn(size, full, index) <=> p <= b /\ b < p + ReadBytes
<1>1. ReadBytes \in Nat /\ ReadBytes > 0
  BY ChunkAssumption
<1>2. CASE p >= size
  <2>1. ReadIn(size, full, index) = {}
    BY <1>2 DEF ReadIn
  <2>2. ~\E b \in 0..(size - 1) : p <= b
    BY <1>2
  <2> QED
    BY <2>1, <2>2
<1>3. CASE p < size
  <2>1. ReadIn(size, full, index) = Piece(size, p, ReadBytes)
    BY <1>3 DEF ReadIn
  <2>2. CASE size - p < ReadBytes
    <3>1. Wanted(size, p, ReadBytes) = size - p
      BY <2>2 DEF Wanted
    <3>2. Piece(size, p, ReadBytes) = p..(size - 1)
      <4>1. p + (size - p) - 1 = size - 1
        OBVIOUS
      <4> QED
        BY <3>1, <4>1 DEF Piece
    <3> QED
      BY <1>1, <1>3, <2>1, <2>2, <3>2
  <2>3. CASE ~(size - p < ReadBytes)
    <3>1. Piece(size, p, ReadBytes) = p..(p + ReadBytes - 1)
      BY <2>3 DEF Wanted, Piece
    <3> QED
      BY <1>1, <1>3, <2>1, <2>3, <3>1
  <2> QED
    BY <2>2, <2>3
<1> QED
  BY <1>2, <1>3

(* The rounds of a full verification are as many as begin inside.          *)
LEMMA RoundBegins ==
    ASSUME NEW size \in Nat, NEW b \in 0..(size - 1)
    PROVE  /\ b \div ReadBytes + 1 \in 1..Rounds(size, TRUE)
           /\ b \in ReadIn(size, TRUE, b \div ReadBytes + 1)
<1> DEFINE k == b \div ReadBytes
           whole == size \div ReadBytes
           rounds == Rounds(size, TRUE)
<1>1. ReadBytes \in Nat /\ ReadBytes > 0
  BY ChunkAssumption
<1>2. k \in Nat /\ k * ReadBytes <= b /\ b < k * ReadBytes + ReadBytes
  <2>1. k \in Nat /\ (b % ReadBytes) \in 0..(ReadBytes - 1)
        /\ b = ReadBytes * k + (b % ReadBytes)
    BY <1>1, DivisionFacts
  <2> QED
    BY <1>1, <2>1
<1>3. whole \in Nat /\ (size % ReadBytes) \in 0..(ReadBytes - 1)
      /\ size = whole * ReadBytes + (size % ReadBytes)
  <2>1. whole \in Nat /\ (size % ReadBytes) \in 0..(ReadBytes - 1)
        /\ size = ReadBytes * whole + (size % ReadBytes)
    BY <1>1, DivisionFacts
  <2> QED
    BY <1>1, <2>1
<1> HIDE DEF k, whole
<1>4. k <= whole
  <2>1. SUFFICES ASSUME whole < k PROVE FALSE
    BY <1>2, <1>3
  <2>2. whole * ReadBytes + ReadBytes <= k * ReadBytes
    BY <1>1, <1>2, <1>3, <2>1, ProductMonotone
  <2> QED
    BY <1>1, <1>2, <1>3, <2>2
<1>5. size % ReadBytes = 0 => k < whole
  BY <1>1, <1>2, <1>3, <1>4
<1>6. rounds = whole + (IF size % ReadBytes # 0 THEN 1 ELSE 0)
  BY DEF Rounds, whole
<1> HIDE DEF rounds
<1>7. k + 1 \in 1..rounds
  <2>1. CASE size % ReadBytes = 0
    <3>1. rounds = whole
      BY <1>3, <1>6, <2>1
    <3> QED
      BY <1>2, <1>3, <1>5, <2>1, <3>1
  <2>2. CASE size % ReadBytes # 0
    <3>1. rounds = whole + 1
      BY <1>6, <2>2
    <3> QED
      BY <1>2, <1>3, <1>4, <3>1
  <2> QED
    BY <2>1, <2>2
<1>8. PositionOf(size, TRUE, k + 1) = k * ReadBytes
  BY <1>1, <1>2 DEF PositionOf
<1>9. b \in ReadIn(size, TRUE, k + 1)
  <2>1. k * ReadBytes \in Nat
    BY <1>1, <1>2
  <2>2. k + 1 \in Nat
    BY <1>2
  <2>3. b \in ReadIn(size, TRUE, k + 1) <=>
          k * ReadBytes <= b /\ b < k * ReadBytes + ReadBytes
    BY <1>8, <2>1, <2>2, ReadMembers
  <2> QED
    BY <1>2, <2>3
<1> QED
  BY <1>7, <1>9 DEF k, rounds

(* No round reads outside the medium.                                      *)
LEMMA ReadInside ==
    ASSUME NEW size \in Nat, NEW full \in BOOLEAN, NEW index \in Nat \ {0}
    PROVE  ReadIn(size, full, index) \subseteq 0..(size - 1)
<1>1. PositionOf(size, full, index) \in Nat
  <2>1. CASE full
    <3>1. PositionOf(size, full, index) = (index - 1) * ReadBytes
      BY <2>1 DEF PositionOf
    <3>2. index - 1 \in Nat /\ ReadBytes \in Nat
      BY ChunkAssumption
    <3> QED
      BY <3>1, <3>2
  <2>2. CASE ~full
    <3>1. size \div 2 \in Nat
      BY DivisionFacts
    <3> QED
      BY <2>2, <3>1, ChunkAssumption DEF PositionOf, SampleAt
  <2> QED
    BY <2>1, <2>2
<1> QED
  BY <1>1, ReadMembers

LEMMA ReadsInside ==
    ASSUME NEW size \in Nat, NEW full \in BOOLEAN
    PROVE  ReadsOf(size, full) \subseteq 0..(size - 1)
<1>1. Rounds(size, full) \in Nat
  <2>1. size \div ReadBytes \in Nat
    BY DivisionFacts, ChunkAssumption
  <2> QED
    BY <2>1 DEF Rounds
<1>2. ASSUME NEW index \in 1..Rounds(size, full)
      PROVE  ReadIn(size, full, index) \subseteq 0..(size - 1)
  <2>1. index \in Nat \ {0}
    BY <1>1
  <2> QED
    BY <2>1, ReadInside
<1> QED
  BY <1>2 DEF ReadsOf

(* --verify full (verify_zero, full): every byte is read, none beyond the  *)
(* end, whether or not the size is a multiple of the chunk.                *)
THEOREM FullReadsEverything ==
    ASSUME NEW size \in Nat
    PROVE  ReadsOf(size, TRUE) = 0..(size - 1)
<1>1. ReadsOf(size, TRUE) \subseteq 0..(size - 1)
  BY ReadsInside
<1>2. 0..(size - 1) \subseteq ReadsOf(size, TRUE)
  BY RoundBegins DEF ReadsOf
<1> QED
  BY <1>1, <1>2

(* The sample in the middle.                                               *)
LEMMA MiddleMembers ==
    ASSUME NEW size \in Nat, NEW b \in 0..(size - 1)
    PROVE  b \in ReadIn(size, FALSE, 2) <=> size \div 2 <= b /\ b < size \div 2 + ReadBytes
<1> DEFINE full == FALSE
           index == 2
<1>1. PositionOf(size, full, index) = size \div 2
  BY DEF PositionOf, SampleAt
<1>2. full \in BOOLEAN /\ index \in Nat /\ size \div 2 \in Nat
  BY SMT
<1> HIDE DEF full, index
<1>3. b \in ReadIn(size, full, index) <=> size \div 2 <= b /\ b < size \div 2 + ReadBytes
  BY <1>1, <1>2, ReadMembers
<1> QED
  BY <1>3 DEF full, index

(* Sampled verification (verify_zero, three positions) reads a chunk at the*)
(* beginning, one in the middle and one at the end, and nothing else.      *)
LEMMA SampleReads ==
    ASSUME NEW size \in Nat
    PROVE  ReadsOf(size, FALSE) = Vouched(size, FALSE)
<1> DEFINE middle == size \div 2
           first == ReadIn(size, FALSE, 1)
           second == ReadIn(size, FALSE, 2)
           third == ReadIn(size, FALSE, 3)
<1>1. ReadBytes \in Nat /\ ReadBytes > 0
  BY ChunkAssumption
<1>2. middle \in Nat
  BY SMT
<1>3. ReadsOf(size, FALSE) = first \cup second \cup third
  <2>1. 1..Rounds(size, FALSE) = {1, 2, 3}
    BY DEF Rounds
  <2> QED
    BY <2>1 DEF ReadsOf
<1>4. \A b \in 0..(size - 1) : b \in first <=> b < ReadBytes
  <2>1. PositionOf(size, FALSE, 1) = 0
    BY DEF PositionOf, SampleAt
  <2>2. \A b \in 0..(size - 1) : b \in first <=> 0 <= b /\ b < 0 + ReadBytes
    BY <2>1, ReadMembers
  <2> HIDE DEF first
  <2> QED
    BY <1>1, <2>2
<1>5. \A b \in 0..(size - 1) : b \in second <=> middle <= b /\ b < middle + ReadBytes
  BY <1>2, MiddleMembers
<1>6. \A b \in 0..(size - 1) : b \in third <=> size <= ReadBytes \/ b >= size - ReadBytes
  <2>1. CASE size > ReadBytes
    <3>1. PositionOf(size, FALSE, 3) = size - ReadBytes /\ size - ReadBytes \in Nat
      BY <1>1, <2>1 DEF PositionOf, SampleAt
    <3>2. \A b \in 0..(size - 1) :
            b \in third <=> size - ReadBytes <= b /\ b < (size - ReadBytes) + ReadBytes
      BY <3>1, ReadMembers
    <3> HIDE DEF third
    <3> QED
      BY <1>1, <2>1, <3>2
  <2>2. CASE ~(size > ReadBytes)
    <3>1. PositionOf(size, FALSE, 3) = 0
      BY <2>2 DEF PositionOf, SampleAt
    <3>2. \A b \in 0..(size - 1) : b \in third <=> 0 <= b /\ b < 0 + ReadBytes
      BY <3>1, ReadMembers
    <3> HIDE DEF third
    <3> QED
      BY <1>1, <2>2, <3>2
  <2> QED
    BY <2>1, <2>2
<1>7. /\ first \subseteq 0..(size - 1) /\ second \subseteq 0..(size - 1)
      /\ third \subseteq 0..(size - 1)
  <2>1. FALSE \in BOOLEAN /\ 1 \in Nat \ {0} /\ 2 \in Nat \ {0} /\ 3 \in Nat \ {0}
    OBVIOUS
  <2>2. first \subseteq 0..(size - 1)
    BY <2>1, ReadInside
  <2>3. second \subseteq 0..(size - 1)
    BY <2>1, ReadInside
  <2>4. third \subseteq 0..(size - 1)
    BY <2>1, ReadInside
  <2> QED
    BY <2>2, <2>3, <2>4
<1>8. Vouched(size, FALSE) =
        {b \in 0..(size - 1) : b < ReadBytes \/ b >= size - ReadBytes
                                 \/ b \in middle..(middle + ReadBytes - 1)}
  BY DEF Vouched
<1> HIDE DEF middle, first, second, third
<1>9. \A b \in 0..(size - 1) :
        b \in first \cup second \cup third <=>
          b < ReadBytes \/ b >= size - ReadBytes \/ b \in middle..(middle + ReadBytes - 1)
  BY <1>1, <1>2, <1>4, <1>5, <1>6
<1> QED
  BY <1>3, <1>7, <1>8, <1>9

(* What SuccessMeansErased takes a success to vouch for is what the        *)
(* verification has read, byte for byte, in either mode.                   *)
THEOREM VouchedIsRead ==
    ASSUME NEW size \in Nat, NEW full \in BOOLEAN
    PROVE  Vouched(size, full) = ReadsOf(size, full)
<1>1. CASE full
  <2>1. Vouched(size, TRUE) = 0..(size - 1)
    BY DEF Vouched
  <2> QED
    BY <1>1, <2>1, FullReadsEverything
<1>2. CASE ~full
  BY <1>2, SampleReads
<1> QED
  BY <1>1, <1>2

(* Of a medium of at most two chunks sampling leaves nothing out: the      *)
(* virtual disks of the demonstrations are read whole.                     *)
THEOREM SmallMediaWhole ==
    ASSUME NEW size \in Nat, size <= 2 * ReadBytes, NEW full \in BOOLEAN
    PROVE  ReadsOf(size, full) = 0..(size - 1)
<1>1. ReadBytes \in Nat /\ ReadBytes > 0
  BY ChunkAssumption
<1>2. \A b \in 0..(size - 1) : b < ReadBytes \/ b >= size - ReadBytes
  BY <1>1
<1>3. Vouched(size, full) = 0..(size - 1)
  BY <1>2 DEF Vouched
<1> QED
  BY <1>3, VouchedIsRead

-----------------------------------------------------------------------------
Engaged == {"check", "write", "sync", "verify", "close"}  \* the target is open
Writing == Engaged \ {"check"}
Early == {"inspect", "prepare", "validate", "start"}
Untouched == Early \cup {"reinspect", "open", "check", "native"}

(* A hard disk may have been swapped behind the second inspection.         *)
Swappable == job.kind = "hdd" /\ swapped

(* The run will report a success, or has.                                  *)
Won == pc = "observe" \/ (pc = "record" /\ result = 0) \/ code = 0

(* Where the run stands, and what that says of its own variables.          *)
PlaceInv ==
    /\ pc \in {"open"} \cup Engaged => job.kind # "nvme"
    /\ pc = "native" => job.kind = "nvme"
    /\ IF pc \in Engaged THEN fd \in Media ELSE fd = Nothing
    /\ pc = "inspect" => snap.medium = Nothing
    /\ pc \notin {"inspect", "exit", "dead"} => snap.medium \in Media
    /\ pc \in Untouched => touched = {} /\ \A m \in Media : dirty[m] = {}
    /\ pc = "write" => next < Size
    /\ code # -1 => pc = "exit"

(* What the verdict rests on.                                              *)
VerdictInv ==
    /\ job.kind # "nvme" => status = NoStatus
    /\ pc = "observe" => result = 0
    /\ pc = "reobserve" => result # 0
    /\ Won /\ job.kind = "nvme" => status.source = "log" /\ status.state \in Done
    /\ pc = "record" /\ result = 0 => observed
    /\ code = 0 => observed /\ (job.audit => \E r \in log : r.status = "reussi" /\ r.observed)

(* Behind the start, the start was announced.                              *)
AnnouncedInv ==
    /\ pc = "start" => (Physical => job.audit)
    /\ pc \notin Early \cup {"exit", "dead"} => "en_cours" \in told
    /\ touched # {} => "en_cours" \in told
    /\ "en_cours" \in told =>
         /\ Physical => job.audit
         /\ job.audit => \E r \in log : r.status = "en_cours"

(* The open descriptor is the confirmed target, and nobody else's.         *)
TargetInv ==
    /\ ~Swappable =>
         /\ touched \subseteq {snap.medium}
         /\ pc \in Writing => fd = snap.medium
         /\ job.kind = "hdd" /\ pc \in {"open", "check"} => path = snap.medium
         /\ job.kind = "hdd" /\ pc = "check" => fd = snap.medium
    /\ Physical /\ fd \in Media => fd \notin held

(* Foreign bytes do not turn back before the run writes: a content that    *)
(* was altered stays different from the confirmed one.                     *)
ContentInv ==
    /\ pc = "inspect" => ~altered
    /\ pc \in BeforeWriting =>
         /\ \A b \in Bytes : snap.content[b] = "other" => data[snap.medium][b] = "other"
         /\ altered => \E b \in Bytes : /\ data[snap.medium][b] = "other"
                                        /\ snap.content[b] # "other"
    /\ job.kind = "file" /\ altered => pc \notin Writing /\ touched = {}

(* How far the bytes of the target are zeroed, synchronised, read back.    *)
ErasedInv == ~Swappable =>
    /\ pc = "write" => \A b \in Bytes : b < next => b \in dirty[snap.medium] \cup rewritten
    /\ pc = "sync" => next = 1 /\ \A b \in Bytes : b \in dirty[snap.medium] \cup rewritten
    /\ pc \in {"verify", "close"} => dirty[snap.medium] = {}
    /\ job.kind # "nvme" /\ (pc \in {"verify", "close"} \/ Won) =>
         \A b \in Bytes : data[snap.medium][b] = "zero" \/ b \in bad \cup rewritten
    /\ pc = "verify" =>
         \A b \in Bytes : ReadBefore(b, next) => data[snap.medium][b] = "zero" \/ b \in stained
    /\ pc = "close" \/ Won =>
         \A b \in Bytes : job.kind = "nvme" \/ b \in Vouched(Size, job.full) =>
            data[snap.medium][b] = "zero" \/ b \in stained

RunInv ==
    TypeOK /\ PlaceInv /\ VerdictInv /\ AnnouncedInv /\ TargetInv /\ ContentInv /\ ErasedInv

-----------------------------------------------------------------------------
(* Types.                                                                  *)

(* What is read through the cache is a content.                            *)
LEMMA ViewType == TypeOK => \A m \in Media : View(m) \in Contents
  BY DEF TypeOK, View, Contents

(* The outcomes of a native purge are results and statuses.                *)
LEMMA OutcomeType ==
    /\ Outcomes \subseteq {0, -1, Indeterminate} \X Status
    /\ NoStatus \in Status
  BY DEF Outcomes, Logged, Status, NoStatus, Refused, Done, LogState, Never, Success,
     InProgress, Failed, SuccessNoDealloc, Reserved, Indeterminate

(* A synchronised medium keeps its type.                                   *)
LEMMA FlushType ==
    ASSUME TypeOK, NEW m \in Media, NEW bytes, Flush(m, bytes)
    PROVE  data' \in [Media -> Contents] /\ dirty' \in [Media -> SUBSET Bytes]
  <1>1. [b \in Bytes |-> IF b \in bytes \ bad THEN "zero" ELSE data[m][b]] \in Contents
    BY DEF TypeOK, Contents
  <1>2. data' \in [Media -> Contents]
    BY <1>1 DEF Flush, TypeOK
  <1>3. dirty' \in [Media -> SUBSET Bytes]
    BY DEF Flush, TypeOK
  <1> QED
    BY <1>2, <1>3

(* The records and statuses a write leaves are well typed.                 *)
LEMMA WriteType ==
    ASSUME TypeOK, NEW w \in {"refuse", "en_cours", "reussi", "echoue", "indetermine"},
           Written(w) \/ WriteFails(w)
    PROVE  log' \subseteq Record /\ told' \subseteq {"refuse", "en_cours", "reussi", "echoue", "indetermine"}
  <1>1. RecordFor(w) \in Record
    BY DEF RecordFor, Record, TypeOK
  <1>2. log' = log \/ log' = log \cup {RecordFor(w)}
    BY DEF Written, WriteFails
  <1>3. told' = told \/ told' = told \cup {w}
    BY DEF Written, WriteFails
  <1> QED
    BY <1>1, <1>2, <1>3 DEF TypeOK

(* The chunk to write is inside the medium, and its end is a position.     *)
LEMMA ChunkType ==
    ASSUME TypeOK, next < Size
    PROVE  /\ Chunk \subseteq Bytes
           /\ next + Wanted(Size, next, WriteBytes) \in Nat
           /\ next < next + Wanted(Size, next, WriteBytes)
           /\ \A b \in Bytes : b < next + Wanted(Size, next, WriteBytes) => b < next \/ b \in Chunk
  <1>1. /\ Wanted(Size, next, WriteBytes) \in 1..WriteBytes
        /\ Piece(Size, next, WriteBytes) \subseteq 0..(Size - 1)
    BY PieceInside, EraseAssumption, ChunkAssumption DEF TypeOK
  <1>2. next \in Nat /\ Wanted(Size, next, WriteBytes) \in Nat \ {0}
    BY <1>1, ChunkAssumption DEF TypeOK
  <1>3. \A b \in Bytes : b < next + Wanted(Size, next, WriteBytes) => b < next \/ b \in Chunk
    BY <1>2, EraseAssumption DEF Chunk, Piece, Bytes
  <1> QED
    BY <1>1, <1>2, <1>3 DEF Chunk, Bytes

(* There are as many rounds as a natural number says.                      *)
LEMMA RoundsType == TypeOK => Rounds(Size, job.full) \in Nat
  <1>1. Size \div ReadBytes \in Nat
    BY DivisionFacts, EraseAssumption, ChunkAssumption
  <1> QED
    BY <1>1 DEF Rounds

(* The initial types.                                                      *)
LEMMA TypeInit == Init => TypeOK
  <1> SUFFICES ASSUME Init PROVE TypeOK
    OBVIOUS
  <1>1. [b \in Bytes |-> "old"] \in Contents
    BY DEF Contents
  <1> QED
    BY <1>1, OutcomeType DEF Init, TypeOK, Snapshot

(* Every step keeps the types.                                             *)
LEMMA TypeStep == TypeOK /\ PlaceInv /\ [Next]_vars => TypeOK'
  <1> SUFFICES ASSUME TypeOK, PlaceInv, [Next]_vars PROVE TypeOK'
    OBVIOUS
  <1> USE DEF TypeOK, run, medium, world, history, budget, Exit, Finish, Continue
  <1>1. CASE InspectTarget
    <2>1. path # Nothing => [medium |-> path, content |-> View(path), held |-> path \in held] \in Snapshot
      BY ViewType DEF Snapshot
    <2> QED
      BY <1>1, <2>1 DEF InspectTarget
  <1>2. CASE PrepareRun
    BY <1>2 DEF PrepareRun
  <1>3. CASE ValidateJob
    BY <1>3 DEF ValidateJob
  <1>4. CASE RefuseJob
    <2>1. log' \subseteq Record /\ told' \subseteq {"refuse", "en_cours", "reussi", "echoue", "indetermine"}
      BY <1>4, WriteType DEF RefuseJob
    <2> QED
      BY <1>4, <2>1 DEF RefuseJob
  <1>5. CASE RecordStart
    <2>1. log' \subseteq Record /\ told' \subseteq {"refuse", "en_cours", "reussi", "echoue", "indetermine"}
      BY <1>5, WriteType DEF RecordStart
    <2> QED
      BY <1>5, <2>1 DEF RecordStart
  <1>6. CASE Reinspect
    BY <1>6 DEF Reinspect
  <1>7. CASE OpenTarget
    BY <1>7 DEF OpenTarget
  <1>8. CASE CheckDescriptor
    BY <1>8 DEF CheckDescriptor
  <1>9. CASE WriteChunk
    <2>1. fd \in Media /\ Chunk \subseteq Bytes /\ next + Wanted(Size, next, WriteBytes) \in Nat
      BY <1>9, ChunkType DEF WriteChunk, PlaceInv, Engaged
    <2>2. dirty' \in [Media -> SUBSET Bytes] /\ rewritten' \subseteq Bytes /\ touched' \subseteq Media
      BY <1>9, <2>1 DEF WriteChunk, Zeroed
    <2>3. next' \in Nat /\ pc' \in {"write", "sync"}
      BY <1>9, <2>1 DEF WriteChunk
    <2> QED
      BY <1>9, <2>2, <2>3 DEF WriteChunk
  <1>10. CASE WriteChunkFails
    <2>1. fd \in Media /\ Chunk \subseteq Bytes
      BY <1>10, ChunkType DEF WriteChunkFails, PlaceInv, Engaged
    <2>2. dirty' \in [Media -> SUBSET Bytes] /\ rewritten' \subseteq Bytes /\ touched' \subseteq Media
      <3>1. CASE UNCHANGED <<dirty, rewritten, touched>>
        BY <3>1
      <3>2. ASSUME NEW last \in Chunk, Zeroed({b \in Chunk : b <= last})
            PROVE  dirty' \in [Media -> SUBSET Bytes] /\ rewritten' \subseteq Bytes /\ touched' \subseteq Media
        <4>1. {b \in Chunk : b <= last} \subseteq Bytes
          BY <2>1
        <4> QED
          BY <2>1, <3>2, <4>1 DEF Zeroed
      <3> QED
        BY <1>10, <3>1, <3>2 DEF WriteChunkFails
    <2> QED
      BY <1>10, <2>2 DEF WriteChunkFails
  <1>11. CASE StopWriting \/ SyncTarget
    <2>1. fd \in Media
      BY <1>11 DEF StopWriting, SyncTarget, PlaceInv, Engaged
    <2>2. data' \in [Media -> Contents] /\ dirty' \in [Media -> SUBSET Bytes]
      BY <1>11, <2>1, FlushType DEF StopWriting, SyncTarget
    <2> QED
      BY <1>11, <2>2 DEF StopWriting, SyncTarget
  <1>12. CASE VerifyRound
    BY <1>12 DEF VerifyRound
  <1>13. CASE VerifyDone
    BY <1>13 DEF VerifyDone
  <1>14. CASE CloseTarget
    BY <1>14 DEF CloseTarget
  <1>15. CASE RunNative
    <2>1. PICK outcome \in Outcomes :
            /\ (outcome # <<-1, NoStatus>>) => MaySanitize
            /\ Finish(outcome[1]) /\ status' = outcome[2]
            /\ touched' = IF outcome # <<-1, NoStatus>> THEN touched \cup {path} ELSE touched
            /\ IF outcome[1] = 0
               THEN data' = [data EXCEPT ![path] = [b \in Bytes |-> "zero"]]
               ELSE UNCHANGED data
      BY <1>15 DEF RunNative
    <2>2. result' \in {0, -1, Indeterminate} /\ status' \in Status
      BY <2>1, OutcomeType
    <2>3. touched' \subseteq Media
      BY <2>1 DEF MaySanitize, OpensDrive
    <2>4. data' \in [Media -> Contents]
      BY <2>1 DEF Contents
    <2> QED
      BY <1>15, <2>1, <2>2, <2>3, <2>4 DEF RunNative
  <1>16. CASE ObserveIdentity
    BY <1>16 DEF ObserveIdentity
  <1>17. CASE ObserveAgain
    BY <1>17 DEF ObserveAgain
  <1>18. CASE RecordVerdict
    <2>1. Verdict \in {"refuse", "en_cours", "reussi", "echoue", "indetermine"} /\ VerdictCode \in {0, 1, 4}
      BY DEF Verdict, VerdictCode, Indeterminate
    <2>2. log' \subseteq Record /\ told' \subseteq {"refuse", "en_cours", "reussi", "echoue", "indetermine"}
      BY <1>18, <2>1, WriteType DEF RecordVerdict
    <2> QED
      BY <1>18, <2>1, <2>2 DEF RecordVerdict
  <1>19. CASE MovePath
    BY <1>19 DEF MovePath
  <1>20. CASE OtherWrites
    <2>1. PICK m \in Media, b \in Bytes :
            /\ data' = [data EXCEPT ![m][b] = "other"]
            /\ dirty' = [dirty EXCEPT ![m] = dirty[m] \ {b}]
            /\ IF m = snap.medium
               THEN /\ altered' = (altered \/ pc \in BeforeWriting)
                    /\ rewritten' = rewritten \cup {b}
                    /\ stained' = IF pc \in AfterReading \/ (pc = "verify" /\ ReadBefore(b, next))
                                  THEN stained \cup {b} ELSE stained
               ELSE UNCHANGED <<altered, rewritten, stained>>
      BY <1>20 DEF OtherWrites
    <2>2. data' \in [Media -> Contents]
      BY <2>1 DEF Contents
    <2>3. dirty' \in [Media -> SUBSET Bytes]
      BY <2>1
    <2>4. altered' \in BOOLEAN /\ rewritten' \subseteq Bytes /\ stained' \subseteq Bytes
      BY <2>1
    <2> QED
      BY <1>20, <2>2, <2>3, <2>4 DEF OtherWrites
  <1>21. CASE HoldMedium
    BY <1>21 DEF HoldMedium
  <1>22. CASE ReleaseMedium
    BY <1>22 DEF ReleaseMedium
  <1>23. CASE RequestCancel
    <2>1. pc' = "dead" \/ pc' = pc
      BY <1>23 DEF RequestCancel
    <2>2. cancel' \in BOOLEAN
      BY <1>23 DEF RequestCancel
    <2>3. UNCHANGED <<job, snap, fd, next, result, observed, status, log, told, code,
                      medium, world, touched, history, budget>>
      BY <1>23 DEF RequestCancel
    <2> QED
      BY <2>1, <2>2, <2>3
  <1>24. CASE UNCHANGED vars
    BY <1>24 DEF vars
  <1> QED
    BY <1>1, <1>2, <1>3, <1>4, <1>5, <1>6, <1>7, <1>8, <1>9, <1>10, <1>11, <1>12, <1>13, <1>14, <1>15, <1>16, <1>17, <1>18, <1>19, <1>20, <1>21, <1>22, <1>23, <1>24 DEF Next, RunStep, Environment

-----------------------------------------------------------------------------
(* The steps, one invariant at a time.                                     *)

(* A step keeps what the place of the run says of its variables.           *)
LEMMA PlaceStep ==
    ASSUME TypeOK, PlaceInv, [Next]_vars
    PROVE  PlaceInv'
  <1> USE DEF TypeOK, PlaceInv, Engaged, Untouched, Early, run, medium, world, history, budget, Exit, Finish, Continue, Running
  <1>1. CASE InspectTarget
    BY <1>1 DEF InspectTarget
  <1>2. CASE PrepareRun
    BY <1>2 DEF PrepareRun
  <1>3. CASE ValidateJob
    BY <1>3 DEF ValidateJob
  <1>4. CASE RefuseJob
    BY <1>4 DEF RefuseJob
  <1>5. CASE RecordStart
    BY <1>5 DEF RecordStart
  <1>6. CASE Reinspect
    BY <1>6 DEF Reinspect, SameTarget
  <1>7. CASE OpenTarget
    BY <1>7 DEF OpenTarget, MayOpen
  <1>8. CASE CheckDescriptor
    BY <1>8, EraseAssumption DEF CheckDescriptor, DescriptorMatches
  <1>9. CASE WriteChunk
    BY <1>9 DEF WriteChunk, Zeroed
  <1>10. CASE WriteChunkFails
    BY <1>10 DEF WriteChunkFails, Zeroed
  <1>11. CASE StopWriting
    BY <1>11 DEF StopWriting, Flush
  <1>12. CASE SyncTarget
    BY <1>12 DEF SyncTarget, Flush
  <1>13. CASE VerifyRound
    BY <1>13 DEF VerifyRound
  <1>14. CASE VerifyDone
    BY <1>14 DEF VerifyDone
  <1>15. CASE CloseTarget
    BY <1>15 DEF CloseTarget
  <1>16. CASE RunNative
    BY <1>16 DEF RunNative, MaySanitize
  <1>17. CASE ObserveIdentity
    BY <1>17 DEF ObserveIdentity
  <1>18. CASE ObserveAgain
    BY <1>18 DEF ObserveAgain
  <1>19. CASE RecordVerdict
    BY <1>19 DEF RecordVerdict
  <1>20. CASE MovePath
    BY <1>20 DEF MovePath
  <1>21. CASE OtherWrites
    BY <1>21 DEF OtherWrites
  <1>22. CASE HoldMedium
    BY <1>22 DEF HoldMedium
  <1>23. CASE ReleaseMedium
    BY <1>23 DEF ReleaseMedium
  <1>24. CASE RequestCancel
    BY <1>24 DEF RequestCancel
  <1>25. CASE UNCHANGED vars
    BY <1>25 DEF vars
  <1> QED
    BY <1>1, <1>2, <1>3, <1>4, <1>5, <1>6, <1>7, <1>8, <1>9, <1>10, <1>11, <1>12, <1>13, <1>14, <1>15, <1>16, <1>17, <1>18, <1>19, <1>20, <1>21, <1>22, <1>23, <1>24, <1>25 DEF Next, RunStep, Environment

(* A step keeps what the verdict rests on.                                 *)
LEMMA VerdictStep ==
    ASSUME TypeOK, PlaceInv, VerdictInv, [Next]_vars
    PROVE  VerdictInv'
  <1> USE DEF TypeOK, PlaceInv, VerdictInv, Won, Engaged, run, medium, world, history, budget, Exit, Finish, Continue, Running, Indeterminate
  <1>1. CASE InspectTarget
    BY <1>1 DEF InspectTarget
  <1>2. CASE PrepareRun
    BY <1>2 DEF PrepareRun
  <1>3. CASE ValidateJob
    BY <1>3 DEF ValidateJob
  <1>4. CASE RefuseJob
    BY <1>4 DEF RefuseJob
  <1>5. CASE RecordStart
    BY <1>5 DEF RecordStart
  <1>6. CASE Reinspect
    BY <1>6 DEF Reinspect
  <1>7. CASE OpenTarget
    BY <1>7 DEF OpenTarget
  <1>8. CASE CheckDescriptor
    BY <1>8 DEF CheckDescriptor
  <1>9. CASE WriteChunk
    BY <1>9 DEF WriteChunk
  <1>10. CASE WriteChunkFails
    BY <1>10 DEF WriteChunkFails
  <1>11. CASE StopWriting
    BY <1>11 DEF StopWriting
  <1>12. CASE SyncTarget
    BY <1>12 DEF SyncTarget
  <1>13. CASE VerifyRound
    BY <1>13 DEF VerifyRound
  <1>14. CASE VerifyDone
    BY <1>14 DEF VerifyDone
  <1>15. CASE CloseTarget
    BY <1>15 DEF CloseTarget
  <1>16. CASE RunNative
    <2>1. PICK outcome \in Outcomes : Finish(outcome[1]) /\ status' = outcome[2]
      BY <1>16 DEF RunNative
    <2>2. outcome[1] = 0 => outcome[2].source = "log" /\ outcome[2].state \in Done
      BY DEF Outcomes, Logged, Done, Success, SuccessNoDealloc
    <2> QED
      BY <1>16, <2>1, <2>2 DEF RunNative
  <1>17. CASE ObserveIdentity
    BY <1>17 DEF ObserveIdentity
  <1>18. CASE ObserveAgain
    BY <1>18 DEF ObserveAgain
  <1>19. CASE RecordVerdict
    <2>1. CASE code' = 0
      <3>1. Written("reussi") /\ result = 0 /\ observed
        BY <1>19, <2>1 DEF RecordVerdict, Verdict, VerdictCode
      <3> QED
        BY <1>19, <2>1, <3>1 DEF RecordVerdict, Written, RecordFor
    <2>2. CASE code' # 0
      BY <1>19, <2>2 DEF RecordVerdict
    <2> QED
      BY <2>1, <2>2
  <1>20. CASE MovePath
    BY <1>20 DEF MovePath
  <1>21. CASE OtherWrites
    BY <1>21 DEF OtherWrites
  <1>22. CASE HoldMedium
    BY <1>22 DEF HoldMedium
  <1>23. CASE ReleaseMedium
    BY <1>23 DEF ReleaseMedium
  <1>24. CASE RequestCancel
    BY <1>24 DEF RequestCancel
  <1>25. CASE UNCHANGED vars
    BY <1>25 DEF vars
  <1> QED
    BY <1>1, <1>2, <1>3, <1>4, <1>5, <1>6, <1>7, <1>8, <1>9, <1>10, <1>11, <1>12, <1>13, <1>14, <1>15, <1>16, <1>17, <1>18, <1>19, <1>20, <1>21, <1>22, <1>23, <1>24, <1>25 DEF Next, RunStep, Environment

(* A step modifies nothing that was not announced.                         *)
LEMMA AnnouncedStep ==
    ASSUME TypeOK, PlaceInv, AnnouncedInv, [Next]_vars
    PROVE  AnnouncedInv'
  <1> USE DEF TypeOK, PlaceInv, AnnouncedInv, Physical, Engaged, Untouched, Early, run, medium, world, history, budget, Exit, Finish, Continue, Running
  <1>1. CASE InspectTarget
    BY <1>1 DEF InspectTarget
  <1>2. CASE PrepareRun
    BY <1>2 DEF PrepareRun
  <1>3. CASE ValidateJob
    BY <1>3 DEF ValidateJob, Valid
  <1>4. CASE RefuseJob
    <2>1. log \subseteq log' /\ told \subseteq told' /\ told' \subseteq told \cup {"refuse"}
      BY <1>4 DEF RefuseJob, Written, WriteFails
    <2> QED
      BY <1>4, <2>1 DEF RefuseJob
  <1>5. CASE RecordStart
    <2>1. CASE Written("en_cours") /\ pc' = "reinspect"
      BY <1>5, <2>1 DEF RecordStart, Written, RecordFor
    <2>2. CASE WriteFails("en_cours") /\ pc' = "exit"
      BY <1>5, <2>2 DEF RecordStart, WriteFails, RecordFor
    <2> QED
      BY <1>5, <2>1, <2>2 DEF RecordStart
  <1>6. CASE Reinspect
    BY <1>6 DEF Reinspect
  <1>7. CASE OpenTarget
    BY <1>7 DEF OpenTarget
  <1>8. CASE CheckDescriptor
    BY <1>8 DEF CheckDescriptor
  <1>9. CASE WriteChunk
    BY <1>9 DEF WriteChunk
  <1>10. CASE WriteChunkFails
    BY <1>10 DEF WriteChunkFails
  <1>11. CASE StopWriting
    BY <1>11 DEF StopWriting
  <1>12. CASE SyncTarget
    BY <1>12 DEF SyncTarget
  <1>13. CASE VerifyRound
    BY <1>13 DEF VerifyRound
  <1>14. CASE VerifyDone
    BY <1>14 DEF VerifyDone
  <1>15. CASE CloseTarget
    BY <1>15 DEF CloseTarget
  <1>16. CASE RunNative
    BY <1>16 DEF RunNative, MaySanitize
  <1>17. CASE ObserveIdentity
    BY <1>17 DEF ObserveIdentity
  <1>18. CASE ObserveAgain
    BY <1>18 DEF ObserveAgain
  <1>19. CASE RecordVerdict
    <2>1. Verdict # "en_cours"
      BY DEF Verdict
    <2>2. log \subseteq log' /\ told \subseteq told' /\ told' \subseteq told \cup {Verdict}
      BY <1>19 DEF RecordVerdict, Written, WriteFails
    <2> QED
      BY <1>19, <2>1, <2>2 DEF RecordVerdict
  <1>20. CASE MovePath
    BY <1>20 DEF MovePath
  <1>21. CASE OtherWrites
    BY <1>21 DEF OtherWrites
  <1>22. CASE HoldMedium
    BY <1>22 DEF HoldMedium
  <1>23. CASE ReleaseMedium
    BY <1>23 DEF ReleaseMedium
  <1>24. CASE RequestCancel
    BY <1>24 DEF RequestCancel
  <1>25. CASE UNCHANGED vars
    BY <1>25 DEF vars
  <1> QED
    BY <1>1, <1>2, <1>3, <1>4, <1>5, <1>6, <1>7, <1>8, <1>9, <1>10, <1>11, <1>12, <1>13, <1>14, <1>15, <1>16, <1>17, <1>18, <1>19, <1>20, <1>21, <1>22, <1>23, <1>24, <1>25 DEF Next, RunStep, Environment

(* Where dfx_run_job leaves main.                                          *)
LEMMA FinishPlace ==
    ASSUME NEW r, Finish(r)
    PROVE  result' = r /\ fd' = Nothing /\ pc' = IF r = 0 THEN "observe" ELSE "reobserve"
  BY DEF Finish

(* The steps behind the opening keep the descriptor, or close it.          *)
LEMMA TargetKept ==
    ASSUME TypeOK, TargetInv,
           UNCHANGED <<job, snap, swapped, path, held>>,
           \/ pc \in Writing /\ pc' \in Writing /\ fd' = fd
           \/ pc' \notin {"open"} \cup Engaged /\ fd' = Nothing,
           touched' = touched \/ (pc \in Writing /\ touched' = touched \cup {fd})
    PROVE  TargetInv'
  BY EraseAssumption DEF TypeOK, TargetInv, Swappable, Physical, Writing, Engaged

(* A step keeps the descriptor on the confirmed target.                    *)
LEMMA TargetStep ==
    ASSUME TypeOK, PlaceInv, TargetInv, [Next]_vars
    PROVE  TargetInv'
  <1> USE DEF TypeOK, PlaceInv, TargetInv, Swappable, Physical, Engaged, Untouched, Early, Writing,
              run, medium, world, history, budget, Exit, Finish, Continue, Running
  <1>1. CASE InspectTarget
    BY <1>1 DEF InspectTarget
  <1>2. CASE PrepareRun
    BY <1>2 DEF PrepareRun
  <1>3. CASE ValidateJob
    BY <1>3 DEF ValidateJob
  <1>4. CASE RefuseJob
    BY <1>4 DEF RefuseJob
  <1>5. CASE RecordStart
    BY <1>5 DEF RecordStart
  <1>6. CASE Reinspect
    BY <1>6 DEF Reinspect, SameTarget
  <1>7. CASE OpenTarget
    BY <1>7 DEF OpenTarget, MayOpen
  <1>8. CASE CheckDescriptor
    <2>1. UNCHANGED <<job, snap, swapped, path, held, touched>> /\ pc = "check"
      BY <1>8 DEF CheckDescriptor, world
    <2>2. CASE Finish(-1)
      BY <2>1, <2>2, FinishPlace, TargetKept DEF Engaged
    <2>3. CASE DescriptorMatches /\ pc' \in {"write", "sync"} /\ fd' = fd
      <3>1. ~Physical => fd = snap.medium
        BY <2>3 DEF DescriptorMatches
      <3>2. Physical => job.kind = "hdd"
        BY <2>1 DEF Physical, TypeOK, Job, Kinds, PlaceInv, Engaged
      <3> QED
        BY <2>1, <2>3, <3>1, <3>2
    <2> QED
      BY <1>8, <2>2, <2>3 DEF CheckDescriptor, Continue
  <1>9. CASE WriteChunk
    <2>1. UNCHANGED <<job, snap, swapped, path, held>> /\ pc \in Writing
      BY <1>9 DEF WriteChunk, Writing, Engaged, world, history
    <2>2. touched' = touched \/ touched' = touched \cup {fd}
      BY <1>9 DEF WriteChunk, Zeroed
    <2>3. \/ pc' \in Writing /\ fd' = fd
          \/ pc' \in {"observe", "reobserve"} /\ fd' = Nothing
      BY <1>9 DEF WriteChunk, Continue, Finish, Writing, Engaged
    <2> QED
      BY <2>1, <2>2, <2>3, TargetKept DEF Engaged
  <1>10. CASE WriteChunkFails
    <2>1. UNCHANGED <<job, snap, swapped, path, held>> /\ pc \in Writing
      BY <1>10 DEF WriteChunkFails, Writing, Engaged, world, history
    <2>2. touched' = touched \/ touched' = touched \cup {fd}
      BY <1>10 DEF WriteChunkFails, Zeroed
    <2>3. \/ pc' \in Writing /\ fd' = fd
          \/ pc' \in {"observe", "reobserve"} /\ fd' = Nothing
      BY <1>10 DEF WriteChunkFails, Continue, Finish, Writing, Engaged
    <2> QED
      BY <2>1, <2>2, <2>3, TargetKept DEF Engaged
  <1>11. CASE StopWriting
    <2>1. UNCHANGED <<job, snap, swapped, path, held>> /\ pc \in Writing
      BY <1>11 DEF StopWriting, Writing, Engaged, world, history
    <2>2. touched' = touched \/ touched' = touched \cup {fd}
      BY <1>11 DEF StopWriting
    <2>3. \/ pc' \in Writing /\ fd' = fd
          \/ pc' \in {"observe", "reobserve"} /\ fd' = Nothing
      BY <1>11 DEF StopWriting, Continue, Finish, Writing, Engaged
    <2> QED
      BY <2>1, <2>2, <2>3, TargetKept DEF Engaged
  <1>12. CASE SyncTarget
    <2>1. UNCHANGED <<job, snap, swapped, path, held>> /\ pc \in Writing
      BY <1>12 DEF SyncTarget, Writing, Engaged, world, history
    <2>2. touched' = touched \/ touched' = touched \cup {fd}
      BY <1>12 DEF SyncTarget
    <2>3. \/ pc' \in Writing /\ fd' = fd
          \/ pc' \in {"observe", "reobserve"} /\ fd' = Nothing
      BY <1>12 DEF SyncTarget, Continue, Finish, Writing, Engaged
    <2> QED
      BY <2>1, <2>2, <2>3, TargetKept DEF Engaged
  <1>13. CASE VerifyRound
    <2>1. UNCHANGED <<job, snap, swapped, path, held>> /\ pc \in Writing
      BY <1>13 DEF VerifyRound, Writing, Engaged, world, history
    <2>2. touched' = touched \/ touched' = touched \cup {fd}
      BY <1>13 DEF VerifyRound
    <2>3. \/ pc' \in Writing /\ fd' = fd
          \/ pc' \in {"observe", "reobserve"} /\ fd' = Nothing
      BY <1>13 DEF VerifyRound, Continue, Finish, Writing, Engaged
    <2> QED
      BY <2>1, <2>2, <2>3, TargetKept DEF Engaged
  <1>14. CASE VerifyDone
    <2>1. UNCHANGED <<job, snap, swapped, path, held>> /\ pc \in Writing
      BY <1>14 DEF VerifyDone, Writing, Engaged, world, history
    <2>2. touched' = touched \/ touched' = touched \cup {fd}
      BY <1>14 DEF VerifyDone
    <2>3. \/ pc' \in Writing /\ fd' = fd
          \/ pc' \in {"observe", "reobserve"} /\ fd' = Nothing
      BY <1>14 DEF VerifyDone, Continue, Finish, Writing, Engaged
    <2> QED
      BY <2>1, <2>2, <2>3, TargetKept DEF Engaged
  <1>15. CASE CloseTarget
    <2>1. UNCHANGED <<job, snap, swapped, path, held>> /\ pc \in Writing
      BY <1>15 DEF CloseTarget, Writing, Engaged, world, history
    <2>2. touched' = touched \/ touched' = touched \cup {fd}
      BY <1>15 DEF CloseTarget
    <2>3. \/ pc' \in Writing /\ fd' = fd
          \/ pc' \in {"observe", "reobserve"} /\ fd' = Nothing
      BY <1>15 DEF CloseTarget, Continue, Finish, Writing, Engaged
    <2> QED
      BY <2>1, <2>2, <2>3, TargetKept DEF Engaged
  <1>16. CASE RunNative
    BY <1>16 DEF RunNative, MaySanitize, DriveMatches, OpensDrive
  <1>17. CASE ObserveIdentity
    BY <1>17 DEF ObserveIdentity
  <1>18. CASE ObserveAgain
    BY <1>18 DEF ObserveAgain
  <1>19. CASE RecordVerdict
    BY <1>19 DEF RecordVerdict
  <1>20. CASE MovePath
    BY <1>20 DEF MovePath
  <1>21. CASE OtherWrites
    BY <1>21 DEF OtherWrites
  <1>22. CASE HoldMedium
    BY <1>22 DEF HoldMedium
  <1>23. CASE ReleaseMedium
    BY <1>23 DEF ReleaseMedium
  <1>24. CASE RequestCancel
    BY <1>24 DEF RequestCancel
  <1>25. CASE UNCHANGED vars
    BY <1>25 DEF vars
  <1> QED
    BY <1>1, <1>2, <1>3, <1>4, <1>5, <1>6, <1>7, <1>8, <1>9, <1>10, <1>11, <1>12, <1>13, <1>14, <1>15, <1>16, <1>17, <1>18, <1>19, <1>20, <1>21, <1>22, <1>23, <1>24, <1>25 DEF Next, RunStep, Environment

(* A step keeps what was confirmed, as long as it matters.                 *)
LEMMA ContentStep ==
    ASSUME TypeOK, PlaceInv, ContentInv, [Next]_vars
    PROVE  ContentInv'
  <1> USE DEF TypeOK, PlaceInv, ContentInv, Physical, Engaged, Untouched, Early, Writing, BeforeWriting,
              run, medium, world, history, budget, Exit, Finish, Continue, Running
  <1>1. CASE InspectTarget
    BY <1>1 DEF InspectTarget, View
  <1>2. CASE PrepareRun
    BY <1>2 DEF PrepareRun
  <1>3. CASE ValidateJob
    BY <1>3 DEF ValidateJob
  <1>4. CASE RefuseJob
    BY <1>4 DEF RefuseJob
  <1>5. CASE RecordStart
    BY <1>5 DEF RecordStart
  <1>6. CASE Reinspect
    BY <1>6 DEF Reinspect
  <1>7. CASE OpenTarget
    BY <1>7 DEF OpenTarget
  <1>8. CASE CheckDescriptor
    BY <1>8 DEF CheckDescriptor, DescriptorMatches, View
  <1>9. CASE WriteChunk
    BY <1>9 DEF WriteChunk
  <1>10. CASE WriteChunkFails
    BY <1>10 DEF WriteChunkFails
  <1>11. CASE StopWriting
    BY <1>11 DEF StopWriting, Flush
  <1>12. CASE SyncTarget
    BY <1>12 DEF SyncTarget, Flush
  <1>13. CASE VerifyRound
    BY <1>13 DEF VerifyRound
  <1>14. CASE VerifyDone
    BY <1>14 DEF VerifyDone
  <1>15. CASE CloseTarget
    BY <1>15 DEF CloseTarget
  <1>16. CASE RunNative
    BY <1>16 DEF RunNative
  <1>17. CASE ObserveIdentity
    BY <1>17 DEF ObserveIdentity
  <1>18. CASE ObserveAgain
    BY <1>18 DEF ObserveAgain
  <1>19. CASE RecordVerdict
    BY <1>19 DEF RecordVerdict
  <1>20. CASE MovePath
    BY <1>20 DEF MovePath
  <1>21. CASE OtherWrites
    <2>1. PICK m \in Media, b \in Bytes :
            /\ View(m)[b] # "other"
            /\ data' = [data EXCEPT ![m][b] = "other"]
            /\ altered' = IF m = snap.medium THEN altered \/ pc \in BeforeWriting ELSE altered
      BY <1>21 DEF OtherWrites
    <2>2. UNCHANGED <<pc, job, snap, touched>>
      BY <1>21 DEF OtherWrites
    <2>3. /\ data'[m][b] = "other"
          /\ \A n \in Media, c \in Bytes : data[n][c] = "other" => data'[n][c] = "other"
      BY <2>1 DEF Contents
    <2>4. pc \in BeforeWriting => data[m][b] # "other"
      BY <2>1 DEF View
    <2>5. CASE m = snap.medium /\ pc \in BeforeWriting
      BY <2>1, <2>2, <2>3, <2>4, <2>5
    <2>6. CASE m # snap.medium \/ pc \notin BeforeWriting
      <3>1. pc = "inspect" => m # snap.medium
        BY EraseAssumption
      <3>2. altered' = altered
        BY <2>1, <2>6
      <3>3. pc \in BeforeWriting => snap.medium \in Media
        OBVIOUS
      <3> QED
        BY <2>2, <2>3, <3>2, <3>3
    <2> QED
      BY <2>5, <2>6
  <1>22. CASE HoldMedium
    BY <1>22 DEF HoldMedium
  <1>23. CASE ReleaseMedium
    BY <1>23 DEF ReleaseMedium
  <1>24. CASE RequestCancel
    BY <1>24 DEF RequestCancel
  <1>25. CASE UNCHANGED vars
    BY <1>25 DEF vars
  <1> QED
    BY <1>1, <1>2, <1>3, <1>4, <1>5, <1>6, <1>7, <1>8, <1>9, <1>10, <1>11, <1>12, <1>13, <1>14, <1>15, <1>16, <1>17, <1>18, <1>19, <1>20, <1>21, <1>22, <1>23, <1>24, <1>25 DEF Next, RunStep, Environment

(* A run that does not write, read back or succeed owes its bytes nothing. *)
LEMMA ErasedIdle ==
    ASSUME pc' \notin Writing, ~Won'
    PROVE  ErasedInv'
  BY DEF ErasedInv, Writing, Engaged

(* A step that leaves the bytes alone and claims nothing new.              *)
LEMMA ErasedQuiet ==
    ASSUME ErasedInv, UNCHANGED <<job, snap, data, dirty, bad, stained, rewritten, next>>,
           Swappable => Swappable', pc' \in Writing => pc' = pc, Won' => Won
    PROVE  ErasedInv'
  BY DEF ErasedInv, ReadBefore, Writing, Engaged

(* The last piece written may be smaller than a chunk.                     *)
LEMMA ErasedWrite ==
    ASSUME TypeOK, PlaceInv, TargetInv, ErasedInv, WriteChunk
    PROVE  ErasedInv'
  <1>1. /\ pc = "write" /\ pc' \in {"write", "sync"} /\ code' = code
        /\ UNCHANGED <<job, snap, swapped, result>> /\ next < Size
        /\ fd \in Media /\ Zeroed(Chunk)
    BY DEF WriteChunk, Continue, PlaceInv, Engaged
  <1>2. ~Won'
    BY <1>1 DEF Won, PlaceInv
  <1>3. CASE Swappable
    BY <1>1, <1>3 DEF ErasedInv, Swappable
  <1>4. CASE ~Swappable
    <2>1. fd = snap.medium
      BY <1>1, <1>4 DEF TargetInv, Writing, Engaged
    <2>2. dirty'[snap.medium] = dirty[snap.medium] \cup Chunk /\ rewritten' = rewritten \ Chunk
      BY <1>1, <2>1 DEF Zeroed, TypeOK
    <2>3. \A b \in Bytes : b < next => b \in dirty[snap.medium] \cup rewritten
      BY <1>1, <1>4 DEF ErasedInv
    <2>4. \A b \in Bytes : b < next + Wanted(Size, next, WriteBytes) =>
                             b \in dirty'[snap.medium] \cup rewritten'
      BY <1>1, <2>2, <2>3, ChunkType
    <2>5. CASE next + Wanted(Size, next, WriteBytes) < Size
      <3>1. pc' = "write" /\ next' = next + Wanted(Size, next, WriteBytes)
        BY <2>5 DEF WriteChunk, Continue
      <3> QED
        BY <1>1, <1>2, <2>4, <3>1 DEF ErasedInv
    <2>6. CASE ~(next + Wanted(Size, next, WriteBytes) < Size)
      <3>1. pc' = "sync" /\ next' = 1
        BY <2>6 DEF WriteChunk, Continue
      <3>2. \A b \in Bytes : b < next + Wanted(Size, next, WriteBytes)
        BY <1>1, <2>6, ChunkType, EraseAssumption DEF Bytes
      <3> QED
        BY <1>1, <1>2, <2>4, <3>1, <3>2 DEF ErasedInv
    <2> QED
      BY <2>5, <2>6
  <1> QED
    BY <1>3, <1>4

(* Once synchronised, a byte is zero unless the medium lost it or another  *)
(* program wrote it.                                                       *)
LEMMA ErasedSync ==
    ASSUME TypeOK, PlaceInv, TargetInv, ErasedInv, SyncTarget
    PROVE  ErasedInv'
  <1>1. /\ pc = "sync" /\ code # 0 /\ code' = code /\ fd \in Media
        /\ UNCHANGED <<job, snap, swapped, next, bad, rewritten, stained>>
    BY DEF SyncTarget, PlaceInv, Engaged, world, history
  <1>2. CASE Finish(-1)
    <2>1. pc' = "reobserve"
      BY <1>2, FinishPlace
    <2> QED
      BY <1>1, <2>1, ErasedIdle DEF Won, Writing, Engaged
  <1>3. CASE Flush(fd, dirty[fd]) /\ pc' = "verify"
    <2> SUFFICES ASSUME ~Swappable PROVE ErasedInv'
      BY <1>1 DEF ErasedInv, Swappable
    <2>1. fd = snap.medium /\ next = 1 /\ \A b \in Bytes : b \in dirty[fd] \cup rewritten
      BY <1>1 DEF TargetInv, ErasedInv, Writing, Engaged
    <2>2. /\ dirty'[fd] = {}
          /\ \A b \in Bytes : data'[fd][b] = IF b \in dirty[fd] \ bad THEN "zero" ELSE data[fd][b]
      BY <1>1, <1>3 DEF Flush, TypeOK
    <2>3. \A b : ~ReadBefore(b, 1)'
      BY DEF ReadBefore
    <2>4. ~Won'
      BY <1>1, <1>3 DEF Won
    <2>5. next' = 1
      BY <1>1, <2>1
    <2>6. \A b : ~ReadBefore(b, next)'
      BY <2>3, <2>5 DEF ReadBefore
    <2> QED
      BY <1>1, <1>3, <2>1, <2>2, <2>4, <2>6 DEF ErasedInv
  <1> QED
    BY <1>2, <1>3 DEF SyncTarget, Continue

(* A round that succeeds has read zeroes.                                  *)
LEMMA ErasedRound ==
    ASSUME TypeOK, PlaceInv, TargetInv, ErasedInv, VerifyRound
    PROVE  ErasedInv'
  <1>1. /\ pc = "verify" /\ code # 0 /\ code' = code /\ fd \in Media /\ next \in Nat
        /\ next <= Rounds(Size, job.full)
        /\ UNCHANGED <<job, snap, swapped, data, dirty, bad, rewritten, stained>>
    BY DEF VerifyRound, PlaceInv, Engaged, medium, world, history, TypeOK
  <1>2. CASE Finish(-1)
    <2>1. pc' = "reobserve"
      BY <1>2, FinishPlace
    <2> QED
      BY <1>1, <2>1, ErasedIdle DEF Won, Writing, Engaged
  <1>3. CASE /\ \A b \in ReadIn(Size, job.full, next) : View(fd)[b] = "zero"
             /\ pc' = "verify" /\ next' = next + 1
    <2> SUFFICES ASSUME ~Swappable PROVE ErasedInv'
      BY <1>1 DEF ErasedInv, Swappable
    <2>1. fd = snap.medium /\ dirty[fd] = {}
      BY <1>1 DEF TargetInv, ErasedInv, Writing, Engaged
    <2>2. \A b \in Bytes : b \in ReadIn(Size, job.full, next) => data[fd][b] = "zero"
      BY <1>3, <2>1 DEF View
    <2>3. ASSUME NEW b \in Bytes, ReadBefore(b, next)', b \notin ReadIn(Size, job.full, next)
          PROVE  ReadBefore(b, next)
      <3> DEFINE n == Rounds(Size, job.full)
      <3>1. /\ \E i \in 1..n : i < next + 1 /\ b \in ReadIn(Size, job.full, i)
            /\ ~\E i \in 1..n : i >= next + 1 /\ b \in ReadIn(Size, job.full, i)
        BY <1>1, <1>3, <2>3 DEF ReadBefore
      <3>2. \A i \in 1..n : i < next + 1 => i < next \/ i = next
        BY <1>1
      <3>3. \A i \in 1..n : i >= next => i >= next + 1 \/ i = next
        BY <1>1
      <3>4. \E i \in 1..n : i < next /\ b \in ReadIn(Size, job.full, i)
        BY <2>3, <3>1, <3>2
      <3>5. ~\E i \in 1..n : i >= next /\ b \in ReadIn(Size, job.full, i)
        BY <2>3, <3>1, <3>3
      <3> QED
        BY <3>4, <3>5 DEF ReadBefore
    <2>4. \A b \in Bytes : ReadBefore(b, next)' => data[fd][b] = "zero" \/ b \in stained
      BY <1>1, <2>1, <2>2, <2>3 DEF ErasedInv
    <2>5. ~Won'
      BY <1>1, <1>3 DEF Won
    <2> QED
      BY <1>1, <1>3, <2>1, <2>4, <2>5 DEF ErasedInv
  <1> QED
    BY <1>2, <1>3 DEF VerifyRound, Continue

(* When the rounds are over, every byte that is vouched for was read.      *)
LEMMA ErasedDone ==
    ASSUME TypeOK, PlaceInv, ErasedInv, VerifyDone
    PROVE  ErasedInv'
  <1>1. /\ pc = "verify" /\ pc' = "close" /\ code # 0 /\ code' = code /\ next \in Nat
        /\ next > Rounds(Size, job.full) /\ job.kind # "nvme" /\ job.full \in BOOLEAN
        /\ UNCHANGED <<job, snap, swapped, data, dirty, bad, rewritten, stained>>
    BY DEF VerifyDone, PlaceInv, Engaged, Continue, medium, world, history, TypeOK, Job
  <1>2. ASSUME NEW b \in Vouched(Size, job.full) PROVE ReadBefore(b, next)
    <2>1. PICK i \in 1..Rounds(Size, job.full) : b \in ReadIn(Size, job.full, i)
      BY <1>1, VouchedIsRead, EraseAssumption DEF ReadsOf
    <2>2. \A j \in 1..Rounds(Size, job.full) : j < next
      BY <1>1, RoundsType
    <2> QED
      BY <1>1, <2>1, <2>2, RoundsType DEF ReadBefore
  <1>3. Won' <=> Won
    BY <1>1 DEF Won
  <1> QED
    BY <1>1, <1>2, <1>3 DEF ErasedInv, Swappable, Won

(* What another program writes is accounted for: rewritten, and stained    *)
(* once the byte will not be read again.                                   *)
LEMMA ErasedOther ==
    ASSUME TypeOK, PlaceInv, ErasedInv, OtherWrites
    PROVE  ErasedInv'
  <1>1. PICK m \in Media, b \in Bytes :
          /\ data' = [data EXCEPT ![m][b] = "other"]
          /\ dirty' = [dirty EXCEPT ![m] = dirty[m] \ {b}]
          /\ IF m = snap.medium
             THEN /\ rewritten' = rewritten \cup {b}
                  /\ stained' = IF pc \in AfterReading \/ (pc = "verify" /\ ReadBefore(b, next))
                                THEN stained \cup {b} ELSE stained
             ELSE UNCHANGED <<rewritten, stained>>
    BY DEF OtherWrites
  <1>2. /\ pc \notin {"exit", "dead"} /\ code # 0
        /\ UNCHANGED <<pc, job, snap, swapped, next, result, code, bad>>
    BY DEF OtherWrites, Running, PlaceInv, run, world
  <1>3. /\ Won' <=> Won
        /\ Won => pc \in AfterReading
        /\ Swappable' <=> Swappable
        /\ \A c : ReadBefore(c, next)' <=> ReadBefore(c, next)
    BY <1>2 DEF Won, AfterReading, Swappable, ReadBefore
  <1>4. CASE m # snap.medium
    <2>1. data'[snap.medium] = data[snap.medium] /\ dirty'[snap.medium] = dirty[snap.medium]
      BY <1>1, <1>4 DEF TypeOK
    <2> QED
      BY <1>1, <1>2, <1>3, <1>4, <2>1 DEF ErasedInv
  <1>5. CASE m = snap.medium
    <2>1. /\ \A c \in Bytes : c # b => data'[m][c] = data[m][c]
          /\ dirty'[m] = dirty[m] \ {b}
      BY <1>1 DEF TypeOK, Contents
    <2>2. rewritten' = rewritten \cup {b} /\ stained \subseteq stained'
      BY <1>1, <1>5
    <2>3. pc \in AfterReading \/ (pc = "verify" /\ ReadBefore(b, next)) => b \in stained'
      BY <1>1, <1>5
    <2> SUFFICES ASSUME ~Swappable PROVE ErasedInv'
      BY <1>3 DEF ErasedInv
    <2>4. pc = "write" => \A c \in Bytes : c < next => c \in dirty'[m] \cup rewritten'
      BY <1>5, <2>1, <2>2 DEF ErasedInv
    <2>5. pc = "sync" => next = 1 /\ \A c \in Bytes : c \in dirty'[m] \cup rewritten'
      BY <1>5, <2>1, <2>2 DEF ErasedInv
    <2>6. pc \in {"verify", "close"} => dirty'[m] = {}
      BY <1>5, <2>1 DEF ErasedInv
    <2>7. job.kind # "nvme" /\ (pc \in {"verify", "close"} \/ Won) =>
            \A c \in Bytes : data'[m][c] = "zero" \/ c \in bad \cup rewritten'
      BY <1>5, <2>1, <2>2 DEF ErasedInv
    <2>8. pc = "verify" =>
            \A c \in Bytes : ReadBefore(c, next) => data'[m][c] = "zero" \/ c \in stained'
      BY <1>5, <2>1, <2>2, <2>3 DEF ErasedInv
    <2>9. pc = "close" \/ Won =>
            \A c \in Bytes : job.kind = "nvme" \/ c \in Vouched(Size, job.full) =>
               data'[m][c] = "zero" \/ c \in stained'
      BY <1>3, <1>5, <2>1, <2>2, <2>3 DEF ErasedInv, AfterReading
    <2> QED
      BY <1>2, <1>3, <1>5, <2>4, <2>5, <2>6, <2>7, <2>8, <2>9 DEF ErasedInv
  <1> QED
    BY <1>4, <1>5

(* A step keeps the account of the bytes.                                  *)
LEMMA ErasedStep ==
    ASSUME TypeOK, PlaceInv, VerdictInv, TargetInv, ErasedInv, [Next]_vars
    PROVE  ErasedInv'
  <1> USE DEF TypeOK, PlaceInv, Engaged, Untouched, Early, run, medium, world, history, budget, Exit, Finish,
              Continue, Running, Indeterminate
  <1>1. CASE InspectTarget
    <2>1. pc' \notin Writing /\ ~Won'
      BY <1>1 DEF InspectTarget, Won, Writing
    <2> QED
      BY <2>1, ErasedIdle
  <1>2. CASE PrepareRun
    <2>1. pc' \notin Writing /\ ~Won'
      BY <1>2 DEF PrepareRun, Won, Writing
    <2> QED
      BY <2>1, ErasedIdle
  <1>3. CASE ValidateJob
    <2>1. pc' \notin Writing /\ ~Won'
      BY <1>3 DEF ValidateJob, Won, Writing
    <2> QED
      BY <2>1, ErasedIdle
  <1>4. CASE RefuseJob
    <2>1. pc' \notin Writing /\ ~Won'
      BY <1>4 DEF RefuseJob, Won, Writing
    <2> QED
      BY <2>1, ErasedIdle
  <1>5. CASE RecordStart
    <2>1. pc' \notin Writing /\ ~Won'
      BY <1>5 DEF RecordStart, Won, Writing
    <2> QED
      BY <2>1, ErasedIdle
  <1>6. CASE Reinspect
    <2>1. pc' \notin Writing /\ ~Won'
      BY <1>6 DEF Reinspect, Won, Writing
    <2> QED
      BY <2>1, ErasedIdle
  <1>7. CASE OpenTarget
    <2>1. pc' \notin Writing /\ ~Won'
      BY <1>7 DEF OpenTarget, Won, Writing
    <2> QED
      BY <2>1, ErasedIdle
  <1>8. CASE CheckDescriptor
    <2>1. /\ UNCHANGED <<job, snap, swapped, code>> /\ code # 0
          /\ next' = IF Size = 0 THEN 1 ELSE 0
      BY <1>8 DEF CheckDescriptor
    <2>2. CASE Finish(-1)
      <3>1. pc' = "reobserve"
        BY <2>2, FinishPlace
      <3> QED
        BY <2>1, <3>1, ErasedIdle DEF Won, Writing
    <2>3. CASE pc' = IF Size = 0 THEN "sync" ELSE "write"
      <3>1. ~Won'
        BY <2>1, <2>3 DEF Won
      <3> QED
        BY <2>1, <2>3, <3>1, EraseAssumption DEF ErasedInv, Bytes
    <2> QED
      BY <1>8, <2>2, <2>3 DEF CheckDescriptor, Continue
  <1>9. CASE WriteChunk
    BY <1>9, ErasedWrite
  <1>10. CASE WriteChunkFails
    <2>1. pc' \notin Writing /\ ~Won'
      BY <1>10 DEF WriteChunkFails, Won, Writing
    <2> QED
      BY <2>1, ErasedIdle
  <1>11. CASE StopWriting
    <2>1. pc' \notin Writing /\ ~Won'
      BY <1>11 DEF StopWriting, Won, Writing
    <2> QED
      BY <2>1, ErasedIdle
  <1>12. CASE SyncTarget
    BY <1>12, ErasedSync
  <1>13. CASE VerifyRound
    BY <1>13, ErasedRound
  <1>14. CASE VerifyDone
    BY <1>14, ErasedDone
  <1>15. CASE CloseTarget
    <2>1. /\ UNCHANGED <<job, snap, data, dirty, bad, stained, rewritten, next, swapped, code>>
          /\ pc = "close" /\ code # 0 /\ job.kind # "nvme"
      BY <1>15 DEF CloseTarget
    <2>2. pc' \in {"observe", "reobserve"}
      BY <1>15 DEF CloseTarget
    <2> QED
      BY <2>1, <2>2 DEF ErasedInv, Swappable, Won
  <1>16. CASE RunNative
    <2>1. PICK outcome \in Outcomes :
            /\ (outcome # <<-1, NoStatus>>) => MaySanitize
            /\ Finish(outcome[1])
            /\ IF outcome[1] = 0
               THEN data' = [data EXCEPT ![path] = [b \in Bytes |-> "zero"]]
               ELSE UNCHANGED data
      BY <1>16 DEF RunNative
    <2>2. job.kind = "nvme" /\ job' = job /\ snap' = snap /\ code' = code /\ code # 0
      BY <1>16 DEF RunNative
    <2>3. CASE outcome[1] = 0
      <3>1. path = snap.medium /\ path \in Media /\ pc' = "observe"
        BY <2>1, <2>3, FinishPlace DEF MaySanitize, DriveMatches, OpensDrive
      <3>2. \A b \in Bytes : data'[snap.medium][b] = "zero"
        BY <2>1, <2>3, <3>1
      <3> QED
        BY <2>2, <3>1, <3>2 DEF ErasedInv
    <2>4. CASE outcome[1] # 0
      <3>1. pc' = "reobserve"
        BY <2>1, <2>4, FinishPlace
      <3> QED
        BY <2>2, <3>1, ErasedIdle DEF Won, Writing
    <2> QED
      BY <2>3, <2>4
  <1>17. CASE ObserveIdentity
    <2>1. UNCHANGED <<job, snap, data, dirty, bad, stained, rewritten, next>>
      BY <1>17 DEF ObserveIdentity
    <2>2. (Swappable => Swappable') /\ (pc' \in Writing => pc' = pc) /\ (Won' => Won)
      BY <1>17 DEF ObserveIdentity, Swappable, Writing, Won
    <2> QED
      BY <2>1, <2>2, ErasedQuiet
  <1>18. CASE ObserveAgain
    <2>1. pc' = "record" /\ result' # 0 /\ code' # 0
      BY <1>18 DEF ObserveAgain, VerdictInv
    <2> QED
      BY <2>1, ErasedIdle DEF Won, Writing
  <1>19. CASE RecordVerdict
    <2>1. UNCHANGED <<job, snap, data, dirty, bad, stained, rewritten, next, swapped>>
      BY <1>19 DEF RecordVerdict
    <2>2. pc = "record" /\ pc' = "exit" /\ (code' = 0 => result = 0)
      BY <1>19 DEF RecordVerdict, VerdictCode
    <2> QED
      BY <2>1, <2>2, ErasedQuiet DEF Swappable, Writing, Won
  <1>20. CASE MovePath
    <2>1. UNCHANGED <<job, snap, data, dirty, bad, stained, rewritten, next>>
      BY <1>20 DEF MovePath
    <2>2. (Swappable => Swappable') /\ (pc' \in Writing => pc' = pc) /\ (Won' => Won)
      BY <1>20 DEF MovePath, Swappable, Writing, Won
    <2> QED
      BY <2>1, <2>2, ErasedQuiet
  <1>21. CASE OtherWrites
    BY <1>21, ErasedOther
  <1>22. CASE HoldMedium
    <2>1. UNCHANGED <<job, snap, data, dirty, bad, stained, rewritten, next>>
      BY <1>22 DEF HoldMedium
    <2>2. (Swappable => Swappable') /\ (pc' \in Writing => pc' = pc) /\ (Won' => Won)
      BY <1>22 DEF HoldMedium, Swappable, Writing, Won
    <2> QED
      BY <2>1, <2>2, ErasedQuiet
  <1>23. CASE ReleaseMedium
    <2>1. UNCHANGED <<job, snap, data, dirty, bad, stained, rewritten, next>>
      BY <1>23 DEF ReleaseMedium
    <2>2. (Swappable => Swappable') /\ (pc' \in Writing => pc' = pc) /\ (Won' => Won)
      BY <1>23 DEF ReleaseMedium, Swappable, Writing, Won
    <2> QED
      BY <2>1, <2>2, ErasedQuiet
  <1>24. CASE RequestCancel
    <2>1. UNCHANGED <<job, snap, data, dirty, bad, stained, rewritten, next>>
      BY <1>24 DEF RequestCancel
    <2>2. (Swappable => Swappable') /\ (pc' \in Writing => pc' = pc) /\ (Won' => Won)
      BY <1>24 DEF RequestCancel, Swappable, Writing, Won
    <2> QED
      BY <2>1, <2>2, ErasedQuiet
  <1>25. CASE UNCHANGED vars
    BY <1>25, ErasedQuiet DEF vars, Swappable, Won
  <1> QED
    BY <1>1, <1>2, <1>3, <1>4, <1>5, <1>6, <1>7, <1>8, <1>9, <1>10, <1>11, <1>12, <1>13, <1>14, <1>15, <1>16, <1>17, <1>18, <1>19, <1>20, <1>21, <1>22, <1>23, <1>24, <1>25 DEF Next, RunStep, Environment

-----------------------------------------------------------------------------
(* The invariant, and what it gives.                                       *)

(* At first nothing is modified, announced or owed.                        *)
LEMMA RunInit == Init => RunInv
  <1> SUFFICES ASSUME Init PROVE RunInv
    OBVIOUS
  <1>1. PlaceInv /\ VerdictInv /\ AnnouncedInv
    BY DEF Init, PlaceInv, VerdictInv, AnnouncedInv, Engaged, Untouched, Early, Won
  <1>2. TargetInv /\ ContentInv /\ ErasedInv
    BY EraseAssumption DEF Init, TargetInv, ContentInv, ErasedInv, Engaged, Writing,
       BeforeWriting, Won
  <1> QED
    BY <1>1, <1>2, TypeInit DEF RunInv

(* RunInv holds in every reachable state: it is inductive.                 *)
THEOREM RunInvariant == Spec => []RunInv
  <1>1. RunInv /\ [Next]_vars => RunInv'
    BY TypeStep, PlaceStep, VerdictStep, AnnouncedStep, TargetStep, ContentStep, ErasedStep
       DEF RunInv
  <1> QED
    BY <1>1, RunInit, PTL DEF Spec

(* Every variable of a run keeps its type.                                 *)
THEOREM RunTypeOK == Spec => []TypeOK
  <1>1. RunInv => TypeOK
    BY DEF RunInv
  <1> QED
    BY <1>1, RunInvariant, PTL

(* Nothing is modified before the start is in the journal, and no disk     *)
(* without a journal: dfx_write_audit returns before dfx_run_job begins.   *)
THEOREM DamageAlwaysAnnounced == Spec => []NoUnannouncedDamage
  <1>1. RunInv => NoUnannouncedDamage
    BY DEF RunInv, AnnouncedInv, NoUnannouncedDamage
  <1> QED
    BY <1>1, RunInvariant, PTL

(* Only the confirmed target is modified, whatever the path comes to name: *)
(* for a hard disk, while nobody swaps it behind the second inspection.    *)
THEOREM AlwaysConfirmedTarget == Spec => []OnlyConfirmedTarget
  <1>1. RunInv => OnlyConfirmedTarget
    BY DEF RunInv, TargetInv, Swappable, OnlyConfirmedTarget
  <1> QED
    BY <1>1, RunInvariant, PTL

(* A file whose content another program changed behind the confirmation is *)
(* left alone.                                                             *)
THEOREM AlwaysConfirmedContent == Spec => []ConfirmedContentOnly
  <1>1. RunInv => ConfirmedContentOnly
    BY DEF RunInv, ContentInv, ConfirmedContentOnly
  <1> QED
    BY <1>1, RunInvariant, PTL

(* The verdict main records never contradicts the job it records.          *)
THEOREM VerdictAlwaysRecordable == Spec => []VerdictRecordable
  <1>1. RunInv => VerdictRecordable
    <2> SUFFICES ASSUME RunInv, pc = "record" PROVE RecordConsistent(RecordFor(Verdict))
      BY DEF VerdictRecordable
    <2>1. Verdict \in {"reussi", "indetermine", "echoue"} /\ (Verdict = "reussi" => result = 0)
      BY DEF Verdict
    <2>2. /\ result = 0 => observed
          /\ result = 0 /\ job.kind = "nvme" => status.source = "log" /\ status.state \in Done
          /\ job.kind # "nvme" => status = NoStatus
      BY DEF RunInv, VerdictInv, Won
    <2> QED
      BY <2>1, <2>2 DEF RecordConsistent, RecordFor
  <1> QED
    BY <1>1, RunInvariant, PTL

(* Exit code 0 means that the bytes vouched for are zero on the medium,    *)
(* that the identity was observed at the end, and that the journal has the *)
(* success: for every size, chunk and verification depth.                  *)
THEOREM SuccessAlwaysErased == Spec => []SuccessMeansErased
  <1>1. RunInv => SuccessMeansErased
    <2> SUFFICES ASSUME RunInv, code = 0, ~Swappable
                 PROVE  /\ observed
                        /\ job.audit => \E r \in log : r.status = "reussi" /\ r.observed
                        /\ \A b \in Bytes :
                             \/ data[snap.medium][b] = "zero"
                             \/ b \in stained
                             \/ /\ job.kind # "nvme" /\ b \notin Vouched(Size, job.full)
                                /\ b \in bad \cup rewritten
      BY DEF SuccessMeansErased, Swappable
    <2>1. observed /\ (job.audit => \E r \in log : r.status = "reussi" /\ r.observed)
      BY DEF RunInv, VerdictInv
    <2>2. /\ \A b \in Bytes : job.kind = "nvme" \/ b \in Vouched(Size, job.full) =>
                data[snap.medium][b] = "zero" \/ b \in stained
          /\ job.kind # "nvme" =>
                \A b \in Bytes : data[snap.medium][b] = "zero" \/ b \in bad \cup rewritten
      BY DEF RunInv, ErasedInv, Won
    <2> QED
      BY <2>1, <2>2
  <1> QED
    BY <1>1, RunInvariant, PTL

(* No write goes to a disk that another program mounts or holds.           *)
THEOREM HeldDiskNeverWritten == Spec => NeverWritesHeldDisk
  <1> DEFINE Spares == \A m \in held : Physical => dirty'[m] \subseteq dirty[m] /\ m \notin touched' \ touched
  <1>1. RunInv /\ [Next]_vars => Spares
    <2> SUFFICES ASSUME RunInv, [Next]_vars, NEW m \in held, Physical
                 PROVE  dirty'[m] \subseteq dirty[m] /\ m \notin touched' \ touched
      OBVIOUS
    <2>1. TypeOK /\ m \in Media /\ (fd \in Media => fd # m)
      BY DEF RunInv, TypeOK, TargetInv
    <2>2. ASSUME NEW bytes, Zeroed(bytes), fd \in Media
          PROVE  dirty'[m] \subseteq dirty[m] /\ m \notin touched' \ touched
      BY <2>1, <2>2 DEF Zeroed, TypeOK
    <2>3. CASE WriteChunk \/ WriteChunkFails
      <3>1. fd \in Media
        BY <2>3 DEF WriteChunk, WriteChunkFails, RunInv, PlaceInv, Engaged
      <3> QED
        BY <2>2, <2>3, <3>1 DEF WriteChunk, WriteChunkFails
    <2>4. CASE StopWriting \/ SyncTarget
      <3>1. dirty' = dirty \/ dirty' = [dirty EXCEPT ![fd] = dirty[fd] \ dirty[fd]]
        BY <2>4 DEF StopWriting, SyncTarget, Flush, medium
      <3>2. touched' = touched
        BY <2>4 DEF StopWriting, SyncTarget
      <3> QED
        BY <2>1, <3>1, <3>2 DEF TypeOK
    <2>5. CASE RunNative
      BY <2>5 DEF RunNative, MaySanitize, OpensDrive
    <2>6. CASE OtherWrites
      <3>1. PICK n \in Media, b \in Bytes : dirty' = [dirty EXCEPT ![n] = dirty[n] \ {b}]
        BY <2>6 DEF OtherWrites
      <3>2. touched' = touched
        BY <2>6 DEF OtherWrites
      <3> QED
        BY <2>1, <3>1, <3>2 DEF TypeOK
    <2>7. CASE UNCHANGED <<dirty, touched>>
      BY <2>7
    <2>8. CASE \/ InspectTarget \/ PrepareRun \/ ValidateJob \/ RefuseJob \/ RecordStart
               \/ Reinspect \/ OpenTarget \/ CheckDescriptor \/ VerifyRound \/ VerifyDone
               \/ CloseTarget \/ ObserveIdentity \/ ObserveAgain \/ RecordVerdict
               \/ MovePath \/ HoldMedium \/ ReleaseMedium \/ RequestCancel \/ UNCHANGED vars
      <3>1. UNCHANGED <<dirty, touched>>
        BY <2>8 DEF InspectTarget, PrepareRun, ValidateJob, RefuseJob, RecordStart, Reinspect,
           OpenTarget, CheckDescriptor, VerifyRound, VerifyDone, CloseTarget, ObserveIdentity,
           ObserveAgain, RecordVerdict, MovePath, HoldMedium, ReleaseMedium, RequestCancel,
           vars, medium
      <3> QED
        BY <2>7, <3>1
    <2> QED
      BY <2>3, <2>4, <2>5, <2>6, <2>8 DEF Next, RunStep, Environment
  <1>2. RunInv /\ [Next]_vars => [Spares]_vars
    BY <1>1
  <1> QED
    BY <1>2, RunInvariant, PTL DEF Spec, NeverWritesHeldDisk
=============================================================================
