------------------------------ MODULE EraseRun ------------------------------
(***************************************************************************)
(* One run of `diskpurge erase` on its target: main (src/src/main.c) and   *)
(* dfx_run_job (src/src/erase.c), against media that other programs write, *)
(* mount, rename, unplug and swap, and an operator who interrupts it.      *)
(*                                                                         *)
(* The target is a virtual disk (a regular file), a hard disk (in a        *)
(* laboratory build only) or an NVMe drive.  Each of its bytes is old,     *)
(* overwritten by someone else, or zero; a written byte is dirty until a   *)
(* synchronisation puts it on the medium (when the kernel does so earlier, *)
(* nobody can tell), and a bad one keeps what it held without an error.    *)
(* The journal is AuditJournal reduced to what this run sees of it: each   *)
(* write returns success, and then the record is in it, or failure, and    *)
(* then it may be.                                                         *)
(***************************************************************************)
EXTENDS ByteRanges, NativeOutcome, FiniteSets

CONSTANTS Media,       \* what the device path may name
          Nothing,     \* it names nothing: a sentinel
          Size,        \* size_bytes of each medium
          MaxMoves,    \* bound on the changes of what the path names
          MaxForeign,  \* bound on the writes of other programs
          MaxHolds     \* bound on the mounts and other exclusive uses

ASSUME EraseAssumption ==
    /\ Nothing \notin Media
    /\ Size \in Nat
    /\ MaxMoves \in Nat /\ MaxForeign \in Nat /\ MaxHolds \in Nat

VARIABLES pc,       \* where the run stands
          job,      \* what the command line asked and the policy answers
          snap,     \* job->device: what the first inspection saw
          fd,       \* the medium open for writing
          next,     \* the bytes written, then the round of the verification
          result,   \* what dfx_run_job returned
          observed, \* job->final_identity_observed
          status,   \* job->native_status_*
          cancel,   \* the flag the signal handler sets
          log,      \* the records of this run in the journal
          told,     \* the statuses whose write returned success
          code,     \* the exit code, -1 until there is one
          path,     \* the medium the device path names
          data,     \* data[m]: the bytes of m as the medium holds them
          dirty,    \* dirty[m]: the bytes of m zeroed but not yet on it
          bad,      \* bytes of the media that lose what is written to them
          held,     \* the media another program mounts or holds exclusively
          touched,  \* the media this run has modified
          swapped,  \* the path changed since the second inspection
          altered,  \* the target was written by others before it was opened
          stained,  \* bytes others wrote after they were read back
          rewritten,\* bytes others wrote since the target was opened
          moves, writes, holds  \* how many of each the environment has used

run == <<pc, job, snap, fd, next, result, observed, status, cancel, log, told, code>>
medium == <<data, dirty>>
world == <<path, bad, held>>
history == <<swapped, altered, stained, rewritten>>
budget == <<moves, writes, holds>>
vars == <<run, medium, world, touched, history, budget>>

Bytes == 0..(Size - 1)
Kinds == {"file", "hdd", "nvme"}
Contents == [Bytes -> {"old", "other", "zero"}]
Job == [kind : Kinds, audit : BOOLEAN, full : BOOLEAN, allowed : BOOLEAN]
Snapshot == [medium : Media \cup {Nothing}, content : Contents, held : BOOLEAN]
Record == [status : {"refuse", "en_cours", "reussi", "echoue", "indetermine"},
           observed : BOOLEAN, native : Status]

TypeOK ==
    /\ pc \in {"inspect", "prepare", "validate", "start", "reinspect", "open", "check",
               "write", "sync", "verify", "close", "native", "observe", "reobserve",
               "record", "exit", "dead"}
    /\ job \in Job /\ snap \in Snapshot
    /\ fd \in Media \cup {Nothing}
    /\ next \in Nat
    /\ result \in {0, -1, Indeterminate}
    /\ observed \in BOOLEAN /\ cancel \in BOOLEAN /\ status \in Status
    /\ log \subseteq Record
    /\ told \subseteq {"refuse", "en_cours", "reussi", "echoue", "indetermine"}
    /\ code \in {-1, 0, 1, 4}
    /\ path \in Media \cup {Nothing}
    /\ data \in [Media -> Contents] /\ dirty \in [Media -> SUBSET Bytes]
    /\ bad \subseteq Bytes /\ held \subseteq Media /\ touched \subseteq Media
    /\ swapped \in BOOLEAN /\ altered \in BOOLEAN
    /\ stained \subseteq Bytes /\ rewritten \subseteq Bytes
    /\ moves \in Nat /\ writes \in Nat /\ holds \in Nat

Init ==
    /\ pc = "inspect"
    /\ job \in Job
    /\ snap = [medium |-> Nothing, content |-> [b \in Bytes |-> "old"], held |-> FALSE]
    /\ fd = Nothing /\ next = 0 /\ result = 0
    /\ observed = FALSE /\ status = NoStatus /\ cancel = FALSE
    /\ log = {} /\ told = {} /\ code = -1
    /\ path \in Media
    /\ data = [m \in Media |-> [b \in Bytes |-> "old"]]
    /\ dirty = [m \in Media |-> {}]
    /\ bad \in {b \in SUBSET Bytes : Cardinality(b) <= 1}
    /\ held = {}
    /\ touched = {} /\ swapped = FALSE /\ altered = FALSE
    /\ stained = {} /\ rewritten = {}
    /\ moves = 0 /\ writes = 0 /\ holds = 0

-----------------------------------------------------------------------------
(* What a reader of m sees: the cache first.                               *)
View(m) == [b \in Bytes |-> IF b \in dirty[m] THEN "zero" ELSE data[m][b]]

Physical == job.kind # "file"

(* A disk is only reached while it is plugged in; a renamed file still is. *)
Reachable(m) == Physical => path = m

(* Mutant: fflush, but neither fsync nor the cache dropped.                *)
FlushNothing(m, bytes) == UNCHANGED medium

(* Bytes of m reach the medium; a bad one keeps what it had.               *)
Flush(m, bytes) ==
    /\ data' = [data EXCEPT ![m] = [b \in Bytes |-> IF b \in bytes \ bad THEN "zero" ELSE @[b]]]
    /\ dirty' = [dirty EXCEPT ![m] = @ \ bytes]

Continue(place) == pc' = place /\ UNCHANGED <<fd, result>>

(* dfx_run_job returns r to main.                                          *)
Finish(r) ==
    /\ result' = r
    /\ fd' = Nothing
    /\ pc' = IF r = 0 THEN "observe" ELSE "reobserve"

Exit(c) == pc' = "exit" /\ code' = c

(* audit_record_semantic_error: the rules a run could break.               *)
RecordConsistent(r) ==
    /\ r.status = "reussi" => r.observed
    /\ r.status \in {"refuse", "en_cours"} => ~r.observed /\ r.native = NoStatus
    /\ job.kind # "nvme" => r.native = NoStatus
    /\ r.status = "reussi" /\ job.kind = "nvme" =>
         r.native.source = "log" /\ r.native.state \in Done

(* dfx_write_audit: without --audit it does nothing and succeeds.          *)
RecordFor(s) == [status |-> s, observed |-> observed, native |-> status]

Written(s) ==
    /\ told' = told \cup {s}
    /\ \/ ~job.audit /\ UNCHANGED log
       \/ job.audit /\ RecordConsistent(RecordFor(s)) /\ log' = log \cup {RecordFor(s)}

WriteFails(s) ==
    /\ job.audit
    /\ \/ UNCHANGED log
       \/ RecordConsistent(RecordFor(s)) /\ log' = log \cup {RecordFor(s)}
    /\ UNCHANGED told

-----------------------------------------------------------------------------
(* main, up to the start.                                                  *)

InspectTarget ==
    /\ pc = "inspect"
    /\ \/ /\ path # Nothing
          /\ snap' = [medium |-> path, content |-> View(path), held |-> path \in held]
          /\ pc' = "prepare"
          /\ UNCHANGED code
       \/ Exit(1) /\ UNCHANGED snap
    /\ UNCHANGED <<job, fd, next, result, observed, status, cancel, log, told,
                   medium, world, touched, history, budget>>

(* dfx_resolve_method, dfx_prepare_audit, install_signal_handlers.         *)
PrepareRun ==
    /\ pc = "prepare"
    /\ \/ pc' = "validate" /\ UNCHANGED code
       \/ Exit(1)
    /\ UNCHANGED <<job, snap, fd, next, result, observed, status, cancel, log, told,
                   medium, world, touched, history, budget>>

(* dfx_validate_job; job.allowed stands for the conditions that do not     *)
(* change while the run lasts.                                             *)
Valid(inUse) == job.allowed /\ ~(Physical /\ inUse) /\ (Physical => job.audit)

ValidateJob ==
    /\ pc = "validate"
    /\ Valid(snap.held)
    /\ pc' = "start"
    /\ UNCHANGED <<job, snap, fd, next, result, observed, status, cancel, log, told, code,
                   medium, world, touched, history, budget>>

RefuseJob ==
    /\ pc = "validate"
    /\ ~Valid(snap.held)
    /\ Written("refuse") \/ WriteFails("refuse")
    /\ Exit(1)
    /\ UNCHANGED <<job, snap, fd, next, result, observed, status, cancel,
                   medium, world, touched, history, budget>>

(* Mutant: the work begins whatever became of the start.                   *)
RecordStartAnyway ==
    /\ pc = "start"
    /\ Written("en_cours") \/ WriteFails("en_cours")
    /\ pc' = "reinspect"
    /\ UNCHANGED <<job, snap, fd, next, result, observed, status, cancel, code,
                   medium, world, touched, history, budget>>

RecordStart ==
    /\ pc = "start"
    /\ \/ Written("en_cours") /\ pc' = "reinspect" /\ UNCHANGED code
       \/ WriteFails("en_cours") /\ Exit(1)
    /\ UNCHANGED <<job, snap, fd, next, result, observed, status, cancel,
                   medium, world, touched, history, budget>>

-----------------------------------------------------------------------------
(* dfx_run_job.                                                            *)

(* The identity of a disk is its serial number, that of a file its inode   *)
(* and the fingerprint of its content.                                     *)
(* Mutant: what is found is not compared with what was confirmed.          *)
AnyTarget == path # Nothing

SameTarget ==
    /\ path # Nothing /\ path = snap.medium
    /\ ~Physical => View(path) = snap.content

Reinspect ==
    /\ pc = "reinspect"
    /\ \/ /\ SameTarget /\ Valid(path \in held)
          /\ Continue(IF job.kind = "nvme" THEN "native" ELSE "open")
       \/ Finish(-1)
    /\ swapped' = FALSE
    /\ UNCHANGED <<job, snap, next, observed, status, cancel, log, told, code,
                   medium, world, touched, altered, stained, rewritten, budget>>

(* Mutant: without O_EXCL.                                                 *)
MayOpenShared == path # Nothing

(* O_EXCL on a block device: not while another program holds it.           *)
MayOpen == path # Nothing /\ (Physical => path \notin held)

OpenTarget ==
    /\ pc = "open"
    /\ \/ MayOpen /\ fd' = path /\ pc' = "check" /\ UNCHANGED result
       \/ Finish(-1)
    /\ UNCHANGED <<job, snap, next, observed, status, cancel, log, told, code,
                   medium, world, touched, history, budget>>

(* The descriptor of a file is compared with the confirmed inode and       *)
(* content; that of a disk only with its device number and geometry, which *)
(* another disk on the same port can have.                                 *)
(* Mutant: the content of the open file is not read again.                 *)
DescriptorSameObject == IF Physical THEN path # Nothing ELSE fd = path /\ fd = snap.medium

DescriptorMatches ==
    IF Physical THEN path # Nothing
    ELSE fd = path /\ fd = snap.medium /\ View(fd) = snap.content

CheckDescriptor ==
    /\ pc = "check"
    /\ \/ DescriptorMatches /\ Continue(IF Size = 0 THEN "sync" ELSE "write")
       \/ Finish(-1)
    /\ next' = IF Size = 0 THEN 1 ELSE 0
    /\ rewritten' = {}
    /\ UNCHANGED <<job, snap, observed, status, cancel, log, told, code,
                   medium, world, touched, swapped, altered, stained, budget>>

Zeroed(bytes) ==
    /\ dirty' = [dirty EXCEPT ![fd] = @ \cup bytes]
    /\ rewritten' = rewritten \ bytes
    /\ touched' = touched \cup {fd}

(* What the next fwrite is given.                                          *)
Chunk == Piece(Size, next, WriteBytes)

WriteChunk ==
    /\ pc = "write" /\ ~cancel
    /\ Reachable(fd)
    /\ Zeroed(Chunk)
    /\ LET written == next + Wanted(Size, next, WriteBytes)
       IN  IF written < Size THEN next' = written /\ Continue("write")
                             ELSE next' = 1 /\ Continue("sync")
    /\ UNCHANGED <<job, snap, observed, status, cancel, log, told, code,
                   data, world, swapped, altered, stained, budget>>

(* fwrite fails behind any beginning of the chunk.                         *)
WriteChunkFails ==
    /\ pc = "write" /\ ~cancel
    /\ \/ UNCHANGED <<dirty, rewritten, touched>>
       \/ Reachable(fd) /\ \E last \in Chunk : Zeroed({b \in Chunk : b <= last})
    /\ Finish(-1)
    /\ UNCHANGED <<job, snap, next, observed, status, cancel, log, told, code,
                   data, world, swapped, altered, stained, budget>>

(* The flag is read before each chunk: flush, synchronise, give up.        *)
StopWriting ==
    /\ pc = "write" /\ cancel
    /\ \/ Reachable(fd) /\ Flush(fd, dirty[fd])
       \/ UNCHANGED medium
    /\ Finish(-1)
    /\ UNCHANGED <<job, snap, next, observed, status, cancel, log, told, code,
                   world, touched, history, budget>>

SyncTarget ==
    /\ pc = "sync"
    /\ \/ Reachable(fd) /\ Flush(fd, dirty[fd]) /\ Continue("verify")
       \/ UNCHANGED medium /\ Finish(-1)
    /\ UNCHANGED <<job, snap, next, observed, status, cancel, log, told, code,
                   world, touched, history, budget>>

(* verify_zero: round by round.  The cache was dropped: what is read is    *)
(* what the medium holds.                                                  *)
VerifyRound ==
    /\ pc = "verify" /\ next <= Rounds(Size, job.full)
    /\ LET wanted == ReadIn(Size, job.full, next)
       IN  \/ /\ wanted # {} => Reachable(fd) /\ \A b \in wanted : View(fd)[b] = "zero"
              /\ Continue("verify")
              /\ next' = next + 1
           \/ /\ wanted # {}           \* not zero, or the read fails
              /\ Finish(-1)
              /\ UNCHANGED next
    /\ UNCHANGED <<job, snap, observed, status, cancel, log, told, code,
                   medium, world, touched, history, budget>>

VerifyDone ==
    /\ pc = "verify" /\ next > Rounds(Size, job.full)
    /\ Continue("close")
    /\ UNCHANGED <<job, snap, next, observed, status, cancel, log, told, code,
                   medium, world, touched, history, budget>>

CloseTarget ==
    /\ pc = "close"
    /\ \E r \in {0, -1} : Finish(r)
    /\ UNCHANGED <<job, snap, next, observed, status, cancel, log, told, code,
                   medium, world, touched, history, budget>>

(* linux_open_device: O_EXCL here too.                                     *)
OpensDrive == path # Nothing /\ path \notin held

(* Mutant: the drive behind the descriptor is not asked who it is.         *)
AnyDrive == path # Nothing

(* linux_validate_device: the drive behind the descriptor gives the serial *)
(* number, model and firmware of the confirmed one.                        *)
DriveMatches == path = snap.medium

(* dfx_run_native_purge, then NvmeSanitize.                                *)
MaySanitize == OpensDrive /\ DriveMatches /\ ~cancel

RunNative ==
    /\ pc = "native"
    /\ \E outcome \in Outcomes :
         LET sent == outcome # <<-1, NoStatus>> IN
         /\ sent => MaySanitize
         /\ Finish(outcome[1])
         /\ status' = outcome[2]
         /\ touched' = IF sent THEN touched \cup {path} ELSE touched
         /\ IF outcome[1] = 0
            THEN data' = [data EXCEPT ![path] = [b \in Bytes |-> "zero"]]
            ELSE UNCHANGED data
    /\ UNCHANGED <<job, snap, next, observed, cancel, log, told, code,
                   dirty, world, history, budget>>

-----------------------------------------------------------------------------
(* main, after the work.                                                   *)

(* observe_final_identity: the same object with the same geometry, found   *)
(* again through the path.  The content of a file is not compared.         *)
Observable == path = snap.medium

(* Mutant: a failed observation leaves the result.                         *)
ObserveOrIgnore ==
    /\ pc = "observe"
    /\ \/ Observable /\ observed' = TRUE
       \/ UNCHANGED observed
    /\ pc' = "record"
    /\ UNCHANGED <<job, snap, fd, next, result, status, cancel, log, told, code,
                   medium, world, touched, history, budget>>

ObserveIdentity ==
    /\ pc = "observe"
    /\ \/ Observable /\ observed' = TRUE /\ pc' = "record" /\ UNCHANGED result
       \/ UNCHANGED observed /\ result' = Indeterminate /\ pc' = "reobserve"
    /\ UNCHANGED <<job, snap, fd, next, status, cancel, log, told, code,
                   medium, world, touched, history, budget>>

(* The second look, before a record that is not a success: its own result  *)
(* is ignored.                                                             *)
ObserveAgain ==
    /\ pc = "reobserve"
    /\ \/ Observable /\ observed' = TRUE
       \/ UNCHANGED observed
    /\ pc' = "record"
    /\ UNCHANGED <<job, snap, fd, next, result, status, cancel, log, told, code,
                   medium, world, touched, history, budget>>

Verdict == CASE result = 0 -> "reussi"
             [] result = Indeterminate -> "indetermine"
             [] OTHER -> "echoue"

VerdictCode == CASE result = 0 -> 0 [] result = Indeterminate -> 4 [] OTHER -> 1

RecordVerdict ==
    /\ pc = "record"
    /\ \/ Written(Verdict) /\ Exit(VerdictCode)
       \/ WriteFails(Verdict) /\ Exit(4)
    /\ UNCHANGED <<job, snap, fd, next, result, observed, status, cancel,
                   medium, world, touched, history, budget>>

-----------------------------------------------------------------------------
(* The environment.                                                        *)

Running == pc \notin {"exit", "dead"}

(* A rename, an unplugged disk, another one on the same port.              *)
MovePath ==
    /\ Running /\ moves < MaxMoves /\ moves' = moves + 1
    /\ path' \in (Media \cup {Nothing}) \ {path}
    /\ swapped' = TRUE
    /\ UNCHANGED <<run, medium, bad, held, touched, altered, stained, rewritten, writes, holds>>

BeforeWriting == {"prepare", "validate", "start", "reinspect", "open", "check"}
AfterReading == {"close", "observe", "reobserve", "record"}

(* The rounds of the verification that are over have read b, and none to   *)
(* come will.                                                              *)
ReadBefore(b, round) ==
    /\ \E i \in 1..Rounds(Size, job.full) : i < round /\ b \in ReadIn(Size, job.full, i)
    /\ ~\E i \in 1..Rounds(Size, job.full) : i >= round /\ b \in ReadIn(Size, job.full, i)

(* Another program writes a byte; exclusive use does not stop it.          *)
OtherWrites ==
    /\ Running /\ writes < MaxForeign /\ writes' = writes + 1
    /\ \E m \in Media, b \in Bytes :
         /\ Reachable(m) /\ View(m)[b] # "other"
         /\ data' = [data EXCEPT ![m][b] = "other"]
         /\ dirty' = [dirty EXCEPT ![m] = @ \ {b}]
         /\ IF m = snap.medium
            THEN /\ altered' = (altered \/ pc \in BeforeWriting)
                 /\ rewritten' = rewritten \cup {b}
                 /\ stained' = IF pc \in AfterReading \/ (pc = "verify" /\ ReadBefore(b, next))
                               THEN stained \cup {b} ELSE stained
            ELSE UNCHANGED <<altered, rewritten, stained>>
    /\ UNCHANGED <<run, world, touched, swapped, moves, holds>>

(* The disk is mounted, or becomes a swap or a RAID member.                *)
HoldMedium ==
    /\ Running /\ Physical /\ holds < MaxHolds /\ holds' = holds + 1
    /\ \E m \in Media \ (held \cup {fd}) : held' = held \cup {m}
    /\ UNCHANGED <<run, medium, path, bad, touched, history, moves, writes>>

ReleaseMedium ==
    /\ Running
    /\ \E m \in held : held' = held \ {m}
    /\ UNCHANGED <<run, medium, path, bad, touched, history, budget>>

(* SIGINT or SIGTERM: a flag once the handlers are installed.              *)
RequestCancel ==
    /\ Running /\ ~cancel
    /\ IF pc \in {"inspect", "prepare"}
       THEN pc' = "dead" /\ UNCHANGED cancel
       ELSE cancel' = TRUE /\ UNCHANGED pc
    /\ UNCHANGED <<job, snap, fd, next, result, observed, status, log, told, code,
                   medium, world, touched, history, budget>>

RunStep ==
    \/ InspectTarget \/ PrepareRun \/ ValidateJob \/ RefuseJob \/ RecordStart
    \/ Reinspect \/ OpenTarget \/ CheckDescriptor
    \/ WriteChunk \/ WriteChunkFails \/ StopWriting \/ SyncTarget
    \/ VerifyRound \/ VerifyDone \/ CloseTarget \/ RunNative
    \/ ObserveIdentity \/ ObserveAgain \/ RecordVerdict

Environment ==
    \/ MovePath \/ OtherWrites \/ HoldMedium \/ ReleaseMedium
    \/ RequestCancel

Next == RunStep \/ Environment

Spec == Init /\ [][Next]_vars

-----------------------------------------------------------------------------
(* A medium is only modified behind a start that main was told is in the   *)
(* journal, and a disk is never modified without a journal.                *)
NoUnannouncedDamage ==
    touched # {} =>
        /\ "en_cours" \in told
        /\ Physical => job.audit
        /\ job.audit => \E r \in log : r.status = "en_cours"

(* Only the confirmed target is modified, whatever the path comes to name: *)
(* always for a file and an NVMe drive, and for a hard disk as long as     *)
(* nobody swaps it between the second inspection and the last write        *)
(* (the window device.c:120 keeps hard disks to laboratory builds for).    *)
OnlyConfirmedTarget ==
    (job.kind = "hdd" /\ swapped) \/ touched \subseteq {snap.medium}

(* A file is modified only if its content was still the confirmed one when *)
(* it was open: what another program wrote since is not destroyed.         *)
ConfirmedContentOnly ==
    job.kind = "file" /\ altered => touched = {}

(* Exit code 0 after clear-zero: every byte the verification vouches for   *)
(* (all, or the first, middle and last chunk) is zero on the medium itself,*)
(* unless someone wrote it after it was read; so is every other byte the   *)
(* medium did not lose and nobody rewrote, also in a last piece smaller    *)
(* than a chunk.  The final identity was observed, and a success is in the *)
(* journal.                                                                *)
SuccessMeansErased ==
    code = 0 /\ ~(job.kind = "hdd" /\ swapped) =>
        /\ observed
        /\ job.audit => \E r \in log : r.status = "reussi" /\ r.observed
        /\ \A b \in Bytes :
             \/ data[snap.medium][b] = "zero"
             \/ b \in stained
             \/ job.kind # "nvme" /\ b \notin Vouched(Size, job.full) /\ b \in bad \cup rewritten

(* Each record main asks for passes the journal's own semantic check: a    *)
(* verdict is never lost because the job contradicts it.                   *)
VerdictRecordable == pc = "record" => RecordConsistent(RecordFor(Verdict))

(* The manual (OPERATOR_MANUAL.md:110): a drift before any modification    *)
(* ends in `echoue`, but a run that can no longer establish the identity   *)
(* of what it modified ends in `indetermine`.                              *)
FailureWasObserved ==
    \A r \in log : r.status = "echoue" /\ touched # {} => r.observed

(* No write goes to a disk another program mounts or holds, even one taken *)
(* after the second inspection found it free.                              *)
NeverWritesHeldDisk ==
    [][\A m \in held : Physical => dirty'[m] \subseteq dirty[m] /\ m \notin touched' \ touched]_vars

=============================================================================
