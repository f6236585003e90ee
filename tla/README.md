# A verification of DataFuckerr / diskpurge

TLA+ models of the erasure engine (`src/src/*.c`), of its audit journal and of
the programs that read it, the TLC configurations that check them, and theorems
that TLAPS proves about them. Paths below are relative to the repository root.

## 1. Inventory

| part | state it keeps | operations | interacts with |
|---|---|---|---|
| Audit journal (`src/audit.c`) | a file of hash-chained JSON lines; per run: operation identifier, identity of the journal first opened | `dfx_prepare_audit`, `dfx_write_audit`, `dfx_verify_audit_file` | other runs and verifiers through `flock`; `main` through return values; the report generator reads it |
| Erase run (`src/main.c`, `src/erase.c`) | the job: device as inspected, method, final identity, native status; the open descriptor; the cancel flag | `erase`: inspect, resolve, validate, record, `dfx_run_job`, observe, record | journal, policy, native purge; other programs through the disk and its path |
| Native purge (`src/purge.c`) | `pending_rounds`, `poll_rounds`, `observed_in_progress`, native status | select action, validate descriptor, Sanitize, poll | the NVMe controller, which runs on its own; other tools |
| Job policy (`src/device.c`, `src/qualification.c`) | none (the job) | `dfx_resolve_method`, `dfx_validate_job`, `dfx_apply_qualification` | `main`, `dfx_run_job`; a second policy in `audit_record_semantic_error` |
| Record text (`src/audit.c`) | none (a line) | `json_escape`, the layout in `dfx_write_audit`, `parse_audit_record`, `audit_context_hash` | the journal's writer and its readers; texts of the operator and of the devices |
| Inspection (`src/platform.c`, three builds) | the flags found so far; the open file, position and hash state of a fingerprint | `dfx_inspect_device`, `dfx_list_devices`, `mount_state` over mounts, holders, swap areas, `hash_regular_file` | `/sys`, `/proc`, IOCTLs, the registry, the disk; programs that mount, stack and write meanwhile |
| SHA-256 (`src/sha256.c`) | state, block, bit length | init, update, final | fingerprints, the journal's chain |
| Helpers (`src/runtime.c`) | the cancel flag | request and test the flag; text and serial number tests | everyone |
| Interface (`ui/`) | fields, `preparation_snapshot`, `pending_inspection`, child process and callback, buttons, chosen journal | search, prepare (version, inspect, plan), erase (inspect, ask, erase), verify a journal, make a report | the engine's command line through `QProcess`; the operator, who edits at any time; the report generator |
| Client report (`tools/report/`) | what the engine said, the source read, the temporary file | verify through the engine, read, parse, group, render, publish | the engine, the journal file, the output path |
| Release tools, live image, demos | files | build and compare archives | none at run time |

What is hard in it:

* **Concurrency.** Several runs and verifiers share a journal. The lock covers
  one append, not the operation: it is released between the start and the
  terminal record, and it is never waited for. Disks are mounted, renamed,
  unplugged and written by others at any time. The NVMe controller works by
  itself and its log may show an older operation.
  The window runs one child at a time, but its fields stay open to edits, and
  its callbacks go on with what they captured when the child was started.
* **Failure.** Every write, flush, synchronisation and close can fail, and can
  fail *after* it took effect. A run can be killed; the machine can lose power.
* **Ordering.** The start must be durable before the medium is touched; the
  outcome must be recorded behind it, in the same file.
* **Limits.** Records, operations, pending readings, polls; chunks, samples and
  padding at sizes that are no multiple of anything; text arrays, UINT64_MAX.
* **Redundancy.** The same rules are written two or three times: the policy in
  `device.c` and in `audit.c`, the life cycle in `audit.c` and in
  `generate_report.py`, validation in `plan` and in `erase`, UTF-8 in `runtime.c`
  and in `audit.c`, and a record's fields are read once by position and once by
  searching for their names.

What makes each part correct: the journal is at all times a valid chain of
complete operations with at most one open, and what was acknowledged stays in
it; the run touches only what was confirmed, behind a durable start, and its
exit code is true of the medium and of the journal; the purge never reports
more than the drive did; the policies agree; the limits never take away the
place of a verdict; what is written of a run is read back as written; a disk in
use is never found free, whatever could not be read, and a fingerprint is that
of one content; the window erases only
what was prepared, and a report shows what the engine verified.

`PROJECT.json` lists the hazards one by one, each at its line, with the
properties that would catch it.

## 2. Modules

| module | models | used by |
|---|---|---|
| `AuditRecords` | the journal as data: records, chain, life cycle, limits, the questions asked before an append | `AuditJournal`, `AuditScan` |
| `AuditPromise` | what a journal promises, without files, locks or processes | refined by `AuditJournal` |
| `AuditJournal` | `dfx_write_audit` and `dfx_verify_audit_file` in concurrent processes, with rotation, kills, power loss, I/O errors | `MCAuditJournal`, `AuditJournalProofs` |
| `AuditScan` | `validate_chain`, `validate_semantics`, `group_operations`, one line after another | `JournalReader`, `AuditJournalProofs` |
| `AuditText` | the text of one line: escaping, layout, the parser, the search by name, both UTF-8 validators | `JournalReader` |
| `JournalReader` | the two together | `MCAuditScan`, `AuditTextProofs` |
| `ByteRanges` | the offsets and sizes of clear-zero and of verify_zero | `EraseRun` |
| `Inspection` | what the three builds of `dfx_inspect_device` conclude from the attributes they can read | `JobPolicy` |
| `NativeOutcome` | results and native statuses a purge hands back | `NvmeSanitize`, `EraseRun`, `JobPolicy` |
| `NvmeSanitize` | `dfx_nvme_run_native_purge_with_ops` against a controller | `NvmeSanitizeProofs` |
| `EraseRun` | `main` and `dfx_run_job` on one target, byte by byte | `MCEraseRun`, `EraseRunProofs` |
| `JobPolicy` | `main` from the inspection to the validation: options, resolution, qualification, policy; the record rules that depend on them | `MCJobPolicy`, `JobPolicyProofs` |
| `MountState` | `mount_state` and the searches under it, against other programs | `LinuxInspect` |
| `Sha256` | the streaming state of the digest, padding and length | `Fingerprint` |
| `Fingerprint` | `hash_regular_file` and the erasure's second reading, against other programs | `LinuxInspect` |
| `LinuxInspect` | `dfx_inspect_device`: a regular file is fingerprinted, a block device searched for uses | `MCMountState`, `LinuxInspectProofs` |
| `GuiWindow` | the window's slots, its child process and callbacks | `MCGuiWindow`, `GuiWindowProofs` |
| `ReportGen` | several runs of the report generator over one journal and one output | `MCReportGen`, `ReportGenProofs` |
| `AuditJournalProofs` | theorems about `AuditRecords`, `AuditScan` and `AuditJournal` | |
| `AuditTextProofs` | theorems about `AuditText`, for the behaviours of `JournalReader` | |
| `NvmeSanitizeProofs`, `EraseRunProofs`, `JobPolicyProofs`, `LinuxInspectProofs`, `GuiWindowProofs`, `ReportGenProofs` | theorems about the module each is named after and those it extends | |

The pieces fit together through what they promise each other. `NvmeSanitize`
shows that a purge ends in one of `NativeOutcome!Outcomes`; `EraseRun` takes
its purge from that set and `JobPolicy` checks the record rules against all of
it. `AuditScan` shows that the scanners accept exactly what `LifecycleOk`,
`ChainOk` and `LimitsOk` mean, for every journal (`ScannersAlwaysExact`);
`AuditJournal` uses the meanings. `AuditJournal`
shows what a successful write is worth; `EraseRun` uses it as a set of records.
`MountState` shows what "not mounted, not in use, state known" is worth, the
condition that `EraseRun` takes from an inspection; `Inspection` shows which
other answers come with it, and `JobPolicy` validates exactly what it returns.
`Fingerprint` shows what the identity of a file is worth; `EraseRun` compares
contents where the code compares fingerprints. `AuditText` shows that the fields
of a record survive writing and reading, whatever they are
(`WrittenAlwaysReadsBack`), and that a line has one reading and a record one
line (`AlwaysCanonical`); `AuditRecords` takes records as values.
`EraseRun` writes and reads back the ranges of `ByteRanges`. `GuiWindow`
takes the engine's answers as arbitrary, and `ReportGen` takes `verify-audit` as
`ClosedJournal` of the whole file.

### Correspondence

**AuditJournal.** A process `p` is one `erase --audit PATH`. `pc[p]` is where
it stands in `main` or, between `open` and `close`, in `dfx_write_audit`:
`OpenAudit`/`OpenAuditFails` are `open_audit` up to the identity comparison
(audit.c:106-137), `LockAudit`/`LockAuditFails` the `flock(LOCK_EX|LOCK_NB)`
and the identity it remembers (138-145), `Validate` everything from
`validate_chain` to the room test (775-871), `AppendRecord`, `SyncRecord`,
`CloseAudit` and their failing forms the write, flush, synchronisation and
close (872-881). A step is split wherever another process can see the
difference; what happens under the lock between two such points is one step.
`content[f]` holds the complete lines of inode `f`, `torn[f]` a last line
without an end, `synced[f]` the lines known to be on the disk. A record is
reduced to operation, context (`audit_context_hash`), status, and `prev`: the
position of the line its `précédente` is the hash of; the hash function is
taken to be injective. `by` is an observation the file does not hold.
A verifier is one `verify-audit PATH`.

**AuditScan.** A step is one iteration of the `fgets` loops, of all three
programs at once; the state is the code's (`chain`: the last hash; `semantics`:
`operations[]` and `active_operation`; `grouping`: `groups` and
`active_operation_id`), and `ScanVerdict` and `GroupVerdict` are the loops over
the operations that follow. A scanner that has refused a line stays refused.

**NvmeSanitize.** `hpc` follows purge.c:184-265; the drive's variables are its
own. `ours` follows the submitted command, `sstat` what the log shows,
`foreign` an operation another tool began. States 5 to 7 of the log are one
(`Reserved`), which any reading may return.

**EraseRun.** `pc` follows main.c:263-328 and, from `reinspect` to `close`,
erase.c:241-316. A medium is a row of bytes, the file's `size_bytes`; each `WriteChunk` is one
`fwrite`, `VerifyRound` one round of `verify_zero`, and `next` is `written`, then
the round's index. `dirty` is what the cache holds
and the medium does not. When the kernel writes back before it is asked cannot
be told from later, since only `Flush` is observed. A byte in `bad` keeps
what it had without an error. `swapped`, `altered`, `stained`,
`rewritten` are observations for the properties. The conditions of
`dfx_validate_job` that cannot change during a run are one flag
(`job.allowed`); the one that can (held by another program) is read from the
snapshot and again from the second inspection. `dfx_run_job` qualifies a copy of
the job, so the context fingerprint of a run is the same in its two records.
`OpensDrive` and `DriveMatches` are the two tests of the native branch before
anything is sent: the exclusive open and the serial number, model and firmware
behind the descriptor (purge.c:270-336).

**AuditText.** A byte is a string: an ASCII character, a whole syllable of a
field name, or the class of a non-ASCII byte, so that the UTF-8 tables of both
validators are exact; `Letters` are the ASCII characters of a run, digits among
them, `Words` the syllables, `Marks` the punctuation of the layout. `Schema` has one field of each kind, kept and not kept,
hashed and not hashed, and names that begin each other (`identifiant`,
`identifiant_après`), in an order that puts a longer name before the shorter. A loop
over bytes is one turn, an operator from state to state, and the recursive
function that repeats it: `SafeTurn` of `dfx_text_is_safe`, `StringTurn` of
`parse_json_string` (with `Taken`, what a turn takes from the line),
`SearchTurn` of `json_string_field`, `AddDigit` of `parse_unsigned_field` with
its overflow test, `ParseStep` one field of `parse_audit_record`. A record goes from `fields` (the job's arrays) through `WriteLine` to `line`;
`DamageLine` changes one byte of it.

**Inspection.** A `Target` is what the path names, with its `defects` as facts;
`unread` are the attributes that could not be read, or not shown: a device link
whose text is unsafe keeps the state from being known (`OddLink`). `LinuxDevice`, `MacDevice`
and `WindowsDevice` are the three builds' answers, each field from the
expression that assigns it; the five conditions that refuse any job stay apart.

**JobPolicy.** `pc` follows main.c:183-301; `RejectOptions` is every way the
argument loop ends the run. `dev` is `job.device`, and the fields a
qualification compares that matter to nothing else are one (`matches`).

**Sha256, Fingerprint.** The state of a context is the sequence of blocks
compressed so far; `Padded` and `Digest` are FIPS 180-4. In `Fingerprint` one
step is one call: `lstat`, `open` with `fstat`, each `fread`, the second `fstat`,
then the same at the erasure; `moments` is an observation, the contents the open
file has had.

**MountState.** One step is one scan: the lines of `mountinfo`
(`direct_mount_state`), the holders of one member of the family
(`holders_mounted`, recursion included; readdir's order is free), the swap areas
(`swap_state`). `uses` is what the machine does at that moment, a set of mounts,
swap areas and stacking edges; `marks` holds the flags set so far, "unknown"
for `*known = false`. A device number is the device; `Anonymous` is the number
of a file system that reports none of a block device. `faults` are entries that
cannot be read, among them single lines of `mountinfo` or `swaps` that do not parse
or whose source `stat` does not find (`OnLine`). `lasting` and `calm` are observations.

**GuiWindow.** `process` is the `QProcess` with the callback's captured context;
starting, answering (`Answer`, what the child saw of the disk at that moment)
and delivering the end (`Ended`, the callback) are three steps, between which
the operator edits and the disks change. `dialog` is a callback waiting in a
modal box. `Captured` is `_erase_context`; `snapshot` is
`preparation_snapshot`, `pending` is `pending_inspection`. `Idle` is
`_set_busy(False)` and `_update_erase_authorization` together, as
`_finish_process` calls them. `LostCallback` is the case where line 855 raises before the
callback is called. `facts` and `checked` are observations of what the engine
said since the last preparation began.

**ReportGen.** `run[r].pc` follows `generate_report`; the journal is read in two
pieces, so that an append can fall between them. `stamp` is the modification
time. A line's hash is the sequence of values up to it.

## 3. What the runs check

| run | instance | shows |
|---|---|---|
| `AuditJournalVerify` | 2 runs, 1 verifier that need not let go, 2 identifiers, 2 files; limits 3 records and 2 operations; 1 I/O error | `OneFilePerRun`, `VerdictFinal`, `ExitCodeBacked`, `RunsEnd` |
| `AuditJournalCrash` | 2 runs, 1 kill, 1 power loss, 1 I/O error, the same limits | `JournalValid`, `WorkExclusive`, `TerminalReserved`, `AckedDurable`, `AppendOnly`, `KeepsPromise` (refinement of `AuditPromise`; an abandoned start blocks its journal follows from it) |
| `AuditScan` | every journal of up to 4 lines over 3 operations, 2 contexts, 3 statuses; limits 3 and 2. Every record whose texts have up to 3 characters together out of 16, numbers 0 and the maximum, arrays of 5 bytes; every one-byte change of a line with at most one character | `ScannersExact`: each scanner accepts exactly what the rules mean; `ReportAgrees`: the report generator agrees with the engine; `WrittenReadsBack`: what is written is read back, by parser and search; `OnlyCanonical`: a changed line is refused or is another record in its one spelling |
| `NvmeSanitize` | pending limit 3, 5 polls, 1 foreign operation, any initial log | `ResultMatchesDrive`, `OutcomeAllowed`, `PollingBounded`, `PurgeReturns` |
| `EraseRun` | 2 media of 7 bytes, chunks of 4 written and 2 read, so that both loops end on a short piece and sampling leaves a byte out; 2 changes of the path, 1 foreign write, 1 mount, any bad bytes | `NoUnannouncedDamage`, `OnlyConfirmedTarget`, `VerdictRecordable`, `ConfirmedContentOnly`, `SuccessMeansErased`, `NeverWritesHeldDisk` |
| `JobPolicy` | 3 platforms, every object and medium, any 2 defects or unreadable attributes, every build, command line and confirmation; 2 qualified tuples | `AcceptedRecordable`, `PlanAgrees`, `DestructiveScope`, `UsableMeansKnown` |
| `GuiWindow` | 1 target, 2 strategies, a standard, a laboratory and a missing binary, 1 journal, 2 inspections, 4 edits, 1 change of the disk | `PreparationCurrent`, `ReadyWhenOffered`, `NothingErasedUnprepared`, `ReportOfVerified`, `WindowReleased` |
| `MountState` | 6 blocks (a disk, its partition, a look-alike, three layers), every stack of 5 possible edges, 1 mount or swap area, 1 unreadable entry, depth 1, 1 change between the scans. 2 files of lengths around the padding's boundaries (blocks of 4, length field of 2, pieces of 2), 2 foreign writes | `SystemDiskSeen`, `UnusedIsFree`, `FreeMeansUnused`, `FingerprintOfOneMoment` |
| `ReportGen` | 1 run, 2 journals of up to 4 lines, 1 foreign output | `PublishedAsVerified` |
| `EraseRunManual`, `GuiWindowOutdated`, `GuiWindowUninspected` | the smallest instances | disagreements between documentation and code, or inside the code (section 6) |

**Why the bounds are enough.** Two runs and a verifier are every pair of roles
the lock can confuse. Two identifiers let a run reuse another's or not. A limit
of three records makes the journal fill between a start and its end, and of two
operations makes that limit bite on its own. Two files are one rotation and one
return. The statuses left out of `AuditScan` (`réussi`, `indéterminé`) are
handled by the same branch as `échoué` in all three scanners. Seven bytes in
reads of two are the smallest medium of which sampling skips a byte and whose
last chunk and last round are both short; the theorems of `EraseRunProofs` cover
all others.
Three characters are a quotation mark, a name and what ends it, or a text that
fills its array when escaped. Two defects at once are a masking one and the one
masked: every condition of the policy is a conjunct. Two foreign writes are one before and
one after any piece, or a shortening and a lengthening that cancel out in size. With a pending limit of three
and five polls each limit is reached first on some path. The theorems of
section 4 hold for all values. In `MountState` a depth limit of one instead of
eight lets a stack of three reach beyond it. In `GuiWindow` it takes up to three edits to fill the page for an
erasure, and one more to spoil it; two are a change and its reversal, the case
a comparison by value cannot see. An empty field stands for another target and
another journal. In `ReportGen` two lines grow to the next
complete journal of four, and two files of equal length tell a comparison of
counts from one of contents.

**Fairness.** `AuditJournalVerify` assumes that each run is scheduled
(`WF(Step(p))`); nothing is assumed of the verifier, which may hold its shared
lock for ever: `LOCK_NB` is what makes the property true, and the mutant that
waits instead breaks it. `NvmeSanitize` assumes the host is scheduled and
nothing of the drive. `GuiWindow` assumes that a child which was started
ends and that Qt delivers its end or its failure to start (`WF` of the child's steps);
nothing is assumed of the operator. The other runs use no fairness. Deadlock is not checked
in runs whose processes all terminate.

## 4. What is proved

Every safety invariant and action property that the runs check, and the
refinement of `AuditPromise`, is also a theorem for all values of the constants.
The assumptions are those named in the modules: limits are positive, sentinels
are not members, and five that a proof asked for and the code gives: the classes
of bytes are disjoint, digits are distinct and more than one, arrays are not
empty, texts are made of bytes (`TextAssumption`), the journal path names a file
(`ReportAssumption`), `None` is nothing that the engine prints
(`WindowAssumption`), the partitions of a partition are those of its disk
(`MountAssumption`), a file's contents are bytes (`FileAssumption`).

* `AuditJournalProofs`. First about journals as data: `AcceptedExtends` (an
  accepted record, appended with the hash of the last line, leaves a valid
  journal) and `PrefixWellFormed` (so does losing a tail), both from
  `ActiveNext`, the set of open operations after one more line. Then about the
  scanners: `ScannersAlwaysExact` and `ReportAlwaysAgrees`. `ScanInv` is the state of
  each loop in terms of the lines read: `previous` counts them, the table of
  `validate_semantics` has exactly the operations of the lines with their contexts
  and flags, a group of `group_operations` is a refusal, a start, or a start and a
  verdict. It says nothing of a scanner that has refused, but that the rules
  refuse the lines too: a rule once broken stays broken (`OneMoreLine`). Then
  about the processes: `JournalTypeOK`, `JournalAlwaysValid`,
  `WorkAlwaysExclusive`, `TerminalAlwaysReserved` from `JournalInv`: `TypeOK`,
  `LocalInv` (what a process's program counter says of its own variables),
  `LockInv` (at most one process holds a file), `AppendInv` and `FileInv` (every
  file is a valid journal; a process between validation and append has read the
  file as it is and it accepts its record; the operation of a run that was told
  its start, and has not written its end, is the open operation of its file, with
  its context and a line to spare). Neither validity nor exclusion is inductive
  alone: validity needs the lock and the unchanged file between validation and
  append; exclusion needs the open operation *in the file*, since no lock is held
  while the disk is erased.
  `HistoryInv` adds what has been promised: where the line of each acknowledged
  status lies (`PlacedInv`), that a line's writer remembers the line's file
  (`OriginInv`), what a place says of what was acknowledged (`AckInv`), and that the
  operations a verifier vouched for are over (`VouchedInv`). From it
  `AckedAlwaysDurable`, `ExitCodeAlwaysBacked`, `AlwaysOneFilePerRun`,
  `VerdictAlwaysFinal` and the action property `AlwaysAppendOnly`. Each step is looked
  at twice, once for the files (`FilesStep`: kept, grown by one line of the lock's
  holder, or cut behind what was synchronised) and once for the processes
  (`ProcsStep`).
  `JournalKeepsPromise` is the refinement: an append is a `Refuse`, a `Start` or an `End` of
  the promise, a successful close is its `Tell`, a power loss its `Forget`, and
  everything else leaves the promise alone.
* `AuditTextProofs`. A text is seen as a sequence of words put one behind the
  other (`Composed`), and what holds of it is shown for one more word
  (`ComposedInduction`). What `dfx_text_is_safe` accepts is what is composed of
  characters (`SafeMeansCharacters`): this is what lets the two UTF-8 validators
  agree, since one looks at a character where the other looks at bytes. What
  `json_escape` writes is composed of their escaped forms, and a reader of JSON
  takes exactly that away again (`EscapedReads`, `ReadEscapes`: nothing else is
  read as that text). A decimal without leading zero that does not exceed the
  maximum is the numeral of exactly one number (`ParsedNumber`). From the kinds of
  field follows the line: what the parser accepts is the layout of an acceptable
  record (`ParsedLine`), and the layout of any such record is accepted as it
  (`WrittenLine`). The search by name could find a name inside a text; it does
  not, since a quotation mark there is escaped, and finds the field of that very
  name although another begins like it (`SearchedContext`).
  `WrittenAlwaysReadsBack` is not inductive alone, as it takes for granted that
  `line` was written from `fields`: `TextInv` says that an undamaged line is the layout
  of the escaped fields of an acceptable job, and that fields and line are
  bytes (`TextInvariant`). `AlwaysCanonical` needs only that a line is a sequence of
  bytes, however damaged.
* `NvmeSanitizeProofs`: `PurgeTypeOK`, `PurgeResultMatchesDrive`,
  `PurgeOutcomeAllowed`, `PurgePollingBounded`. The invariant adds what the
  host may conclude from each reading: once it has seen the log in progress,
  an operation begun after its submission is running or has ended.
* `EraseRunProofs`. The arithmetic, for every size and chunk: `PieceInside` (the write
  loop never writes an empty piece, nor behind the end, and the pieces follow each
  other), `FullReadsEverything` (`--verify full` reads every byte, and none beyond),
  `VouchedIsRead` (what a success vouches for is what was read, in either mode),
  `SmallMediaWhole` (up to two chunks sampling leaves nothing out); each byte lies
  in the round its quotient names. The run: `RunTypeOK`, `DamageAlwaysAnnounced`,
  `AlwaysConfirmedTarget`, `AlwaysConfirmedContent`, `VerdictAlwaysRecordable`,
  `SuccessAlwaysErased` and the action property `HeldDiskNeverWritten`. `RunInv` says
  at each place what is settled there: whose bytes the descriptor reaches
  (`TargetInv`), whether the confirmed content is still there (`ContentInv`), and how
  far the bytes are zeroed, synchronised and read back (`ErasedInv`), which is where
  the arithmetic enters.
* `JobPolicyProofs`: `AcceptedAlwaysRecordable`, `PlanAlwaysAgrees`, `ScopeAlwaysKept`,
  `UsableAlwaysKnown`, for every table of qualified tuples, every target and all
  attributes that cannot be read. `PolicyInv` says that the device is what an
  inspection of the target can yield, which command lines the argument loop lets
  through, and that the verdict is that of `dfx_validate_job`; the properties are
  then a case for each platform and object. The first attempt failed where two
  arms of a `CASE` in `Inspection` overlapped; their order, which the code gives, is
  now in the model.
* `LinuxInspectProofs`. The disk: `MountTypeOK`, `FreeAlwaysUnused`, `SystemAlwaysSeen`,
  `UnusedAlwaysFree`. `FreeInv` says what an inspection without a mark has excluded so
  far; `SeenInv` that above each name already read there is a set which nothing
  stacked leaves and on which `/` is not mounted, which is what the absence of a mark is
  worth although `holders_mounted` stops at a depth; `QuietInv` the converse, that a
  mark has a cause. The digest: `FinalDigest` (the state after any sequence of updates and the
  final is the digest of the bytes given, however they were cut into pieces) and
  `DigestInjective` (padding and length keep two texts of representable length
  apart). The fingerprint: `FingerprintAlwaysOneMoment`. `HashInv` says that the context
  of an open file is that of the bytes read, that each of them was in the file at its
  place since it was opened, and that together they are the beginning of its content
  for as long as its times have not changed.
* `GuiWindowProofs`: `PreparationAlwaysCurrent`, `OfferAlwaysReady`,
  `ErasureAlwaysPrepared`, `ReportAlwaysVerified`, for every number of edits and changes of
  the disks. `WindowInv` says at each link of a chain of children what the engine has
  said of the captured context so far (`Heard`, `Chain`, `Accepted`); the fields are
  bound to that context only through the snapshot, the button and the question.
* `ReportGenProofs`: `ReportAlwaysAsVerified`. The generator compares a last hash and
  a count with what `verify-audit` said, not the lines. `ReportInv` says that what was read is the
  beginning of a chained journal, although it was read in two pieces, and the
  lemma `Pinned` that two chains of one length and one last hash are equal.

Definitions that count (the levels of `HolderMounts`, `Power`, `Update`, the turns of
the loops of `AuditText`, `Numeral`) are recursive
functions; that such a function exists and satisfies its equation is proved
from the well-foundedness of `<` on the naturals (`Least`, `HolderRecursion`,
`RecursionExists`).

**Only model-checked.** Liveness is out of the prover's reach: `RunsEnd`,
`PurgeReturns`, `WindowReleased`.

## 5. Assumptions and limits

* The hash identifies what it is computed from; an attacker who recomputes a
  chain is out of scope, as in `docs/THREAT_MODEL.md`.
* `fsync` of a file makes its lines durable, and the directory entry of a newly
  created journal with it; the engine does not synchronise the directory.
* A verifier may vouch for a line another run wrote and could not synchronise;
  `VerdictFinal` is therefore stated up to a power loss.
* In `EraseRun` an inspection is atomic (`MountState` and `Fingerprint` take it
  apart). A hard disk swapped on the same port between the
  second inspection and the last write is written to: `OnlyConfirmedTarget`
  excludes exactly that case, which is why `device.c:120` keeps `clear-zero` on
  hard disks for laboratory builds.
* `MountState`: the mount of a file system that reports an anonymous device number
  (btrfs) is not matched with its disk (platform.c:619); the exclusive open
  (`NeverWritesHeldDisk`) is then the guard. A holder of a *partition* of a
  holder is not followed, so that the system disk may go unrecognised there;
  the disk is refused as in use all the same. `SystemDiskSeen` is stated
  accordingly.
* `Inspection`: reading an attribute fails or tells the truth; existence tests
  (`access`, `readdir`) do not fail; a device node bears the name of its own
  device; the kernel's `rotational` flag is right.
* `Fingerprint`: every write changes the times of the file, as a file system
  with fine enough time stamps ensures; one `fread` reads at one moment. The erasure's
  second reading compares no times (erase.c:66-102): what it confirms was in
  the file byte by byte, and as a whole only without a concurrent write.
  The compression function is uninterpreted; a digest stands for the blocks.
* `AuditText`: the limits of whole lines (16384 bytes) and of the hashed context
  (8192 bytes) are never reached: the twelve text arrays, doubled by escaping, add up
  to less (about 7400 and 5900 bytes with the fixed parts apart). The syllables of
  names are single bytes, so that no text spells half a name.
* `ReportGen`: removing the temporary file succeeds; only a kill leaves one.
* POSIX locks and signals; the journal's and the erasure's steps are those of the
  POSIX builds. Of the Windows and macOS builds the inspection is modelled, and
  that no disk gets past the policy there (`UsableMeansKnown`).

### Not modelled

* The calendar of a timestamp and the 64 hexadecimal digits of a hash
  (audit.c:159-165, 336-353): tests of one value, which change no state and on
  which nothing else depends.
* The compression of a block and the hexadecimal text of a digest
  (sha256.c:17-64, 117-136): straight-line bit arithmetic with published test vectors, in which TLC
  would only repeat the vectors.
* How IOCTL, IOKit and NVMe structures are encoded (platform.c:140-158, 313-348,
  purge.c:279-307), and the wording of what is printed (main.c:12-23, 54-75,
  device.c:7-53): no control.
* The dispatch of the commands that only print (main.c:135-182): `list`,
  `--version` and `--help` have no state; `verify-audit` is a verifier of
  `AuditJournal`.
* Release and packaging scripts, live image, demonstrations, screenshots:
  sequential, no run-time state of the product. Tests and fuzzers: read as
  statements of intent.
* Layout of the window and of the report: no control.

## 6. Disagreements found

Each is the subject of a run:

1. `OPERATOR_MANUAL.md:110` says a run that can no longer establish the final
   identity concludes `indéterminé`; `main.c:308-314` records `échoué` and
   exits 1 when the work failed *and* the identity was lost (run
   `EraseRunManual`).
2. `datafuckerr_qt.py:1123` asks the last question for a context that was edited,
   and a preparation that was invalidated, during the last inspection, although
   line 1058 refuses the same change one command earlier (run
   `GuiWindowOutdated`).
3. `datafuckerr_qt.py:1000` stores a preparation without inspection when the
   context was changed and changed back during the plan, and the window then
   raises at the end of every command (run `GuiWindowUninspected`).

Reproduced with TLC by a configuration of its own, outside the listed runs:

4. `AUDIT_SCHEMA.md:40` lists `destruction-physique` among the requested
   methods; `audit.c:407` rejects it as an executed method, so the refusal of
   `--method destroy` is never recorded (`JobPolicyRefusals.cfg`, module
   `MCJobPolicy`).
5. `CLIENT_REPORT.md:35` says an existing output is never silently replaced;
   the test and the rename are a rendering apart (`ReportGenExisting.cfg`,
   module `MCReportGen`).
6. `CLIENT_REPORT.md:47` says no report is kept of a journal different from the
   accepted one; only the count and the last line's own hash are compared, so
   a line edited in place before the reading gets through
   (`ReportGenEdited.cfg`, module `MCReportGen`). Appends and rotations do not
   (run `ReportGen`).

Read, not shown by a run: `OPERATOR_MANUAL.md:144` says exit code 1 after the
start may mean a lost terminal record, while the code returns 4 there, and
`ExitCodeBacked` holds with that stronger reading.

## 7. Plan

Done: the journal with its promise, the scanners, the text of a record, the
native purge, the run over bytes, the policy over what an inspection can return,
the inspection with its searches and fingerprints, the digest's streaming, the
window, the report generator; of each, the safety properties as theorems.

Left: the window and the engine composed, that is, what the last inspection in
the window is worth at the engine's own.
