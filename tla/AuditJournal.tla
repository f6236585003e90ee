---------------------------- MODULE AuditJournal ----------------------------
(***************************************************************************)
(* The audit journal under concurrent invocations of the engine.           *)
(*                                                                         *)
(* A process p of Procs is one run of `diskpurge erase ... --audit PATH`   *)
(* (src/src/main.c): it draws an operation identifier, writes either a     *)
(* refusal or a start, works on the medium, then writes one terminal       *)
(* record.  Each write is dfx_write_audit (src/src/audit.c), split at the  *)
(* points where another process, a crash or an I/O error can come between: *)
(* open the path, take the lock without waiting, validate, append,         *)
(* synchronise, close.  A verifier v is one run of `verify-audit PATH`.    *)
(*                                                                         *)
(* The environment rotates the journal (the path names another file), a    *)
(* process is killed, and the machine loses power: what was not            *)
(* synchronised may disappear.                                             *)
(***************************************************************************)
EXTENDS AuditRecords

CONSTANTS Procs,       \* the runs of `erase`
          Verifiers,   \* the runs of `verify-audit`
          ContextOf,   \* the context fingerprint each process writes
          Files,       \* inodes the audit path may name
          FirstFile,   \* the one it names at first
          NoFile,      \* no file: a sentinel
          MaxKills,    \* bound on killed processes
          MaxPowerLoss,\* bound on power losses
          MaxFaults    \* bound on I/O errors met by processes

ASSUME JournalAssumption ==
    /\ FirstFile \in Files
    /\ NoFile \notin Files
    /\ MaxKills \in Nat /\ MaxPowerLoss \in Nat /\ MaxFaults \in Nat

VARIABLES content,  \* content[f]: the complete lines of file f
          torn,     \* torn[f]: f ends in an incomplete line
          synced,   \* synced[f]: how many lines of f are known to be on the disk
          path,     \* the file the audit path names
          pc,       \* pc[p]: where process p stands
          op,       \* op[p]: job->operation_id
          ident,    \* ident[p]: job->audit_identity_a/b, NoFile until observed
          fd,       \* fd[p]: the file p has open
          want,     \* want[p]: the status p is writing
          seen,     \* seen[p]: the last line p's validation read
          acked,    \* acked[p]: the statuses whose write returned success
          code,     \* code[p]: the exit code, -1 while p runs
          vpc, vfd, \* the same for the verifiers
          verdict,  \* verdict[v]: the lines v vouched for, 0 if none
          kills, losses, faults  \* how many of each the environment has used

files == <<content, torn, synced>>
procs == <<pc, op, ident, fd, want, seen, acked, code>>
checks == <<vpc, vfd, verdict>>
budget == <<kills, losses, faults>>
vars == <<files, path, procs, checks, budget>>

Contexts == {ContextOf[p] : p \in Procs}
Record == [op : Ops, ctx : Contexts, status : Statuses, prev : Nat, by : Procs]
PcValues == {"start", "decide", "open", "lock", "validate", "append", "sync",
             "close", "work", "exit", "dead"}
Holding == {"validate", "append", "sync", "close"}  \* p holds the lock on fd[p]
Gone == {"exit", "dead"}

TypeOK ==
    /\ content \in [Files -> Seq(Record)]
    /\ torn \in [Files -> BOOLEAN]
    /\ synced \in [Files -> Nat]
    /\ path \in Files
    /\ pc \in [Procs -> PcValues]
    /\ op \in [Procs -> Ops \cup {NoOp}]
    /\ ident \in [Procs -> Files \cup {NoFile}]
    /\ fd \in [Procs -> Files \cup {NoFile}]
    /\ want \in [Procs -> Statuses]
    /\ seen \in [Procs -> Nat]
    /\ acked \in [Procs -> SUBSET Statuses]
    /\ code \in [Procs -> {-1, 0, 1, 4}]
    /\ vpc \in [Verifiers -> {"start", "lock", "check", "exit"}]
    /\ vfd \in [Verifiers -> Files \cup {NoFile}]
    /\ verdict \in [Verifiers -> Nat]
    /\ kills \in Nat /\ losses \in Nat /\ faults \in Nat

Init ==
    /\ content = [f \in Files |-> <<>>]
    /\ torn = [f \in Files |-> FALSE]
    /\ synced = [f \in Files |-> 0]
    /\ path = FirstFile
    /\ pc = [p \in Procs |-> "start"]
    /\ op = [p \in Procs |-> NoOp]
    /\ ident = [p \in Procs |-> NoFile]
    /\ fd = [p \in Procs |-> NoFile]
    /\ want = [p \in Procs |-> "refuse"]
    /\ seen = [p \in Procs |-> 0]
    /\ acked = [p \in Procs |-> {}]
    /\ code = [p \in Procs |-> -1]
    /\ vpc = [v \in Verifiers |-> "start"]
    /\ vfd = [v \in Verifiers |-> NoFile]
    /\ verdict = [v \in Verifiers |-> 0]
    /\ kills = 0 /\ losses = 0 /\ faults = 0

-----------------------------------------------------------------------------
(* flock: an exclusive holder excludes everyone, a shared one the writers. *)
(* Mutant: validation does not need the lock.                              *)
ExclusiveAppender(f) == \E p \in Procs : pc[p] \in {"append", "sync"} /\ fd[p] = f

ExclusiveHolder(f) == \E p \in Procs : pc[p] \in Holding /\ fd[p] = f
SharedHolder(f) == \E v \in Verifiers : vpc[v] = "check" /\ vfd[v] = f

Fault == faults < MaxFaults /\ faults' = faults + 1

(* The exit code of main once the write of status w is over.               *)
(* Mutants: a lost terminal record is not told; the code of a usage error. *)
ExitCodeOfStatus(w, ok) == CASE w = "reussi" -> 0 [] w = "indetermine" -> 4 [] OTHER -> 1

ExitCodeUsage(w, ok) ==
    IF w \in Terminal /\ ~ok THEN 4
    ELSE CASE w = "reussi" -> 0 [] w = "indetermine" -> 2 [] OTHER -> 1

ExitCode(w, ok) ==
    IF w \in Terminal /\ ~ok THEN 4
    ELSE CASE w = "reussi" -> 0 [] w = "indetermine" -> 4 [] OTHER -> 1

(* dfx_write_audit returns to main; whatever it had open is closed.        *)
Returns(p, ok) ==
    /\ fd' = [fd EXCEPT ![p] = NoFile]
    /\ acked' = [acked EXCEPT ![p] = IF ok THEN @ \cup {want[p]} ELSE @]
    /\ IF ok /\ want[p] = "en_cours"
       THEN /\ pc' = [pc EXCEPT ![p] = "work"]
            /\ UNCHANGED code
       ELSE /\ pc' = [pc EXCEPT ![p] = "exit"]
            /\ code' = [code EXCEPT ![p] = ExitCode(want[p], ok)]

-----------------------------------------------------------------------------
(* The run of `erase`, as far as the journal is concerned.                 *)

(* dfx_prepare_audit draws an identifier; nothing makes it unique.         *)
PrepareAudit(p) ==
    /\ pc[p] = "start"
    /\ \E o \in Ops : op' = [op EXCEPT ![p] = o]
    /\ pc' = [pc EXCEPT ![p] = "decide"]
    /\ UNCHANGED <<files, path, ident, fd, want, seen, acked, code, checks, budget>>

(* The random source fails: the run ends before it touches the journal.    *)
PrepareFails(p) ==
    /\ pc[p] = "start"
    /\ Fault
    /\ pc' = [pc EXCEPT ![p] = "exit"]
    /\ code' = [code EXCEPT ![p] = 1]
    /\ UNCHANGED <<files, path, op, ident, fd, want, seen, acked, checks, kills, losses>>

(* main decides what to write next: validation refused the job or accepted *)
(* it, or the work ended in one of three ways.                             *)
RequestWrite(p) ==
    /\ \/ pc[p] = "decide" /\ \E s \in {"refuse", "en_cours"} : want' = [want EXCEPT ![p] = s]
       \/ pc[p] = "work" /\ \E s \in Terminal : want' = [want EXCEPT ![p] = s]
    /\ pc' = [pc EXCEPT ![p] = "open"]
    /\ UNCHANGED <<files, path, op, ident, fd, seen, acked, code, checks, budget>>

-----------------------------------------------------------------------------
(* dfx_write_audit.                                                        *)

(* Mutant: the file observed first is not remembered.                      *)
AnyJournal(p) == TRUE

(* The path still names the file observed first, if there was one.         *)
SameJournal(p) == ident[p] \in {NoFile, path}

OpenAudit(p) ==
    /\ pc[p] = "open"
    /\ SameJournal(p)
    /\ fd' = [fd EXCEPT ![p] = path]
    /\ pc' = [pc EXCEPT ![p] = "lock"]
    /\ UNCHANGED <<files, path, op, ident, want, seen, acked, code, checks, budget>>

(* The path names another file than the one observed first, or the open,   *)
(* fstat or fchmod fails.                                                  *)
OpenAuditFails(p) ==
    /\ pc[p] = "open"
    /\ \/ ~SameJournal(p) /\ UNCHANGED faults
       \/ Fault
    /\ Returns(p, FALSE)
    /\ UNCHANGED <<files, path, op, ident, want, seen, checks, kills, losses>>

LockAudit(p) ==
    /\ pc[p] = "lock"
    /\ ~ExclusiveHolder(fd[p]) /\ ~SharedHolder(fd[p])
    /\ ident' = [ident EXCEPT ![p] = fd[p]]
    /\ pc' = [pc EXCEPT ![p] = "validate"]
    /\ UNCHANGED <<files, path, op, fd, want, seen, acked, code, checks, budget>>

(* Mutant: without LOCK_NB, a busy lock is waited for.                     *)
LockAuditWaits(p) == FALSE

(* LOCK_NB: a busy lock is an error at once, never a wait.                 *)
LockAuditFails(p) ==
    /\ pc[p] = "lock"
    /\ ExclusiveHolder(fd[p]) \/ SharedHolder(fd[p])
    /\ Returns(p, FALSE)
    /\ UNCHANGED <<files, path, op, ident, want, seen, checks, budget>>

Acceptable(p) ==
    /\ ~torn[fd[p]]
    /\ Accepts(content[fd[p]], op[p], ContextOf[p], want[p])

Validate(p) ==
    /\ pc[p] = "validate"
    /\ Acceptable(p)
    /\ seen' = [seen EXCEPT ![p] = Len(content[fd[p]])]
    /\ pc' = [pc EXCEPT ![p] = "append"]
    /\ UNCHANGED <<files, path, op, ident, fd, want, acked, code, checks, budget>>

(* The journal does not accept the record, or reading it or the clock      *)
(* fails: close and report.                                                *)
ValidateFails(p) ==
    /\ pc[p] = "validate"
    /\ \/ ~Acceptable(p) /\ UNCHANGED faults
       \/ Fault
    /\ Returns(p, FALSE)
    /\ UNCHANGED <<files, path, op, ident, want, seen, checks, kills, losses>>

RecordOf(p) == [op |-> op[p], ctx |-> ContextOf[p], status |-> want[p],
                prev |-> seen[p], by |-> p]

(* Mutant: the file is truncated first.                                    *)
WrittenAlone(p) == content' = [content EXCEPT ![fd[p]] = <<RecordOf(p)>>]

(* O_APPEND: the line goes to the end of the file as it is now.            *)
Written(p) == content' = [content EXCEPT ![fd[p]] = Append(@, RecordOf(p))]

AppendRecord(p) ==
    /\ pc[p] = "append"
    /\ Written(p)
    /\ pc' = [pc EXCEPT ![p] = "sync"]
    /\ UNCHANGED <<torn, synced, path, op, ident, fd, want, seen, acked, code, checks, budget>>

(* fwrite or fflush fails: nothing, a part of the line, or all of it may   *)
(* be in the file.                                                         *)
AppendOutcome(p) ==
    \/ UNCHANGED <<content, torn>>
    \/ torn' = [torn EXCEPT ![fd[p]] = TRUE] /\ UNCHANGED content
    \/ Written(p) /\ UNCHANGED torn

AppendFails(p) ==
    /\ pc[p] = "append"
    /\ Fault
    /\ AppendOutcome(p)
    /\ Returns(p, FALSE)
    /\ UNCHANGED <<synced, path, op, ident, want, seen, checks, kills, losses>>

(* Mutant: fflush alone.                                                   *)
Flushed(p) == UNCHANGED synced

(* fsync: every line of the file is on the disk.                           *)
Synchronised(p) == synced' = [synced EXCEPT ![fd[p]] = Len(content[fd[p]])]

SyncRecord(p) ==
    /\ pc[p] = "sync"
    /\ Synchronised(p)
    /\ pc' = [pc EXCEPT ![p] = "close"]
    /\ UNCHANGED <<content, torn, path, op, ident, fd, want, seen, acked, code, checks, budget>>

(* fsync fails: the line is in the file, and the caller is told it is not. *)
SyncFails(p) ==
    /\ pc[p] = "sync"
    /\ Fault
    /\ Returns(p, FALSE)
    /\ UNCHANGED <<files, path, op, ident, want, seen, checks, kills, losses>>

CloseAudit(p) ==
    /\ pc[p] = "close"
    /\ \/ Returns(p, TRUE) /\ UNCHANGED faults
       \/ Fault /\ Returns(p, FALSE)
    /\ UNCHANGED <<files, path, op, ident, want, seen, checks, kills, losses>>

-----------------------------------------------------------------------------
(* dfx_verify_audit_file.                                                  *)

VerifyOpen(v) ==
    /\ vpc[v] = "start"
    /\ vfd' = [vfd EXCEPT ![v] = path]
    /\ vpc' = [vpc EXCEPT ![v] = "lock"]
    /\ UNCHANGED <<files, path, procs, verdict, budget>>

VerifyLock(v) ==
    /\ vpc[v] = "lock"
    /\ vpc' = [vpc EXCEPT ![v] = IF ExclusiveHolder(vfd[v]) THEN "exit" ELSE "check"]
    /\ UNCHANGED <<files, path, procs, vfd, verdict, budget>>

Vouches(f) ==
    /\ ~torn[f]
    /\ ChainOk(content[f]) /\ LifecycleOk(content[f]) /\ LimitsOk(content[f])
    /\ ClosedJournal(content[f])

VerifyCheck(v) ==
    /\ vpc[v] = "check"
    /\ vpc' = [vpc EXCEPT ![v] = "exit"]
    /\ verdict' = [verdict EXCEPT ![v] = IF Vouches(vfd[v]) THEN Len(content[vfd[v]]) ELSE 0]
    /\ UNCHANGED <<files, path, procs, vfd, budget>>

-----------------------------------------------------------------------------
(* The environment.                                                        *)

(* The path is given to another file (rotation, restoration).              *)
ReplaceJournal ==
    /\ \E f \in Files \ {path} : path' = f
    /\ UNCHANGED <<files, procs, checks, budget>>

(* A process dies: the kernel closes its files; an append may be half done.*)
Kill(p) ==
    /\ kills < MaxKills /\ kills' = kills + 1
    /\ pc[p] \notin Gone \cup {"start"}
    /\ IF pc[p] = "append" THEN AppendOutcome(p) ELSE UNCHANGED <<content, torn>>
    /\ pc' = [pc EXCEPT ![p] = "dead"]
    /\ fd' = [fd EXCEPT ![p] = NoFile]
    /\ UNCHANGED <<synced, path, op, ident, want, seen, acked, code, checks, losses, faults>>

(* Lines that were not synchronised may be lost, the last one in part.     *)
SurvivesPowerLoss(f, k, t) ==
    /\ k \in synced[f]..Len(content[f])
    /\ t => k < Len(content[f]) \/ torn[f]

PowerLoss ==
    /\ losses < MaxPowerLoss /\ losses' = losses + 1
    /\ \E kept \in [Files -> 0..MaxRecords], broken \in [Files -> BOOLEAN] :
         /\ \A f \in Files : SurvivesPowerLoss(f, kept[f], broken[f])
         /\ content' = [f \in Files |-> SubSeq(content[f], 1, kept[f])]
         /\ torn' = broken
    /\ pc' = [p \in Procs |-> IF pc[p] = "start" \/ pc[p] \in Gone THEN pc[p] ELSE "dead"]
    /\ fd' = [p \in Procs |-> NoFile]
    /\ vpc' = [v \in Verifiers |-> IF vpc[v] = "start" THEN "start" ELSE "exit"]
    /\ UNCHANGED <<synced, path, op, ident, want, seen, acked, code, vfd, verdict, kills, faults>>

-----------------------------------------------------------------------------
Step(p) ==
    \/ PrepareAudit(p) \/ PrepareFails(p) \/ RequestWrite(p)
    \/ OpenAudit(p) \/ OpenAuditFails(p) \/ LockAudit(p) \/ LockAuditFails(p)
    \/ Validate(p) \/ ValidateFails(p) \/ AppendRecord(p) \/ AppendFails(p)
    \/ SyncRecord(p) \/ SyncFails(p) \/ CloseAudit(p)

VerifyStep(v) == VerifyOpen(v) \/ VerifyLock(v) \/ VerifyCheck(v)

Next ==
    \/ \E p \in Procs : Step(p) \/ Kill(p)
    \/ \E v \in Verifiers : VerifyStep(v)
    \/ ReplaceJournal
    \/ PowerLoss

Spec == Init /\ [][Next]_vars

(* The operating system keeps scheduling each process until it ends.       *)
Fairness == \A p \in Procs : WF_vars(Step(p))

FairSpec == Spec /\ Fairness

-----------------------------------------------------------------------------
(* p has been told its start is in the journal and has not ended: the      *)
(* medium may be written between now and its terminal record.              *)
InOperation(p) == "en_cours" \in acked[p] /\ pc[p] \notin Gone

(* The same, from the moment the start is in the file to the moment the    *)
(* terminal record is.                                                     *)
Owns(p) ==
    \/ want[p] = "en_cours" /\ pc[p] \in {"sync", "close"}
    \/ "en_cours" \in acked[p] /\ pc[p] \in {"work", "open", "lock", "validate", "append"}

WrittenBy(p, f) == {i \in 1..Len(content[f]) : content[f][i].by = p}

(* Whatever processes interleave, fail, die or lose power, the complete    *)
(* lines of a journal file always form a journal that verify-audit would   *)
(* read without a chain, life-cycle or limit error: the lock that spans    *)
(* validate_chain, validate_semantics and the append in dfx_write_audit.   *)
JournalValid ==
    \A f \in Files : ChainOk(content[f]) /\ LifecycleOk(content[f]) /\ LimitsOk(content[f])

(* Two runs that share a journal never work on their media at the same     *)
(* time, although the lock is released between the start and the terminal  *)
(* record: the open operation in the file is what excludes the second.     *)
WorkExclusive ==
    \A p, q \in Procs : InOperation(p) /\ InOperation(q) /\ ident[p] = ident[q] => p = q

(* A run whose start was accepted can always record its outcome, whatever  *)
(* it is: nobody appends behind its start, the line it needs is reserved,  *)
(* and no half-written line blocks it.  Only a busy lock, a replaced file  *)
(* or an I/O error can still refuse the terminal record.                   *)
TerminalReserved ==
    \A p \in Procs : InOperation(p) /\ Owns(p) =>
        /\ ~torn[ident[p]]
        /\ \A w \in Terminal : Accepts(content[ident[p]], op[p], ContextOf[p], w)

(* A status whose write returned success is on the disk for good, in the   *)
(* file the run first observed: main starts the work only behind a start   *)
(* that a power loss cannot take back.                                     *)
AckedDurable ==
    \A p \in Procs : \A w \in acked[p] :
        /\ ident[p] \in Files
        /\ \E i \in 1..synced[ident[p]] :
              /\ i <= Len(content[ident[p]])
              /\ content[ident[p]][i].by = p
              /\ content[ident[p]][i].status = w

(* The exit code can be trusted against the journal: 0 means a durable     *)
(* success, and 1 after an accepted start means a durable failure - never  *)
(* a lost terminal record.                                                 *)
ExitCodeBacked ==
    \A p \in Procs :
        /\ code[p] = 0 => {"en_cours", "reussi"} = acked[p]
        /\ code[p] = 1 /\ "en_cours" \in acked[p] => "echoue" \in acked[p]
        /\ code[p] = 4 => "en_cours" \in acked[p]

(* All the records of a run are in one file: a journal replaced between    *)
(* the start and the terminal record never receives an orphan terminal.    *)
OneFilePerRun ==
    \A p \in Procs : \A f, g \in Files : WrittenBy(p, f) # {} /\ WrittenBy(p, g) # {} => f = g

(* Once verify-audit has vouched for n lines, no line is ever added for an *)
(* operation those lines contain: its outcome was final when it was read.  *)
VerdictFinal ==
    \A v \in Verifiers : verdict[v] > 0 /\ losses = 0 =>
        \A i \in 1..verdict[v], j \in (verdict[v] + 1)..Len(content[vfd[v]]) :
            content[vfd[v]][i].op # content[vfd[v]][j].op

(* History is never rewritten: a step adds lines at the end, a power loss  *)
(* takes only lines that were never synchronised.                          *)
IsPrefixOf(s, t) == Len(s) <= Len(t) /\ \A i \in 1..Len(s) : s[i] = t[i]

AppendOnly ==
    [][\A f \in Files :
         /\ synced[f] <= synced'[f]
         /\ IsPrefixOf(SubSeq(content[f], 1, synced[f]), content'[f])
         /\ losses' = losses => IsPrefixOf(content[f], content'[f])]_vars

(* No run waits for another: whatever holds the lock, replaces the file or *)
(* fails, every run that began ends.                                       *)
RunsEnd == \A p \in Procs : pc[p] # "start" ~> pc[p] \in Gone

-----------------------------------------------------------------------------
(* The promise of AuditPromise, read off the files and the return values.  *)
LogOf(f) == {<<content[f][i].op, content[f][i].status>> : i \in 1..Len(content[f])}
ToldOf(f) ==
    UNION {{<<op[p], w>> : w \in acked[p]} : p \in {q \in Procs : ident[q] = f}}

Promise == INSTANCE AuditPromise WITH
    Journals <- Files, Operations <- Ops,
    log <- [f \in Files |-> LogOf(f)], told <- [f \in Files |-> ToldOf(f)]

(* The journal protocol implements that promise: every step of a process,  *)
(* a crash or a power loss is one of its steps or changes nothing in it.   *)
KeepsPromise == Promise!Spec
=============================================================================
