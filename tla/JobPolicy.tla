----------------------------- MODULE JobPolicy -----------------------------
(***************************************************************************)
(* Which jobs the engine executes, and whether the journal can tell:       *)
(* dfx_resolve_method and dfx_validate_job (src/src/device.c), the         *)
(* qualification table (src/src/qualification.c), the order in which main  *)
(* applies them to `plan` and `erase`, and the rules of                    *)
(* audit_record_semantic_error (src/src/audit.c), a second policy written  *)
(* in another file over the same job.                                      *)
(*                                                                         *)
(* The device is what an inspection finds of the target (Inspection); the  *)
(* fields a qualification compares beyond kind, method, action and         *)
(* verification are one flag.                                              *)
(***************************************************************************)
EXTENDS Inspection, NativeOutcome

CONSTANT Table  \* the qualified tuples compiled in (none in the distribution)

Methods == {"auto", "clear", "purge", "destroy"}
NativeActions == {"crypto", "block"}
NoAction == "none"
Confirmations == {"identifier", "data loss", "internal", "journal", "two people"}

ASSUME TableAssumption ==
    Table \subseteq [kind : Kinds, method : Methods, action : NativeActions \cup {NoAction},
                     full : BOOLEAN]

VARIABLES target,  \* what argv[2] names (an observation variable)
          dev,     \* job->device
          matches, \* the table's model, firmware, transport, system and size are dev's
          options, \* the command line
          job,     \* the requested method, the resolved one, its native action
          pc

vars == <<target, dev, matches, options, job, pc>>

(* The build, the command (plan or erase), full_verify with                *)
(* verification_explicit, the confirmations and job->lab_mode.             *)
NoOptions == [build |-> "standard", command |-> "none", verify |-> "default",
              given |-> {}, lab |-> FALSE]

(* job is zeroed before the inspection fills job->device in.               *)
NoDevice == [kind |-> "unknown", known |-> FALSE, used |-> FALSE, readOnly |-> FALSE,
             internal |-> FALSE, whole |-> FALSE, aligned |-> FALSE, unique |-> FALSE]

Init ==
    /\ target \in Target
    /\ Odd(target, {})
    /\ dev = NoDevice
    /\ matches \in BOOLEAN
    /\ options = NoOptions
    /\ job = [requested |-> "auto", method |-> "auto", action |-> NoAction]
    /\ pc = "inspect"

-----------------------------------------------------------------------------
InspectTarget ==
    /\ pc = "inspect"
    /\ \E unread \in SUBSET Attributes :
         /\ Odd(target, unread)
         /\ IF Inspectable(target, unread)
            THEN dev' = Inspected(target, unread) /\ pc' = "parse"
            ELSE pc' = "unavailable" /\ UNCHANGED dev
    /\ UNCHANGED <<target, matches, options, job>>

(* The argument loop: --lab-mode is refused by a standard build, and by    *)
(* `plan`, as every confirmation is.                                       *)
ParseOptions ==
    /\ pc = "parse"
    /\ \E build \in {"standard", "lab"}, verify \in {"default", "full", "sample"}, m \in Methods :
         /\ job' = [requested |-> m, method |-> m, action |-> NoAction]
         /\ \/ options' = [build |-> build, command |-> "plan", verify |-> verify,
                           given |-> {}, lab |-> FALSE]
            \/ \E given \in SUBSET Confirmations, lab \in BOOLEAN :
                 /\ lab => build = "lab"
                 /\ options' = [build |-> build, command |-> "erase", verify |-> verify,
                                given |-> given, lab |-> lab]
    /\ pc' = "resolve"
    /\ UNCHANGED <<target, dev, matches>>

(* accept_once, copy_option, parse_method: an option given twice, unknown  *)
(* to the command, too long, unsafe or without a valid value ends the run. *)
RejectOptions ==
    /\ pc = "parse"
    /\ pc' = "usage"
    /\ UNCHANGED <<target, dev, matches, options, job>>

-----------------------------------------------------------------------------
Regular == dev.kind = "file"

(* The method that `auto` stands for.                                      *)
AutoMethod == IF dev.kind \in {"hdd", "file"} THEN "clear" ELSE "purge"

(* dfx_native_purge_action: what the controller offers, asked on Linux of  *)
(* a direct namespace (open_nvme), which no other path is.                 *)
MayOffer == target.platform = "linux" /\ target.object = "disk" /\ dev.kind = "nvme"

ResolveMethod ==
    /\ pc = "resolve"
    /\ LET method == IF job.method = "auto" THEN AutoMethod ELSE job.method
       IN  IF method # "purge"
           THEN pc' = "validate" /\ job' = [job EXCEPT !.method = method]
           ELSE \/ pc' = "unavailable" /\ UNCHANGED job
                \/ /\ MayOffer
                   /\ pc' = "validate"
                   /\ \E action \in NativeActions :
                        job' = [job EXCEPT !.method = method, !.action = action]
    /\ UNCHANGED <<target, dev, matches, options>>

(* dfx_apply_qualification.                                                *)
Qualified(j) ==
    \/ Regular
    \/ /\ matches
       /\ \E entry \in Table :
            /\ entry.kind = dev.kind /\ entry.method = j.method /\ entry.action = j.action
            /\ entry.full = (options.verify # "sample")

-----------------------------------------------------------------------------
(* dfx_validate_job, by subject.                                           *)

(* Mutant: a disk without a serial of its own is accepted.                 *)
SoundDeviceAnonymous ==
    /\ ~dev.used /\ ~dev.readOnly
    /\ Regular \/ (dev.known /\ dev.whole /\ dev.aligned)

SoundDevice ==
    /\ ~dev.used /\ ~dev.readOnly
    /\ Regular \/ (dev.known /\ dev.whole /\ dev.aligned /\ dev.unique)

(* Mutants: a flash disk may be cleared; a qualified disk may be.          *)
FlashMethodAllowed(j, inLab) ==
    /\ j.method \notin {"destroy", "auto"} /\ dev.kind # "unknown"
    /\ j.method = "clear" => Regular \/ inLab
    /\ j.method = "purge" => dev.kind = "nvme" /\ j.action # NoAction /\ options.verify = "default"

QualifiedMethodAllowed(j, inLab) ==
    /\ j.method \notin {"destroy", "auto"} /\ dev.kind # "unknown"
    /\ j.method = "clear" => dev.kind \in {"hdd", "file"}
    /\ j.method = "purge" => dev.kind = "nvme" /\ j.action # NoAction /\ options.verify = "default"

MethodAllowed(j, inLab) ==
    /\ j.method \notin {"destroy", "auto"} /\ dev.kind # "unknown"
    /\ j.method = "clear" => dev.kind \in {"hdd", "file"} /\ (Regular \/ inLab)
    /\ j.method = "purge" => dev.kind = "nvme" /\ j.action # NoAction /\ options.verify = "default"

Needed ==
    {"identifier"} \cup (IF Regular THEN {} ELSE {"data loss", "journal", "two people"})
                   \cup (IF dev.internal THEN {"internal"} ELSE {})

(* Mutant: the qualification is asked for when the job is executed.        *)
ValidQualifiedLate(j, inLab, execute, confirmed) ==
    /\ SoundDevice
    /\ MethodAllowed(j, inLab)
    /\ execute => Qualified(j) \/ (inLab /\ options.build = "lab")
    /\ execute => Needed \subseteq confirmed

Valid(j, inLab, execute, confirmed) ==
    /\ SoundDevice
    /\ MethodAllowed(j, inLab)
    /\ Qualified(j) \/ (inLab /\ options.build = "lab")
    /\ execute => Needed \subseteq confirmed

ValidateJob ==
    /\ pc = "validate"
    /\ pc' = IF Valid(job, options.lab, options.command = "erase", options.given) THEN "accepted" ELSE "refused"
    /\ UNCHANGED <<target, dev, matches, options, job>>

Next == InspectTarget \/ ParseOptions \/ RejectOptions \/ ResolveMethod \/ ValidateJob

Spec == Init /\ [][Next]_vars

-----------------------------------------------------------------------------
(* What the record of this job with that verdict says.                     *)
RecordFor(status, observed, native) ==
    [status |-> status, observed |-> observed, native |-> native,
     executed |-> job.method, action |-> job.action,
     controller |-> job.method = "purge", qualified |-> Qualified(job)]

(* parse_audit_record knows two executed methods.                          *)
Parses(r) == r.executed \in {"clear", "purge"}

(* audit_record_semantic_error, as far as it depends on the policy.        *)
Consistent(r) ==
    LET first == r.status \in {"refuse", "en_cours"}
        native == r.executed = "purge"
    IN  /\ r.status = "reussi" => r.observed
        /\ first => ~r.observed /\ r.native = NoStatus
        /\ native <=> r.action # NoAction
        /\ native <=> r.controller
        /\ native => dev.kind = "nvme"
        /\ ~native => r.native = NoStatus
        /\ r.status = "reussi" /\ native => r.native \in Logged(Done)
        /\ r.status # "refuse" => dev.whole /\ dev.unique
        /\ r.status # "refuse" /\ Regular => r.executed = "clear" /\ r.qualified
        /\ r.status # "refuse" /\ ~Regular =>
             /\ dev.aligned /\ "two people" \in options.given
             /\ options.lab \/ r.qualified
             /\ r.executed = "clear" => dev.kind = "hdd"

(* How a run of this job can end: with which status, and which native one. *)
(* A success whose final identity is not observed becomes indeterminate.   *)
Endings ==
    LET statuses(result) == CASE result = 0 -> {"reussi", "indetermine"}
                              [] result = Indeterminate -> {"indetermine"}
                              [] OTHER -> {"echoue"}
    IN  IF job.method = "purge"
        THEN UNION {statuses(o[1]) \X {o[2]} : o \in Outcomes}
        ELSE {"reussi", "echoue", "indetermine"} \X {NoStatus}

-----------------------------------------------------------------------------
(* Every job that dfx_validate_job lets main execute can be recorded, at   *)
(* its start and however it ends: no rule of audit.c is stricter than the  *)
(* rules of device.c, so no erased medium is left without a verdict.       *)
AcceptedRecordable ==
    pc = "accepted" /\ options.command = "erase" =>
        /\ Parses(RecordFor("en_cours", FALSE, NoStatus))
        /\ Consistent(RecordFor("en_cours", FALSE, NoStatus))
        /\ \A e \in Endings, seen \in BOOLEAN :
             (e[1] = "reussi" => seen) => Consistent(RecordFor(e[1], seen, e[2]))

(* `plan` says executable exactly of the jobs that `erase` would execute   *)
(* once every confirmation is given, laboratory mode apart.                *)
PlanAgrees ==
    pc \in {"accepted", "refused"} /\ ~options.lab =>
        LET executable == Valid(job, FALSE, FALSE, {})
        IN  /\ executable <=> Valid(job, FALSE, TRUE, Confirmations)
            /\ options.command = "plan" => (pc = "accepted" <=> executable)
            /\ options.command = "erase" /\ pc = "accepted" => executable

(* Outside the laboratory mode a disk is only ever purged by its NVMe      *)
(* controller, and only for a tuple of the table: a qualified hard disk    *)
(* stays refused (device.c:120), and zeros are never written over flash,   *)
(* in any build.                                                           *)
DestructiveScope ==
    pc = "accepted" =>
        /\ ~options.lab /\ ~Regular =>
             job.method = "purge" /\ \E entry \in Table : entry.kind = "nvme" /\ entry.full
        /\ job.method = "clear" => dev.kind \in {"hdd", "file"}

(* Whatever an inspection could not read, a disk that dfx_validate_job     *)
(* accepts is, as a fact, a whole disk, free, writable, with a serial of   *)
(* its own and a sound geometry; its medium is what it was taken for; if   *)
(* it is internal the operator was told to say so; and `list` shows it.    *)
(* On macOS and Windows no disk gets that far.                             *)
UsableMeansKnown ==
    pc = "accepted" /\ ~Regular =>
        /\ target.platform = "linux" /\ target.object = "disk" /\ target.defects = {}
        /\ dev.kind = target.medium
        /\ options.command = "erase" /\ ~target.external => "internal" \in options.given
        /\ Listed(target, {})

(* The schema (AUDIT_SCHEMA.md:40) lists destruction-physique among the    *)
(* requested methods a record may carry: a refusal is recorded whatever    *)
(* the method asked for.                                                   *)
RefusalRecordable ==
    pc = "refused" /\ options.command = "erase" =>
        /\ Parses(RecordFor("refuse", FALSE, NoStatus))
        /\ Consistent(RecordFor("refuse", FALSE, NoStatus))
=============================================================================
