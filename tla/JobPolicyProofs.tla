-------------------------- MODULE JobPolicyProofs --------------------------
(***************************************************************************)
(* The policies of device.c and audit.c over the same job, for every table *)
(* of qualified tuples, every target and every set of attributes that      *)
(* cannot be read.                                                         *)
(*                                                                         *)
(* PolicyInv gathers what the run has settled when the job is validated:   *)
(* that the device is what an inspection of the target can yield, which    *)
(* command lines the argument loop lets through, that a purge alone has a  *)
(* native action, and that the verdict is that of dfx_validate_job.        *)
(***************************************************************************)
EXTENDS JobPolicy, TLAPS

Inspecting == {"inspect", "unavailable"}
Judged == {"accepted", "refused"}

(* The device comes from an inspection that succeeded.                     *)
DeviceInv ==
    /\ target \in Target
    /\ pc \in Inspecting \/ \E unread \in SUBSET Attributes : dev = Inspected(target, unread)

(* The command line is one that the argument loop accepts.                 *)
OptionsInv == pc \in {"resolve", "validate"} \cup Judged =>
    /\ options.command \in {"plan", "erase"}
    /\ options.command = "plan" => options.given = {} /\ ~options.lab
    /\ options.lab => options.build = "lab"
    /\ options.given \subseteq Confirmations

(* A native action belongs to a purge, and a purge to an NVMe drive.       *)
MethodInv ==
    /\ job \in [requested : Methods, method : Methods, action : NativeActions \cup {NoAction}]
    /\ pc \notin {"validate"} \cup Judged => job.action = NoAction
    /\ pc \in {"validate"} \cup Judged =>
         /\ job.method # "auto"
         /\ job.method = "purge" <=> job.action # NoAction
         /\ job.method = "purge" => MayOffer

JobValid == Valid(job, options.lab, options.command = "erase", options.given)

VerdictInv == (pc = "accepted" => JobValid) /\ (pc = "refused" => ~JobValid)

PolicyInv == DeviceInv /\ OptionsInv /\ MethodInv /\ VerdictInv

-----------------------------------------------------------------------------
(* Preservation.                                                           *)

(* Only the inspection fills the device in.                                *)
LEMMA DeviceStep ==
    ASSUME DeviceInv, [Next]_vars
    PROVE  DeviceInv'
  <1> USE DEF DeviceInv, Inspecting
  <1>1. CASE InspectTarget
    BY <1>1 DEF InspectTarget
  <1>2. CASE ParseOptions \/ RejectOptions
    BY <1>2 DEF ParseOptions, RejectOptions
  <1>3. CASE ResolveMethod
    BY <1>3 DEF ResolveMethod
  <1>4. CASE ValidateJob
    BY <1>4 DEF ValidateJob
  <1>5. CASE UNCHANGED vars
    BY <1>5 DEF vars
  <1> QED
    BY <1>1, <1>2, <1>3, <1>4, <1>5 DEF Next

(* Only the argument loop chooses the options.                             *)
LEMMA OptionsStep ==
    ASSUME OptionsInv, [Next]_vars
    PROVE  OptionsInv'
  <1> USE DEF OptionsInv, Judged
  <1>1. CASE InspectTarget
    BY <1>1 DEF InspectTarget
  <1>2. CASE ParseOptions
    <2>1. PICK build \in {"standard", "lab"}, verify \in {"default", "full", "sample"} :
             \/ options' = [build |-> build, command |-> "plan", verify |-> verify,
                            given |-> {}, lab |-> FALSE]
             \/ \E given \in SUBSET Confirmations, lab \in BOOLEAN :
                  /\ lab => build = "lab"
                  /\ options' = [build |-> build, command |-> "erase", verify |-> verify,
                                 given |-> given, lab |-> lab]
      BY <1>2 DEF ParseOptions
    <2> QED
      BY <2>1
  <1>3. CASE RejectOptions
    BY <1>3 DEF RejectOptions
  <1>4. CASE ResolveMethod
    BY <1>4 DEF ResolveMethod
  <1>5. CASE ValidateJob
    BY <1>5 DEF ValidateJob
  <1>6. CASE UNCHANGED vars
    BY <1>6 DEF vars
  <1> QED
    BY <1>1, <1>2, <1>3, <1>4, <1>5, <1>6 DEF Next

(* A purge is resolved with the action its controller offers, and nothing  *)
(* else has one.                                                           *)
LEMMA MethodStep ==
    ASSUME MethodInv, [Next]_vars
    PROVE  MethodInv'
  <1> USE DEF MethodInv, Judged, Methods
  <1>1. CASE InspectTarget
    BY <1>1 DEF InspectTarget
  <1>2. CASE ParseOptions
    BY <1>2 DEF ParseOptions
  <1>3. CASE RejectOptions
    BY <1>3 DEF RejectOptions
  <1>4. CASE ResolveMethod
    <2> DEFINE method == IF job.method = "auto" THEN AutoMethod ELSE job.method
    <2>1. method \in Methods \ {"auto"}
      BY DEF AutoMethod
    <2>2. /\ UNCHANGED <<target, dev>> /\ job.action = NoAction
          /\ \/ method # "purge" /\ pc' = "validate" /\ job' = [job EXCEPT !.method = method]
             \/ pc' = "unavailable" /\ job' = job
             \/ /\ MayOffer /\ method = "purge" /\ pc' = "validate"
                /\ \E action \in NativeActions :
                     job' = [job EXCEPT !.method = method, !.action = action]
      BY <1>4 DEF ResolveMethod
    <2> HIDE DEF method
    <2> QED
      BY <2>1, <2>2 DEF MayOffer, NativeActions, NoAction
  <1>5. CASE ValidateJob
    BY <1>5 DEF ValidateJob, MayOffer
  <1>6. CASE UNCHANGED vars
    BY <1>6 DEF vars, MayOffer
  <1> QED
    BY <1>1, <1>2, <1>3, <1>4, <1>5, <1>6 DEF Next

(* The verdict is the validation's, and the job is not touched afterwards. *)
LEMMA VerdictStep ==
    ASSUME VerdictInv, [Next]_vars
    PROVE  VerdictInv'
  <1>1. CASE InspectTarget \/ ParseOptions \/ RejectOptions \/ ResolveMethod
    <2>1. pc' \notin Judged
      BY <1>1 DEF InspectTarget, ParseOptions, RejectOptions, ResolveMethod, Judged
    <2> QED
      BY <2>1 DEF VerdictInv, Judged
  <1>2. CASE ValidateJob
    <2>1. UNCHANGED <<target, dev, matches, options, job>>
      BY <1>2 DEF ValidateJob
    <2>2. JobValid' <=> JobValid
      BY <2>1 DEF JobValid, Valid, SoundDevice, MethodAllowed, Qualified, Needed,
         Regular
    <2>3. pc' = IF JobValid THEN "accepted" ELSE "refused"
      BY <1>2 DEF ValidateJob, JobValid
    <2> QED
      BY <2>2, <2>3 DEF VerdictInv
  <1>3. CASE UNCHANGED vars
    <2>1. JobValid' <=> JobValid
      BY <1>3 DEF vars, JobValid, Valid, SoundDevice, MethodAllowed, Qualified, Needed,
         Regular
    <2> QED
      BY <1>3, <2>1 DEF VerdictInv, vars
  <1> QED
    BY <1>1, <1>2, <1>3 DEF Next

(* What the run settles, for every table, target and failing read.         *)
THEOREM PolicyInvariant == Spec => []PolicyInv
  <1>1. Init => PolicyInv
    <2> SUFFICES ASSUME Init PROVE PolicyInv
      OBVIOUS
    <2>1. /\ pc = "inspect" /\ target \in Target
          /\ job = [requested |-> "auto", method |-> "auto", action |-> NoAction]
      BY DEF Init
    <2> QED
      BY <2>1 DEF PolicyInv, DeviceInv, OptionsInv, MethodInv, VerdictInv, Inspecting,
         Judged,
         Methods
  <1>2. PolicyInv /\ [Next]_vars => PolicyInv'
    BY DeviceStep, OptionsStep, MethodStep, VerdictStep DEF PolicyInv
  <1> QED
    BY <1>1, <1>2, PTL DEF Spec

-----------------------------------------------------------------------------
(* What an accepted device is.                                             *)

(* A regular file is inspected as one, and is whole and unique.            *)
LEMMA RegularDevice ==
    ASSUME DeviceInv, pc \in Judged, Regular
    PROVE  dev.whole /\ dev.unique /\ dev.known /\ dev.aligned
  <1>1. PICK unread \in SUBSET Attributes : dev = Inspected(target, unread)
    BY DEF DeviceInv, Judged, Inspecting
  <1>2. target \in Target
    BY DEF DeviceInv
  <1>3. CASE target.object = "file"
    BY <1>1, <1>3 DEF Inspected, FileDevice
  <1>4. CASE target.object # "file" /\ target.platform = "linux"
    BY <1>1, <1>4 DEF Inspected, LinuxDevice, LinuxKind, Regular
  <1>5. CASE target.object # "file" /\ target.platform = "macos"
    <2>1. dev.kind \in {"unknown", "nvme", target.medium}
      BY <1>1, <1>5 DEF Inspected, MacDevice
    <2> QED
      BY <1>2, <2>1 DEF Regular, Target, Media
  <1>6. CASE target.object # "file" /\ target.platform = "windows"
    BY <1>1, <1>6 DEF Inspected, WindowsDevice, Regular
  <1> QED
    BY <1>2, <1>3, <1>4, <1>5, <1>6 DEF Target, Platforms

(* What is not a file and is accepted is a disk under Linux whose every    *)
(* defect the inspection would have shown.                                 *)
LEMMA SoundDisk ==
    ASSUME DeviceInv, pc \in Judged, SoundDevice, ~Regular, dev.kind # "unknown"
    PROVE  /\ target \in Target /\ target.platform = "linux" /\ target.object = "disk"
           /\ target.defects = {}
           /\ dev.kind = target.medium
           /\ ~target.external => dev.internal
  <1>1. PICK unread \in SUBSET Attributes : dev = Inspected(target, unread)
    BY DEF DeviceInv, Judged, Inspecting
  <1>2. target \in Target
    BY DEF DeviceInv
  <1>3. target.object # "file"
    BY <1>1 DEF Inspected, FileDevice, Regular
  <1>4. target.platform = "linux"
    <2>1. dev.known
      BY DEF SoundDevice
    <2>2. target.platform = "macos" => ~dev.known
      BY <1>1, <1>3 DEF Inspected, MacDevice
    <2>3. target.platform = "windows" => ~dev.known
      BY <1>1, <1>3 DEF Inspected, WindowsDevice
    <2> QED
      BY <1>2, <2>1, <2>2, <2>3 DEF Target, Platforms
  <1>5. dev = LinuxDevice(target, unread)
    BY <1>1, <1>3, <1>4 DEF Inspected
  <1>6. /\ ~(InUse(target) /\ "mounts" \notin unread)
        /\ ~(Has(target, "read-only") /\ "writable" \notin unread)
        /\ LinuxKnown(target, unread) /\ target.object # "partition"
        /\ ~Has(target, "misaligned")
        /\ HasDeviceText(target) /\ Credible(target)
    BY <1>5 DEF LinuxDevice, SoundDevice
  <1>7. target.object = "disk"
    BY <1>6 DEF HasDeviceText
  <1>8. target.defects = {}
    <2>1. \A d \in Defects : d \notin target.defects
      BY <1>6 DEF Defects, InUse, Has, Credible, LinuxKnown
    <2> QED
      BY <1>2, <2>1 DEF Target
  <1>9. dev.kind = target.medium
    <2>1. dev.kind = LinuxKind(target, unread)
      BY <1>5 DEF LinuxDevice
    <2>2. target.medium \in {"hdd", "ssd", "nvme"}
      BY <1>2 DEF Target, Media
    <2> QED
      BY <1>7, <2>1, <2>2 DEF LinuxKind
  <1>10. ~target.external => dev.internal
    BY <1>5 DEF LinuxDevice
  <1> QED
    BY <1>2, <1>4, <1>7, <1>8, <1>9, <1>10

(* What the validation has settled of an accepted job, whoever reads it.   *)
LEMMA AcceptedJob ==
    ASSUME PolicyInv, pc = "accepted"
    PROVE  /\ SoundDevice
           /\ job.method \in {"clear", "purge"}
           /\ job.method = "purge" <=> job.action # NoAction
           /\ job.method = "purge" => dev.kind = "nvme" /\ options.verify = "default"
           /\ job.method = "clear" => dev.kind \in {"hdd", "file"} /\ (Regular \/ options.lab)
           /\ dev.kind # "unknown"
           /\ Qualified(job) \/ options.lab
           /\ options.command = "erase" => Needed \subseteq options.given
           /\ dev.whole /\ dev.unique /\ dev.aligned
  <1>1. JobValid
    BY DEF PolicyInv, VerdictInv
  <1>2. /\ SoundDevice
        /\ MethodAllowed(job, options.lab)
        /\ Qualified(job) \/ options.lab
        /\ options.command = "erase" => Needed \subseteq options.given
    BY <1>1 DEF JobValid, Valid
  <1>3. job.method \in {"clear", "purge"} /\ (job.method = "purge" <=> job.action # NoAction)
    BY <1>2 DEF PolicyInv, MethodInv, Judged, MethodAllowed, Methods
  <1>4. dev.whole /\ dev.unique /\ dev.aligned
    BY <1>2, RegularDevice DEF PolicyInv, Judged, SoundDevice
  <1> QED
    BY <1>2, <1>3, <1>4 DEF MethodAllowed

(* How a run of a job can end.                                             *)
LEMMA EndingCases ==
    ASSUME NEW e \in Endings
    PROVE  /\ e[1] \in {"reussi", "echoue", "indetermine"}
           /\ job.method = "purge" /\ e[1] = "reussi" => e[2] \in Logged(Done)
           /\ job.method # "purge" => e[2] = NoStatus
  <1>1. CASE job.method = "purge"
    <2>1. PICK o \in Outcomes :
             e \in (CASE o[1] = 0 -> {"reussi", "indetermine"}
                      [] o[1] = Indeterminate -> {"indetermine"}
                      [] OTHER -> {"echoue"}) \X {o[2]}
      BY <1>1 DEF Endings
    <2>2. o[1] \in {0, -1, Indeterminate} /\ (o[1] = 0 => o[2] \in Logged(Done))
      BY DEF Outcomes, Indeterminate
    <2>3. CASE o[1] = 0
      BY <1>1, <2>1, <2>2, <2>3 DEF Indeterminate
    <2>4. CASE o[1] # 0
      BY <1>1, <2>1, <2>2, <2>4 DEF Indeterminate
    <2> QED
      BY <2>3, <2>4
  <1>2. CASE job.method # "purge"
    BY <1>2 DEF Endings
  <1> QED
    BY <1>1, <1>2

-----------------------------------------------------------------------------
(* The theorems.                                                           *)

(* No rule of audit.c refuses the record of a job that device.c accepted,  *)
(* at its start or however it ends: for every table of tuples.             *)
THEOREM AcceptedAlwaysRecordable == Spec => []AcceptedRecordable
  <1>1. PolicyInv => AcceptedRecordable
    <2> SUFFICES ASSUME PolicyInv, pc = "accepted", options.command = "erase"
                 PROVE  /\ Parses(RecordFor("en_cours", FALSE, NoStatus))
                        /\ Consistent(RecordFor("en_cours", FALSE, NoStatus))
                        /\ \A e \in Endings, seen \in BOOLEAN :
                             (e[1] = "reussi" => seen) => Consistent(RecordFor(e[1], seen, e[2]))
      BY DEF AcceptedRecordable
    <2>1. "two people" \in options.given \/ Regular
      BY AcceptedJob DEF Needed
    <2>2. ASSUME NEW status \in {"en_cours", "reussi", "echoue", "indetermine"},
                 NEW observed \in BOOLEAN, NEW native,
                 status = "reussi" => observed,
                 status = "en_cours" => ~observed /\ native = NoStatus,
                 job.method # "purge" => native = NoStatus,
                 status = "reussi" /\ job.method = "purge" => native \in Logged(Done)
          PROVE  Consistent(RecordFor(status, observed, native))
      <3>1. Regular => job.method = "clear" /\ Qualified(job)
        BY AcceptedJob DEF Regular, Qualified
      <3> DEFINE r == RecordFor(status, observed, native)
      <3>2. /\ r.status = status /\ r.observed = observed /\ r.native = native
            /\ r.executed = job.method /\ r.action = job.action
            /\ r.controller = (job.method = "purge") /\ r.qualified = Qualified(job)
        BY DEF RecordFor
      <3> HIDE DEF r
      <3>3. Consistent(r)
        BY <2>1, <2>2, <3>1, <3>2, AcceptedJob DEF Consistent, Regular
      <3> QED
        BY <3>3 DEF r
    <2>3. Parses(RecordFor("en_cours", FALSE, NoStatus))
      BY AcceptedJob DEF Parses, RecordFor
    <2>4. Consistent(RecordFor("en_cours", FALSE, NoStatus))
      BY <2>2
    <2>5. ASSUME NEW e \in Endings, NEW seen \in BOOLEAN, e[1] = "reussi" => seen
          PROVE  Consistent(RecordFor(e[1], seen, e[2]))
      BY <2>2, <2>5, EndingCases
    <2> QED
      BY <2>3, <2>4, <2>5
  <1> QED
    BY <1>1, PolicyInvariant, PTL

(* `plan` and `erase` judge a job alike, laboratory mode apart.            *)
THEOREM PlanAlwaysAgrees == Spec => []PlanAgrees
  <1>1. PolicyInv => PlanAgrees
    <2> SUFFICES ASSUME PolicyInv, pc \in Judged, ~options.lab
                 PROVE  LET executable == Valid(job, FALSE, FALSE, {})
                        IN  /\ executable <=> Valid(job, FALSE, TRUE, Confirmations)
                            /\ options.command = "plan" => (pc = "accepted" <=> executable)
                            /\ options.command = "erase" /\ pc = "accepted" => executable
      BY DEF PlanAgrees, Judged
    <2>1. Needed \subseteq Confirmations
      BY DEF Needed, Confirmations
    <2>2. MethodAllowed(job, options.lab) <=> MethodAllowed(job, FALSE)
      BY DEF MethodAllowed
    <2>3. /\ pc = "accepted" => JobValid
          /\ pc = "refused" => ~JobValid
      BY DEF PolicyInv, VerdictInv
    <2> QED
      BY <2>1, <2>2, <2>3 DEF JobValid, Valid, Judged
  <1> QED
    BY <1>1, PolicyInvariant, PTL

(* Outside the laboratory mode only NVMe drives of the table are erased,   *)
(* and zeros are never written over flash.                                 *)
THEOREM ScopeAlwaysKept == Spec => []DestructiveScope
  <1>1. PolicyInv => DestructiveScope
    <2> SUFFICES ASSUME PolicyInv, pc = "accepted"
                 PROVE  /\ ~options.lab /\ ~Regular =>
                             /\ job.method = "purge"
                             /\ \E entry \in Table : entry.kind = "nvme" /\ entry.full
                        /\ job.method = "clear" => dev.kind \in {"hdd", "file"}
      BY DEF DestructiveScope
    <2>1. ASSUME ~options.lab, ~Regular PROVE job.method = "purge" /\ Qualified(job)
      BY <2>1, AcceptedJob
    <2>2. ASSUME ~options.lab, ~Regular
          PROVE  \E entry \in Table : entry.kind = "nvme" /\ entry.full
      <3>1. PICK entry \in Table :
               /\ entry.kind = dev.kind
               /\ entry.full = (options.verify # "sample")
        BY <2>1, <2>2 DEF Qualified
      <3>2. dev.kind = "nvme" /\ options.verify = "default"
        BY <2>1, <2>2, AcceptedJob
      <3> QED
        BY <3>1, <3>2
    <2> QED
      BY <2>1, <2>2, AcceptedJob
  <1> QED
    BY <1>1, PolicyInvariant, PTL

(* What an inspection could not read never makes a disk acceptable.        *)
THEOREM UsableAlwaysKnown == Spec => []UsableMeansKnown
  <1>1. PolicyInv => UsableMeansKnown
    <2> SUFFICES ASSUME PolicyInv, pc = "accepted", ~Regular
                 PROVE  /\ target.platform = "linux" /\ target.object = "disk"
                        /\ target.defects = {} /\ dev.kind = target.medium
                        /\ options.command = "erase" /\ ~target.external =>
                             "internal" \in options.given
                        /\ Listed(target, {})
      BY DEF UsableMeansKnown
    <2>1. /\ target.platform = "linux" /\ target.object = "disk" /\ target.defects = {}
          /\ dev.kind = target.medium /\ (~target.external => dev.internal)
      BY AcceptedJob, SoundDisk DEF PolicyInv, Judged
    <2>2. options.command = "erase" /\ dev.internal => "internal" \in options.given
      BY AcceptedJob DEF Needed
    <2>3. Listed(target, {})
      BY <2>1 DEF Listed, Inspectable
    <2> QED
      BY <2>1, <2>2, <2>3
  <1> QED
    BY <1>1, PolicyInvariant, PTL
=============================================================================
