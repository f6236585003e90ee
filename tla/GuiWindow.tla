----------------------------- MODULE GuiWindow -----------------------------
(***************************************************************************)
(* The window of the desktop interface (ui/datafuckerr_qt.py): it starts   *)
(* the engine as a child process, one at a time, and goes on in a callback *)
(* when the child has ended.  A preparation is a chain of three children   *)
(* (version, inspect, plan), an erasure one of two (inspect again, erase)  *)
(* with a modal question between them, a report one of two (verify-audit,  *)
(* then the generator) with a file dialog between them.  While a child     *)
(* runs only the buttons that start commands are disabled: the operator    *)
(* may edit every field, and the disks may change.                         *)
(*                                                                         *)
(* A strategy is a method and a verification together, which the window    *)
(* treats alike.  An inspection stands for the eighteen fields the engine  *)
(* prints; Tail gives the last six characters of its identifier.           *)
(***************************************************************************)
EXTENDS Naturals

CONSTANTS Targets, Strategies, Binaries, Journals, \* what the fields may hold
          Lab,         \* the binaries whose version is marked -lab
          Broken,      \* the binaries the system cannot start
          Inspections, \* what an inspection may print
          Tails, Tail, \* the end of an identifier, and of each inspection's
          None,        \* Python's None, and an empty field
          MaxEdits,    \* bound on the operator's changes of the fields
          MaxSwaps     \* bound on the changes of the disks

ASSUME WindowAssumption ==
    /\ Lab \subseteq Binaries /\ Broken \subseteq Binaries
    /\ Tail \in [Inspections -> Tails]
    /\ None \notin Targets \cup Strategies \cup Journals \cup Inspections \cup Tails
    /\ None \notin {"standard", "lab", "executable", "refused", "ok"}
    /\ MaxEdits \in Nat /\ MaxSwaps \in Nat

VARIABLES form,     \* the fields of the erasure page and binary_path
          snapshot, \* preparation_snapshot: the context of an executable plan
          pending,  \* pending_inspection
          process,  \* the child, with what its callback captured
          dialog,   \* the callback that waits inside a modal dialog
          eraseOn,  \* the erase button is enabled
          audit,    \* audit_path
          pill,     \* what the report page says of it
          reportOn, \* the report button is enabled
          closed,   \* the window was closed
          disk,     \* disk[t]: what an inspection of t would print
          facts,    \* what the engine said since the last preparation began
          checked,  \* the journal of the last accepted verify-audit
          edits, swaps \* how many of each have been made

fields == <<form, snapshot, pending>>
reports == <<audit, pill>>
evidence == <<facts, checked>>
world == <<disk, swaps>>
vars == <<form, snapshot, pending, process, dialog, eraseOn, audit, pill, reportOn,
          closed, disk, facts, checked, edits, swaps>>

Preparing == {"version", "inspect", "plan", "reinspect"}
Kinds == Preparing \cup {"list", "erase", "verify", "precheck", "report"}
Seen == Inspections \cup {None, "standard", "lab", "executable", "refused", "ok"}
Form == [binary : Binaries, target : Targets \cup {None}, strategy : Strategies,
         entered : Tails \cup {None}, log : BOOLEAN, signed : BOOLEAN]
Context == [binary : Binaries, target : Targets \cup {None},
            strategy : Strategies \cup {None},
            inspection : Inspections \cup {None}, journal : Journals \cup {None}]
Fact == [kind : Preparing, binary : Binaries, target : Targets,
         strategy : Strategies, seen : Seen]

(* The buttons, the fields and the child have the shape the callbacks      *)
(* rely on, and no child runs behind a modal dialog or a closed window.    *)
TypeOK ==
    /\ form \in Form
    /\ snapshot \in Context \cup {None}
    /\ pending \in Inspections \cup {None}
    /\ process \in [kind : Kinds, ctx : Context, seen : Seen,
                    stage : {"starting", "running", "ended"}] \cup {None}
    /\ dialog \in [kind : {"reinspect", "precheck"}, ctx : Context] \cup {None}
    /\ eraseOn \in BOOLEAN /\ reportOn \in BOOLEAN /\ closed \in BOOLEAN
    /\ audit \in Journals \cup {None}
    /\ pill \in {"unverified", "checking", "valid", "refused", "created"}
    /\ disk \in [Targets -> Inspections \cup {None}]
    /\ facts \subseteq Fact
    /\ checked \in Journals \cup {None}
    /\ edits \in Nat /\ swaps \in Nat
    /\ dialog # None \/ closed => process = None

Init ==
    /\ form \in [binary : Binaries, target : {None}, strategy : Strategies,
                 entered : {None}, log : {FALSE}, signed : {FALSE}]
    /\ snapshot = None /\ pending = None /\ process = None /\ dialog = None
    /\ eraseOn = FALSE /\ reportOn = FALSE /\ closed = FALSE
    /\ audit = None /\ pill = "unverified"
    /\ disk \in [Targets -> Inspections \cup {None}]
    /\ facts = {} /\ checked = None
    /\ edits = 0 /\ swaps = 0

-----------------------------------------------------------------------------
(* A modal dialog takes all input; a running child only the command        *)
(* buttons.                                                                *)
Free == dialog = None /\ ~closed
CanClick == Free /\ process = None

Same(c, f) == c.binary = f.binary /\ c.target = f.target /\ c.strategy = f.strategy

Captured(f) == [binary |-> f.binary, target |-> f.target, strategy |-> f.strategy,
                inspection |-> None, journal |-> None]

(* build_erase_command: journal, operator, witness, acknowledgment.        *)
Complete(f) == f.log /\ f.signed

(* _update_erase_authorization, with no child running.                     *)
Authorised(s, f) ==
    /\ s # None
    /\ s.target = f.target /\ s.strategy = f.strategy
    /\ s.inspection # None
    /\ f.entered = Tail[s.inspection]
    /\ Complete(f)

(* run_command, with no child running: the command buttons go off.         *)
Run(kind, ctx) ==
    /\ process' = [kind |-> kind, ctx |-> ctx, seen |-> None, stage |-> "starting"]
    /\ eraseOn' = FALSE /\ reportOn' = FALSE

(* The child is gone and no other was started: _set_busy(False), and what  *)
(* the callback then changed.                                              *)
Idle ==
    /\ process' = None
    /\ eraseOn' = Authorised(snapshot', form')
    /\ reportOn' = (pill' = "valid")

Invalidate == snapshot' = None /\ pending' = None

-----------------------------------------------------------------------------
(* The operator edits.                                                     *)

CountEdit == edits < MaxEdits /\ edits' = edits + 1

(* A field the preparation depends on: target (typed or selected), method  *)
(* or verification, or the binary.                                         *)
EditContext(f) ==
    /\ Free /\ CountEdit
    /\ f # form
    /\ form' = f
    /\ Invalidate
    /\ eraseOn' = FALSE
    /\ UNCHANGED <<process, dialog, reports, reportOn, closed, evidence, world>>

(* Mutant: textChanged is not connected for these fields.                  *)
EditUnnoticed(f) ==
    /\ Free /\ CountEdit
    /\ f # form
    /\ form' = f
    /\ UNCHANGED <<snapshot, pending, process, dialog, eraseOn, reports, reportOn,
                   closed, evidence, world>>

(* A field of the confirmation: identifier, journal, names and box.        *)
EditConfirmation(f) ==
    /\ Free /\ CountEdit
    /\ f # form
    /\ form' = f
    /\ eraseOn' = (process = None /\ Authorised(snapshot, f))
    /\ UNCHANGED <<snapshot, pending, process, dialog, reports, reportOn, closed,
                   evidence, world>>

(* "Changer de support".                                                   *)
ChangeDevice ==
    /\ Free /\ snapshot # None
    /\ Invalidate
    /\ eraseOn' = FALSE
    /\ UNCHANGED <<form, process, dialog, reports, reportOn, closed, evidence, world, edits>>

(* The journal to verify: chosen in a dialog, or typed over.               *)
SelectAudit(j) ==
    /\ Free /\ CountEdit
    /\ audit' = j
    /\ pill' = "unverified" /\ reportOn' = FALSE
    /\ UNCHANGED <<fields, process, dialog, eraseOn, closed, evidence, world>>

TypeAudit(j) ==
    /\ Free /\ CountEdit
    /\ j # audit
    /\ audit' = j
    /\ UNCHANGED <<fields, process, dialog, eraseOn, pill, reportOn, closed, evidence, world>>

Edit ==
    \/ \E b \in Binaries : EditContext([form EXCEPT !.binary = b])
    \/ \E t \in Targets \cup {None} : EditContext([form EXCEPT !.target = t])
    \/ \E s \in Strategies : EditContext([form EXCEPT !.strategy = s])
    \/ \E e \in Tails \cup {None} : EditConfirmation([form EXCEPT !.entered = e])
    \/ \E l \in BOOLEAN : EditConfirmation([form EXCEPT !.log = l])
    \/ \E v \in BOOLEAN : EditConfirmation([form EXCEPT !.signed = v])
    \/ \E j \in Journals : SelectAudit(j)
    \/ \E j \in Journals \cup {None} : TypeAudit(j)

-----------------------------------------------------------------------------
(* The operator starts a command.                                          *)

Search ==
    /\ CanClick
    /\ Run("list", Captured(form))
    /\ UNCHANGED <<fields, dialog, reports, closed, evidence, world, edits>>

Prepare ==
    /\ CanClick
    /\ form.target # None
    /\ Invalidate
    /\ Run("version", Captured(form))
    /\ facts' = {}
    /\ UNCHANGED <<form, dialog, reports, closed, checked, world, edits>>

(* execute_erase repeats what enabled its button.                          *)
ExecuteErase ==
    /\ CanClick /\ eraseOn
    /\ snapshot # None
    /\ Same(snapshot, form)
    /\ form.entered = Tail[snapshot.inspection] /\ Complete(form)
    /\ Run("reinspect", snapshot)
    /\ UNCHANGED <<fields, dialog, reports, closed, evidence, world, edits>>

Verifying == [Captured(form) EXCEPT !.journal = audit]

VerifyAudit ==
    /\ CanClick
    /\ audit # None
    /\ pill' = "checking"
    /\ Run("verify", Verifying)
    /\ checked' = None
    /\ UNCHANGED <<fields, dialog, audit, closed, facts, world, edits>>

GenerateReport ==
    /\ CanClick /\ reportOn
    /\ audit # None
    /\ pill' = "checking"
    /\ Run("precheck", Verifying)
    /\ checked' = None
    /\ UNCHANGED <<fields, dialog, audit, closed, facts, world, edits>>

(* closeEvent: refused while a child runs.                                 *)
Close ==
    /\ CanClick
    /\ closed' = TRUE
    /\ UNCHANGED <<fields, process, dialog, eraseOn, reports, reportOn, evidence, world, edits>>

-----------------------------------------------------------------------------
(* The child.                                                              *)

(* Mutant: only an error of a child that runs is an end.                   *)
LaunchUnnoticed == process.stage = "running"

(* FailedToStart ends the child like any other error.                      *)
LaunchFailed == process.stage = "starting"

Bystanders == <<fields, dialog, eraseOn, reports, reportOn, closed, world, edits>>

(* The generator is run by the window's own interpreter, which exists.     *)
Launch ==
    /\ process # None /\ process.stage = "starting"
    /\ process.kind = "report" \/ process.ctx.binary \notin Broken
    /\ process' = [process EXCEPT !.stage = "running"]
    /\ UNCHANGED <<Bystanders, evidence>>

LaunchFails ==
    /\ process # None /\ LaunchFailed
    /\ process' = [process EXCEPT !.stage = "ended"]
    /\ UNCHANGED <<Bystanders, evidence>>

(* What the engine may print; None is an exit code other than 0, a crash,  *)
(* or an inspection that names no stable identifier.                       *)
Outputs(k, ctx) ==
    CASE k = "version" -> {IF ctx.binary \in Lab THEN "lab" ELSE "standard"}
      [] k \in {"inspect", "reinspect"} -> {disk[ctx.target]}
      [] k = "plan" -> {"refused"} \cup {"executable" : i \in {disk[ctx.target]} \ {None}}
      [] OTHER -> {"ok"}

Answer ==
    /\ process # None /\ process.stage = "running"
    /\ \E o \in Outputs(process.kind, process.ctx) \cup {None} :
         /\ process' = [process EXCEPT !.stage = "ended", !.seen = o]
         /\ facts' = IF process.kind \in Preparing /\ o # None
                     THEN facts \cup {[kind |-> process.kind, binary |-> process.ctx.binary,
                                       target |-> process.ctx.target,
                                       strategy |-> process.ctx.strategy, seen |-> o]}
                     ELSE facts
         /\ checked' = IF process.kind \in {"verify", "precheck"} /\ o = "ok"
                       THEN process.ctx.journal ELSE checked
    /\ UNCHANGED Bystanders

Swap(t, i) ==
    /\ ~closed
    /\ swaps < MaxSwaps /\ swaps' = swaps + 1
    /\ i # disk[t]
    /\ disk' = [disk EXCEPT ![t] = i]
    /\ UNCHANGED <<fields, process, dialog, eraseOn, reports, reportOn, closed, evidence, edits>>

-----------------------------------------------------------------------------
(* The callbacks.  _set_busy(False) comes before them: when the snapshot   *)
(* has no inspection it raises, and the callback is lost.                  *)

Wedged == snapshot # None /\ snapshot.inspection = None

Ended(kind) == process # None /\ process.stage = "ended" /\ process.kind = kind /\ ~Wedged

Untouched == <<closed, evidence, world, edits>>

LostCallback ==
    /\ process # None /\ process.stage = "ended"
    /\ Wedged
    /\ process' = None /\ eraseOn' = FALSE /\ reportOn' = TRUE
    /\ UNCHANGED <<fields, dialog, reports, Untouched>>

(* The list is replaced and the target cleared, whatever was printed.      *)
AfterSearch ==
    /\ Ended("list")
    /\ form' = [form EXCEPT !.target = None]
    /\ IF form.target = None THEN UNCHANGED <<snapshot, pending>> ELSE Invalidate
    /\ UNCHANGED <<dialog, reports, Untouched>>
    /\ Idle

Standard(v) == v = "standard"

AfterVersion ==
    /\ Ended("version")
    /\ UNCHANGED <<fields, dialog, reports, Untouched>>
    /\ IF Standard(process.seen) THEN Run("inspect", process.ctx) ELSE Idle

AfterInspection ==
    /\ Ended("inspect")
    /\ UNCHANGED <<form, snapshot, dialog, reports, Untouched>>
    /\ \/ /\ process.seen # None
          /\ pending' = process.seen
          /\ Run("plan", process.ctx)
       \/ /\ process.seen = None
          /\ UNCHANGED pending
          /\ Idle

(* Mutant: the context is not compared with the fields again.              *)
ContextAssumed(ctx) == TRUE

(* The fields still hold what the chain began with.                        *)
ContextKept(ctx) == Same(ctx, form)

PlanRefused ==
    /\ process.seen # "executable"
    /\ pending' = None
    /\ UNCHANGED <<form, snapshot>>

PlanOutdated ==
    /\ process.seen = "executable" /\ ~ContextKept(process.ctx)
    /\ Invalidate
    /\ UNCHANGED form

(* With no inspection pending the snapshot is made all the same; what      *)
(* follows (the journal's default name, the confirmation page) is lost.    *)
PlanAccepted ==
    /\ process.seen = "executable" /\ ContextKept(process.ctx)
    /\ snapshot' = [process.ctx EXCEPT !.inspection = pending]
    /\ pending' = None
    /\ form' = IF pending = None THEN form ELSE [form EXCEPT !.log = TRUE]

AfterPlan ==
    /\ Ended("plan")
    /\ PlanRefused \/ PlanOutdated \/ PlanAccepted
    /\ UNCHANGED <<dialog, reports, Untouched>>
    /\ Idle

(* Mutant: only the end of the identifier is compared.                     *)
SameTail(seen, ctx) == Tail[seen] = Tail[ctx.inspection]

(* inspection_signature: all eighteen fields.                              *)
SameInspection(seen, ctx) == seen = ctx.inspection

(* Mutant: what was typed is not looked at again.                          *)
StillComplete(seen, f) == Complete(f)

StillConfirmed(seen, f) == f.entered = Tail[seen] /\ Complete(f)

(* The captured snapshot is compared, not the one the window now holds.    *)
AfterReinspection ==
    /\ Ended("reinspect")
    /\ IF /\ process.seen # None
          /\ SameInspection(process.seen, process.ctx)
          /\ StillConfirmed(process.seen, form)
       THEN /\ dialog' = [kind |-> "reinspect", ctx |-> [process.ctx EXCEPT !.inspection = process.seen]]
            /\ UNCHANGED <<snapshot, pending>>
       ELSE Invalidate /\ UNCHANGED dialog
    /\ UNCHANGED <<form, reports, Untouched>>
    /\ Idle

(* The last question: "Annuler" or "Effacer maintenant".                   *)
AnswerQuestion(yes) ==
    /\ dialog # None /\ dialog.kind = "reinspect"
    /\ dialog' = None
    /\ IF yes THEN Run("erase", dialog.ctx) ELSE UNCHANGED <<process, eraseOn, reportOn>>
    /\ UNCHANGED <<fields, reports, Untouched>>

AfterErase ==
    /\ Ended("erase")
    /\ snapshot' = None
    /\ UNCHANGED <<form, pending, dialog, reports, Untouched>>
    /\ Idle

AfterVerification ==
    /\ Ended("verify")
    /\ pill' = IF process.seen = "ok" THEN "valid" ELSE "refused"
    /\ UNCHANGED <<fields, dialog, audit, Untouched>>
    /\ Idle

(* Mutant: the journal is read from its field again.                       *)
JournalShown(ctx) == [ctx EXCEPT !.journal = audit]

(* The generator is given the journal the check was started for.           *)
JournalChecked(ctx) == ctx

AfterPrecheck ==
    /\ Ended("precheck")
    /\ \/ /\ process.seen = "ok"
          /\ dialog' = [kind |-> "precheck", ctx |-> process.ctx]
          /\ UNCHANGED pill
       \/ /\ process.seen # "ok"
          /\ pill' = "refused"
          /\ UNCHANGED dialog
    /\ UNCHANGED <<fields, audit, Untouched>>
    /\ Idle

(* The file dialog for the PDF: a name, or none.                           *)
ChooseDestination(named) ==
    /\ dialog # None /\ dialog.kind = "precheck"
    /\ dialog' = None
    /\ pill' = IF named THEN "checking" ELSE "unverified"
    /\ IF named THEN Run("report", JournalChecked(dialog.ctx))
                ELSE UNCHANGED <<process, eraseOn, reportOn>>
    /\ UNCHANGED <<fields, audit, Untouched>>

AfterGeneration ==
    /\ Ended("report")
    /\ pill' = IF process.seen = "ok" THEN "created" ELSE "refused"
    /\ UNCHANGED <<fields, dialog, audit, Untouched>>
    /\ Idle

-----------------------------------------------------------------------------
Callback ==
    \/ LostCallback
    \/ AfterSearch
    \/ AfterVersion \/ AfterInspection \/ AfterPlan
    \/ AfterReinspection \/ AfterErase
    \/ AfterVerification \/ AfterPrecheck \/ AfterGeneration

Child == Launch \/ LaunchFails \/ Answer \/ Callback

Operator ==
    \/ Edit \/ ChangeDevice
    \/ Search \/ Prepare \/ ExecuteErase \/ VerifyAudit \/ GenerateReport
    \/ \E yes \in BOOLEAN : AnswerQuestion(yes) \/ ChooseDestination(yes)
    \/ Close

Next ==
    \/ Operator
    \/ Child
    \/ \E t \in Targets, i \in Inspections \cup {None} : Swap(t, i)

Spec == Init /\ [][Next]_vars

(* Children end, and Qt delivers their ends; the operator owes nothing.    *)
FairSpec == Spec /\ WF_vars(Child)

-----------------------------------------------------------------------------
(* A preparation never outlives an edit: it names the binary, the target   *)
(* and the strategy the window shows, although they may be edited at any   *)
(* moment of the chain of callbacks that makes it                          *)
(* (_after_preparation_plan, invalidate_preparation).                      *)
PreparationCurrent == snapshot # None => Same(snapshot, form)

(* While the erase button is enabled no child runs and everything its      *)
(* handler requires holds, whatever was edited, in whatever order, during  *)
(* or after the preparation (_update_erase_authorization, _set_busy).      *)
ButtonMeansReady ==
    eraseOn =>
        /\ process = None /\ snapshot # None
        /\ Same(snapshot, form) /\ snapshot.inspection # None
        /\ form.entered = Tail[snapshot.inspection] /\ Complete(form)

Said(kind, ctx, seen) ==
    [kind |-> kind, binary |-> ctx.binary, target |-> ctx.target,
     strategy |-> ctx.strategy, seen |-> seen] \in facts

(* The engine is told to erase only what it has, since the operator last   *)
(* asked for a preparation and through this very binary, called itself a   *)
(* standard build for, inspected, found executable with this strategy, and *)
(* inspected again with the same result.                                   *)
NothingErasedUnprepared ==
    process # None /\ process.kind = "erase" =>
        /\ Said("version", process.ctx, "standard")
        /\ Said("inspect", process.ctx, process.ctx.inspection)
        /\ Said("plan", process.ctx, "executable")
        /\ Said("reinspect", process.ctx, process.ctx.inspection)

(* The last question is only asked about the disk whose identifier the     *)
(* confirmation field holds at that moment, with journal, names and box    *)
(* still in order, though all of them could be edited while the disk was   *)
(* inspected again (_after_final_reinspection).                            *)
QuestionConfirmed ==
    dialog # None /\ dialog.kind = "reinspect" =>
        form.entered = Tail[dialog.ctx.inspection] /\ Complete(form)

(* Neither the button nor the question offers an erasure that is not       *)
(* prepared and confirmed at that very moment (the two properties above).  *)
ReadyWhenOffered == ButtonMeansReady /\ QuestionConfirmed

(* The report is made from the journal the engine has just accepted, not   *)
(* from the one the field names by then (_after_report_precheck).          *)
ReportOfVerified ==
    process # None /\ process.kind = "report" => checked = process.ctx.journal

(* The window is never left busy: every chain of children ends, also when  *)
(* the engine cannot be started (_handle_process_error).                   *)
WindowReleased == process # None ~> process = None

(* "La cible, le binaire ou la stratégie a changé. Recommencez la          *)
(* préparation." (execute_erase): the last question is about the context   *)
(* the window shows.  The code compares them before the inspection only.   *)
QuestionCurrent ==
    dialog # None /\ dialog.kind = "reinspect" => Same(dialog.ctx, form)

(* "la comparaison de l'identité et de l'état observés avec l'inspection   *)
(* planifiée" (ui/README.md): a plan that was accepted has an inspection.  *)
SnapshotInspected == snapshot # None => snapshot.inspection # None
=============================================================================
