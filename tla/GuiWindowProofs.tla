-------------------------- MODULE GuiWindowProofs --------------------------
(***************************************************************************)
(* Safety of the desktop window, for every number of targets, strategies,  *)
(* binaries, journals and inspections, and every number of edits and of    *)
(* changes of the disks.                                                   *)
(*                                                                         *)
(* The context of a chain of children is captured when it begins, and what *)
(* the engine says arrives child by child: WindowInv says at each link     *)
(* what has been said of the captured context so far; the fields are bound *)
(* to that context through the snapshot, the button and the question only. *)
(***************************************************************************)
EXTENDS GuiWindow, TLAPS

(* No dialog is left behind a closed window.                               *)
Modal == closed => dialog = None

Asking == dialog # None /\ dialog.kind = "reinspect"
Runs(kind) == process # None /\ process.kind = kind
Named(ctx) == ctx.target \in Targets /\ ctx.strategy \in Strategies

(* What a context that is to be erased names.                              *)
Chosen ==
    /\ snapshot # None => Named(snapshot)
    /\ \A k \in Preparing \cup {"erase"} : Runs(k) => Named(process.ctx)
    /\ Asking => Named(dialog.ctx)

(* What a child of the preparation printed is among the facts.             *)
Heard ==
    /\ \A k \in Preparing : Runs(k) /\ process.seen # None => Said(k, process.ctx, process.seen)
    /\ Runs("inspect") \/ Runs("reinspect") => process.seen \in Inspections \cup {None}

(* What has been said of a context whose plan was executable.              *)
Planned(ctx) ==
    /\ Said("version", ctx, "standard")
    /\ Said("plan", ctx, "executable")
    /\ ctx.inspection # None => Said("inspect", ctx, ctx.inspection)

Reinspected(ctx) ==
    Planned(ctx) /\ ctx.inspection # None /\ Said("reinspect", ctx, ctx.inspection)

(* How far the chain that may end in an erasure has come.                  *)
Chain ==
    /\ Runs("inspect") \/ Runs("plan") => Said("version", process.ctx, "standard")
    /\ Runs("plan") /\ pending # None => Said("inspect", process.ctx, pending)
    /\ snapshot # None => Planned(snapshot)
    /\ Runs("reinspect") => Planned(process.ctx) /\ process.ctx.inspection # None
    /\ Asking => Reinspected(dialog.ctx)
    /\ Runs("erase") => Reinspected(process.ctx)

(* The journal a report is to be made from is the last one accepted.       *)
Accepted ==
    /\ Runs("precheck") /\ process.seen = "ok" => checked = process.ctx.journal
    /\ dialog # None /\ dialog.kind = "precheck" => checked = dialog.ctx.journal
    /\ Runs("report") => checked = process.ctx.journal

WindowInv ==
    /\ TypeOK /\ Modal /\ Chosen
    /\ PreparationCurrent /\ ReadyWhenOffered
    /\ Heard /\ Chain /\ Accepted

-----------------------------------------------------------------------------
(* Types.                                                                  *)

Process == [kind : Kinds, ctx : Context, seen : Seen,
            stage : {"starting", "running", "ended"}]
Question == [kind : {"reinspect", "precheck"}, ctx : Context]

FieldsType ==
    /\ form \in Form
    /\ snapshot \in Context \cup {None}
    /\ pending \in Inspections \cup {None}

ChildType ==
    /\ process \in Process \cup {None}
    /\ dialog \in Question \cup {None}
    /\ closed \in BOOLEAN
    /\ dialog # None \/ closed => process = None
    /\ Modal

ButtonType ==
    /\ eraseOn \in BOOLEAN /\ reportOn \in BOOLEAN
    /\ audit \in Journals \cup {None}
    /\ pill \in {"unverified", "checking", "valid", "refused", "created"}

EvidenceType ==
    /\ facts \subseteq Fact
    /\ checked \in Journals \cup {None}

WorldType ==
    /\ disk \in [Targets -> Inspections \cup {None}]
    /\ edits \in Nat /\ swaps \in Nat

(* The types, by what changes together.                                    *)
LEMMA TypeParts ==
    TypeOK /\ Modal <=> FieldsType /\ ChildType /\ ButtonType /\ EvidenceType /\ WorldType
  BY DEF TypeOK, FieldsType, ChildType, ButtonType, EvidenceType, WorldType, Process,
     Question

(* The ways the operator edits, each with fields of the right types; the   *)
(* confirmation leaves binary, target and strategy alone.                  *)
LEMMA EditCases ==
    ASSUME TypeOK, Edit
    PROVE  \/ \E f \in Form : EditContext(f)
           \/ \E f \in Form : Same(f, form) /\ EditConfirmation(f)
           \/ \E j \in Journals : SelectAudit(j)
           \/ \E j \in Journals \cup {None} : TypeAudit(j)
  <1>1. form \in Form
    BY DEF TypeOK
  <1>2. CASE \E b \in Binaries : EditContext([form EXCEPT !.binary = b])
    BY <1>1, <1>2 DEF Form
  <1>3. CASE \E t \in Targets \cup {None} : EditContext([form EXCEPT !.target = t])
    BY <1>1, <1>3 DEF Form
  <1>4. CASE \E s \in Strategies : EditContext([form EXCEPT !.strategy = s])
    BY <1>1, <1>4 DEF Form
  <1>5. CASE \E e \in Tails \cup {None} : EditConfirmation([form EXCEPT !.entered = e])
    <2>1. PICK e \in Tails \cup {None} : EditConfirmation([form EXCEPT !.entered = e])
      BY <1>5
    <2>2. [form EXCEPT !.entered = e] \in Form /\ Same([form EXCEPT !.entered = e], form)
      BY <1>1 DEF Form, Same
    <2> QED
      BY <2>1, <2>2
  <1>6. CASE \E l \in BOOLEAN : EditConfirmation([form EXCEPT !.log = l])
    <2>1. PICK l \in BOOLEAN : EditConfirmation([form EXCEPT !.log = l])
      BY <1>6
    <2>2. [form EXCEPT !.log = l] \in Form /\ Same([form EXCEPT !.log = l], form)
      BY <1>1 DEF Form, Same
    <2> QED
      BY <2>1, <2>2
  <1>7. CASE \E v \in BOOLEAN : EditConfirmation([form EXCEPT !.signed = v])
    <2>1. PICK v \in BOOLEAN : EditConfirmation([form EXCEPT !.signed = v])
      BY <1>7
    <2>2. [form EXCEPT !.signed = v] \in Form /\ Same([form EXCEPT !.signed = v], form)
      BY <1>1 DEF Form, Same
    <2> QED
      BY <2>1, <2>2
  <1> QED
    BY <1>2, <1>3, <1>4, <1>5, <1>6, <1>7 DEF Edit

(* What the captured fields are.                                           *)
LEMMA CapturedType ==
    ASSUME TypeOK
    PROVE  Captured(form) \in Context /\ Verifying \in Context
  BY DEF TypeOK, Captured, Verifying, Form, Context

(* A child that is started is well typed.                                  *)
LEMMA RunType ==
    ASSUME NEW k \in Kinds, NEW c \in Context, Run(k, c)
    PROVE  process' \in Process
  BY DEF Run, Seen, Process

(* The buttons of a window without a child are on or off.                  *)
LEMMA IdleType ==
    ASSUME Idle
    PROVE  /\ process' = None
           /\ eraseOn' \in BOOLEAN /\ reportOn' \in BOOLEAN
  <1>1. Authorised(snapshot', form') \in BOOLEAN /\ (pill' = "valid") \in BOOLEAN
    BY DEF Authorised
  <1> QED
    BY <1>1 DEF Idle

(* The engine prints what a callback expects.                              *)
LEMMA OutputType ==
    ASSUME TypeOK, NEW k \in Kinds, NEW c \in Context,
           k \in Preparing => c.target \in Targets,
           NEW o \in Outputs(k, c) \cup {None}
    PROVE  /\ o \in Seen
           /\ k = "version" => o \in {"standard", "lab", None}
           /\ k = "plan" => o \in {"executable", "refused", None}
           /\ k \in {"inspect", "reinspect"} => o \in Inspections \cup {None}
  BY DEF TypeOK, Outputs, Seen, Kinds, Preparing

(* The fields, the snapshot and the pending inspection keep their types.   *)
LEMMA FieldsStep ==
    ASSUME TypeOK, Modal, Heard, [Next]_vars
    PROVE  FieldsType'
  <1> USE DEF Free, CanClick, Invalidate, fields, reports, evidence, world, Bystanders,
          Untouched
  <1>types. FieldsType /\ ChildType /\ WorldType
    BY TypeParts
  <1> USE <1>types DEF FieldsType
  <1>1. CASE \E f \in Form : EditContext(f)
    BY <1>1 DEF EditContext
  <1>2. CASE \E f \in Form : Same(f, form) /\ EditConfirmation(f)
    BY <1>2 DEF EditConfirmation
  <1>3. CASE \E j \in Journals : SelectAudit(j)
    BY <1>3 DEF SelectAudit
  <1>4. CASE \E j \in Journals \cup {None} : TypeAudit(j)
    BY <1>4 DEF TypeAudit
  <1>5. CASE ChangeDevice
    BY <1>5 DEF ChangeDevice
  <1>6. CASE Search
    BY <1>6 DEF Search
  <1>7. CASE Prepare
    BY <1>7 DEF Prepare
  <1>8. CASE ExecuteErase
    BY <1>8 DEF ExecuteErase
  <1>9. CASE VerifyAudit
    BY <1>9 DEF VerifyAudit
  <1>10. CASE GenerateReport
    BY <1>10 DEF GenerateReport
  <1>11. CASE Close
    BY <1>11 DEF Close
  <1>12. CASE \E yes \in BOOLEAN : AnswerQuestion(yes)
    BY <1>12 DEF AnswerQuestion
  <1>13. CASE \E named \in BOOLEAN : ChooseDestination(named)
    BY <1>13 DEF ChooseDestination
  <1>14. CASE Launch
    BY <1>14 DEF Launch
  <1>15. CASE LaunchFails
    BY <1>15 DEF LaunchFails
  <1>16. CASE Answer
    BY <1>16 DEF Answer
  <1>17. CASE LostCallback
    BY <1>17 DEF LostCallback
  <1>18. CASE AfterSearch
    BY <1>18 DEF AfterSearch, Form
  <1>19. CASE AfterVersion
    BY <1>19 DEF AfterVersion
  <1>20. CASE AfterInspection
    BY <1>20 DEF AfterInspection, Ended, Heard, Runs
  <1>21. CASE AfterPlan
    BY <1>21 DEF AfterPlan, PlanRefused, PlanOutdated, PlanAccepted, Form, Context,
       Ended, ChildType, Process
  <1>22. CASE AfterReinspection
    BY <1>22 DEF AfterReinspection
  <1>23. CASE AfterErase
    BY <1>23 DEF AfterErase
  <1>24. CASE AfterVerification
    BY <1>24 DEF AfterVerification
  <1>25. CASE AfterPrecheck
    BY <1>25 DEF AfterPrecheck
  <1>26. CASE AfterGeneration
    BY <1>26 DEF AfterGeneration
  <1>27. CASE \E t \in Targets, i \in Inspections \cup {None} : Swap(t, i)
    BY <1>27 DEF Swap
  <1>28. CASE UNCHANGED vars
    BY <1>28 DEF vars
  <1> QED
    BY EditCases, <1>1, <1>2, <1>3, <1>4, <1>5, <1>6, <1>7, <1>8, <1>9, <1>10, <1>11,
       <1>12, <1>13, <1>14, <1>15, <1>16, <1>17, <1>18, <1>19, <1>20, <1>21, <1>22,
       <1>23, <1>24, <1>25, <1>26, <1>27, <1>28 DEF Next, Operator, Child, Callback

(* The child and the question keep their types, and never meet.            *)
LEMMA ChildStep ==
    ASSUME TypeOK, Modal, Chosen, [Next]_vars
    PROVE  ChildType'
  <1> USE DEF Free, CanClick, Invalidate, fields, reports, evidence, world, Bystanders,
          Untouched
  <1>types. FieldsType /\ ChildType /\ WorldType
    BY TypeParts
  <1>run. \A k \in Kinds, c \in Context : Run(k, c) => process' \in Process
    BY RunType
  <1> USE <1>types DEF ChildType, Modal
  <1>1. CASE \E f \in Form : EditContext(f)
    BY <1>1 DEF EditContext
  <1>2. CASE \E f \in Form : Same(f, form) /\ EditConfirmation(f)
    BY <1>2 DEF EditConfirmation
  <1>3. CASE \E j \in Journals : SelectAudit(j)
    BY <1>3 DEF SelectAudit
  <1>4. CASE \E j \in Journals \cup {None} : TypeAudit(j)
    BY <1>4 DEF TypeAudit
  <1>5. CASE ChangeDevice
    BY <1>5 DEF ChangeDevice
  <1>6. CASE Search
    BY <1>6, <1>run, CapturedType DEF Search, Kinds, Preparing
  <1>7. CASE Prepare
    BY <1>7, <1>run, CapturedType DEF Prepare, Kinds, Preparing
  <1>8. CASE ExecuteErase
    BY <1>8, <1>run DEF ExecuteErase, Kinds, Preparing, FieldsType
  <1>9. CASE VerifyAudit
    BY <1>9, <1>run, CapturedType DEF VerifyAudit, Kinds, Preparing
  <1>10. CASE GenerateReport
    BY <1>10, <1>run, CapturedType DEF GenerateReport, Kinds, Preparing
  <1>11. CASE Close
    BY <1>11 DEF Close
  <1>12. CASE \E yes \in BOOLEAN : AnswerQuestion(yes)
    BY <1>12, <1>run DEF AnswerQuestion, Kinds, Question
  <1>13. CASE \E named \in BOOLEAN : ChooseDestination(named)
    BY <1>13, <1>run DEF ChooseDestination, JournalChecked, Kinds, Question
  <1>14. CASE Launch
    BY <1>14 DEF Launch, Process
  <1>15. CASE LaunchFails
    BY <1>15 DEF LaunchFails, Process
  <1>16. CASE Answer
    <2>1. process \in Process
      BY <1>16 DEF Answer
    <2>2. PICK o \in Outputs(process.kind, process.ctx) \cup {None} :
             process' = [process EXCEPT !.stage = "ended", !.seen = o]
      BY <1>16 DEF Answer
    <2>3. o \in Seen
      BY <2>1, <2>2, <1>16, OutputType DEF Answer, Process, Chosen, Runs, Named
    <2>4. process' \in Process
      BY <2>1, <2>2, <2>3 DEF Process
    <2> QED
      BY <1>16, <2>4 DEF Answer
  <1>17. CASE LostCallback
    BY <1>17 DEF LostCallback
  <1>18. CASE AfterSearch
    BY <1>18 DEF AfterSearch, Idle
  <1>19. CASE AfterVersion
    BY <1>19, <1>run DEF AfterVersion, Ended, Idle, Process, Kinds, Preparing
  <1>20. CASE AfterInspection
    BY <1>20, <1>run DEF AfterInspection, Ended, Idle, Process, Kinds, Preparing
  <1>21. CASE AfterPlan
    BY <1>21 DEF AfterPlan, Idle
  <1>22. CASE AfterReinspection
    <2>1. process.ctx \in Context /\ process # None
      BY <1>22 DEF AfterReinspection, Ended, Process
    <2>2. CASE dialog' = dialog
      BY <1>22, <2>1, <2>2 DEF AfterReinspection, Idle
    <2>3. CASE SameInspection(process.seen, process.ctx)
      <3>1. [process.ctx EXCEPT !.inspection = process.seen] = process.ctx
        BY <2>1, <2>3 DEF SameInspection, Context
      <3> QED
        BY <1>22, <2>1, <3>1 DEF AfterReinspection, Idle, Question
    <2> QED
      BY <1>22, <2>2, <2>3 DEF AfterReinspection
  <1>23. CASE AfterErase
    BY <1>23 DEF AfterErase, Idle
  <1>24. CASE AfterVerification
    BY <1>24 DEF AfterVerification, Idle
  <1>25. CASE AfterPrecheck
    BY <1>25 DEF AfterPrecheck, Ended, Idle, Process, Question
  <1>26. CASE AfterGeneration
    BY <1>26 DEF AfterGeneration, Idle
  <1>27. CASE \E t \in Targets, i \in Inspections \cup {None} : Swap(t, i)
    BY <1>27 DEF Swap
  <1>28. CASE UNCHANGED vars
    BY <1>28 DEF vars
  <1> QED
    BY EditCases, <1>1, <1>2, <1>3, <1>4, <1>5, <1>6, <1>7, <1>8, <1>9, <1>10, <1>11,
       <1>12, <1>13, <1>14, <1>15, <1>16, <1>17, <1>18, <1>19, <1>20, <1>21, <1>22,
       <1>23, <1>24, <1>25, <1>26, <1>27, <1>28 DEF Next, Operator, Child, Callback

(* The buttons, the journal's field and its state keep their types.        *)
LEMMA ButtonStep ==
    ASSUME TypeOK, Modal, [Next]_vars
    PROVE  ButtonType'
  <1> USE DEF Free, CanClick, Invalidate, fields, reports, evidence, world, Bystanders,
          Untouched, Run
  <1>types. ButtonType
    BY TypeParts
  <1> USE <1>types DEF ButtonType
  <1>1. CASE \E f \in Form : EditContext(f)
    BY <1>1 DEF EditContext
  <1>2. CASE \E f \in Form : Same(f, form) /\ EditConfirmation(f)
    BY <1>2 DEF EditConfirmation
  <1>3. CASE \E j \in Journals : SelectAudit(j)
    BY <1>3 DEF SelectAudit
  <1>4. CASE \E j \in Journals \cup {None} : TypeAudit(j)
    BY <1>4 DEF TypeAudit
  <1>5. CASE ChangeDevice
    BY <1>5 DEF ChangeDevice
  <1>6. CASE Search
    BY <1>6 DEF Search
  <1>7. CASE Prepare
    BY <1>7 DEF Prepare
  <1>8. CASE ExecuteErase
    BY <1>8 DEF ExecuteErase
  <1>9. CASE VerifyAudit
    BY <1>9 DEF VerifyAudit
  <1>10. CASE GenerateReport
    BY <1>10 DEF GenerateReport
  <1>11. CASE Close
    BY <1>11 DEF Close
  <1>12. CASE \E yes \in BOOLEAN : AnswerQuestion(yes)
    BY <1>12 DEF AnswerQuestion
  <1>13. CASE \E named \in BOOLEAN : ChooseDestination(named)
    BY <1>13 DEF ChooseDestination
  <1>14. CASE Launch
    BY <1>14 DEF Launch
  <1>15. CASE LaunchFails
    BY <1>15 DEF LaunchFails
  <1>16. CASE Answer
    BY <1>16 DEF Answer
  <1>17. CASE LostCallback
    BY <1>17 DEF LostCallback
  <1>18. CASE AfterSearch
    BY <1>18, IdleType DEF AfterSearch
  <1>19. CASE AfterVersion
    BY <1>19, IdleType DEF AfterVersion
  <1>20. CASE AfterInspection
    BY <1>20, IdleType DEF AfterInspection
  <1>21. CASE AfterPlan
    BY <1>21, IdleType DEF AfterPlan
  <1>22. CASE AfterReinspection
    BY <1>22, IdleType DEF AfterReinspection
  <1>23. CASE AfterErase
    BY <1>23, IdleType DEF AfterErase
  <1>24. CASE AfterVerification
    BY <1>24, IdleType DEF AfterVerification
  <1>25. CASE AfterPrecheck
    BY <1>25, IdleType DEF AfterPrecheck
  <1>26. CASE AfterGeneration
    BY <1>26, IdleType DEF AfterGeneration
  <1>27. CASE \E t \in Targets, i \in Inspections \cup {None} : Swap(t, i)
    BY <1>27 DEF Swap
  <1>28. CASE UNCHANGED vars
    BY <1>28 DEF vars
  <1> QED
    BY EditCases, <1>1, <1>2, <1>3, <1>4, <1>5, <1>6, <1>7, <1>8, <1>9, <1>10, <1>11,
       <1>12, <1>13, <1>14, <1>15, <1>16, <1>17, <1>18, <1>19, <1>20, <1>21, <1>22,
       <1>23, <1>24, <1>25, <1>26, <1>27, <1>28 DEF Next, Operator, Child, Callback

(* What the engine said keeps its type.                                    *)
LEMMA EvidenceStep ==
    ASSUME TypeOK, Modal, Chosen, [Next]_vars
    PROVE  EvidenceType'
  <1> USE DEF Free, CanClick, Invalidate, fields, reports, evidence, world, Bystanders,
          Untouched
  <1>types. FieldsType /\ ChildType /\ EvidenceType
    BY TypeParts
  <1> USE <1>types DEF EvidenceType
  <1>1. CASE \E f \in Form : EditContext(f)
    BY <1>1 DEF EditContext
  <1>2. CASE \E f \in Form : Same(f, form) /\ EditConfirmation(f)
    BY <1>2 DEF EditConfirmation
  <1>3. CASE \E j \in Journals : SelectAudit(j)
    BY <1>3 DEF SelectAudit
  <1>4. CASE \E j \in Journals \cup {None} : TypeAudit(j)
    BY <1>4 DEF TypeAudit
  <1>5. CASE ChangeDevice
    BY <1>5 DEF ChangeDevice
  <1>6. CASE Search
    BY <1>6 DEF Search
  <1>7. CASE Prepare
    BY <1>7 DEF Prepare
  <1>8. CASE ExecuteErase
    BY <1>8 DEF ExecuteErase
  <1>9. CASE VerifyAudit
    BY <1>9 DEF VerifyAudit
  <1>10. CASE GenerateReport
    BY <1>10 DEF GenerateReport
  <1>11. CASE Close
    BY <1>11 DEF Close
  <1>12. CASE \E yes \in BOOLEAN : AnswerQuestion(yes)
    BY <1>12 DEF AnswerQuestion
  <1>13. CASE \E named \in BOOLEAN : ChooseDestination(named)
    BY <1>13 DEF ChooseDestination
  <1>14. CASE Launch
    BY <1>14 DEF Launch
  <1>15. CASE LaunchFails
    BY <1>15 DEF LaunchFails
  <1>16. CASE Answer
    <2>1. process \in Process /\ (process.kind \in Preparing => Named(process.ctx))
      BY <1>16 DEF Answer, ChildType, Chosen, Runs
    <2>2. PICK o \in Outputs(process.kind, process.ctx) \cup {None} :
             /\ facts' = IF process.kind \in Preparing /\ o # None
                         THEN facts \cup {[kind |-> process.kind, binary |-> process.ctx.binary,
                                           target |-> process.ctx.target,
                                           strategy |-> process.ctx.strategy, seen |-> o]}
                         ELSE facts
             /\ checked' = IF process.kind \in {"verify", "precheck"} /\ o = "ok"
                           THEN process.ctx.journal ELSE checked
      BY <1>16 DEF Answer
    <2>3. o \in Seen
      BY <2>1, <2>2, OutputType DEF Process, Named
    <2>4. facts' \subseteq Fact
      BY <2>1, <2>2, <2>3 DEF Process, Fact, Named, Context
    <2>5. checked' \in Journals \cup {None}
      BY <2>1, <2>2 DEF Process, Context
    <2> QED
      BY <2>4, <2>5
  <1>17. CASE LostCallback
    BY <1>17 DEF LostCallback
  <1>18. CASE AfterSearch
    BY <1>18 DEF AfterSearch
  <1>19. CASE AfterVersion
    BY <1>19 DEF AfterVersion
  <1>20. CASE AfterInspection
    BY <1>20 DEF AfterInspection
  <1>21. CASE AfterPlan
    BY <1>21 DEF AfterPlan
  <1>22. CASE AfterReinspection
    BY <1>22 DEF AfterReinspection
  <1>23. CASE AfterErase
    BY <1>23 DEF AfterErase
  <1>24. CASE AfterVerification
    BY <1>24 DEF AfterVerification
  <1>25. CASE AfterPrecheck
    BY <1>25 DEF AfterPrecheck
  <1>26. CASE AfterGeneration
    BY <1>26 DEF AfterGeneration
  <1>27. CASE \E t \in Targets, i \in Inspections \cup {None} : Swap(t, i)
    BY <1>27 DEF Swap
  <1>28. CASE UNCHANGED vars
    BY <1>28 DEF vars
  <1> QED
    BY EditCases, <1>1, <1>2, <1>3, <1>4, <1>5, <1>6, <1>7, <1>8, <1>9, <1>10, <1>11,
       <1>12, <1>13, <1>14, <1>15, <1>16, <1>17, <1>18, <1>19, <1>20, <1>21, <1>22,
       <1>23, <1>24, <1>25, <1>26, <1>27, <1>28 DEF Next, Operator, Child, Callback

(* The disks and the bounds of the instance keep their types.              *)
LEMMA WorldStep ==
    ASSUME TypeOK, Modal, [Next]_vars
    PROVE  WorldType'
  <1> USE DEF Free, CanClick, Invalidate, fields, reports, evidence, world, Bystanders,
          Untouched, CountEdit
  <1>types. WorldType
    BY TypeParts
  <1> USE <1>types DEF WorldType
  <1>1. CASE \E f \in Form : EditContext(f)
    BY <1>1 DEF EditContext
  <1>2. CASE \E f \in Form : Same(f, form) /\ EditConfirmation(f)
    BY <1>2 DEF EditConfirmation
  <1>3. CASE \E j \in Journals : SelectAudit(j)
    BY <1>3 DEF SelectAudit
  <1>4. CASE \E j \in Journals \cup {None} : TypeAudit(j)
    BY <1>4 DEF TypeAudit
  <1>5. CASE ChangeDevice
    BY <1>5 DEF ChangeDevice
  <1>6. CASE Search
    BY <1>6 DEF Search
  <1>7. CASE Prepare
    BY <1>7 DEF Prepare
  <1>8. CASE ExecuteErase
    BY <1>8 DEF ExecuteErase
  <1>9. CASE VerifyAudit
    BY <1>9 DEF VerifyAudit
  <1>10. CASE GenerateReport
    BY <1>10 DEF GenerateReport
  <1>11. CASE Close
    BY <1>11 DEF Close
  <1>12. CASE \E yes \in BOOLEAN : AnswerQuestion(yes)
    BY <1>12 DEF AnswerQuestion
  <1>13. CASE \E named \in BOOLEAN : ChooseDestination(named)
    BY <1>13 DEF ChooseDestination
  <1>14. CASE Launch
    BY <1>14 DEF Launch
  <1>15. CASE LaunchFails
    BY <1>15 DEF LaunchFails
  <1>16. CASE Answer
    BY <1>16 DEF Answer
  <1>17. CASE LostCallback
    BY <1>17 DEF LostCallback
  <1>18. CASE AfterSearch
    BY <1>18 DEF AfterSearch
  <1>19. CASE AfterVersion
    BY <1>19 DEF AfterVersion
  <1>20. CASE AfterInspection
    BY <1>20 DEF AfterInspection
  <1>21. CASE AfterPlan
    BY <1>21 DEF AfterPlan
  <1>22. CASE AfterReinspection
    BY <1>22 DEF AfterReinspection
  <1>23. CASE AfterErase
    BY <1>23 DEF AfterErase
  <1>24. CASE AfterVerification
    BY <1>24 DEF AfterVerification
  <1>25. CASE AfterPrecheck
    BY <1>25 DEF AfterPrecheck
  <1>26. CASE AfterGeneration
    BY <1>26 DEF AfterGeneration
  <1>27. CASE \E t \in Targets, i \in Inspections \cup {None} : Swap(t, i)
    BY <1>27 DEF Swap
  <1>28. CASE UNCHANGED vars
    BY <1>28 DEF vars
  <1> QED
    BY EditCases, <1>1, <1>2, <1>3, <1>4, <1>5, <1>6, <1>7, <1>8, <1>9, <1>10, <1>11,
       <1>12, <1>13, <1>14, <1>15, <1>16, <1>17, <1>18, <1>19, <1>20, <1>21, <1>22,
       <1>23, <1>24, <1>25, <1>26, <1>27, <1>28 DEF Next, Operator, Child, Callback

-----------------------------------------------------------------------------
(* The chain of children.                                                  *)

(* The snapshot keeps naming what the fields name.                         *)
LEMMA PreparationStep ==
    ASSUME WindowInv, [Next]_vars
    PROVE  PreparationCurrent'
  <1> USE DEF Free, CanClick, Invalidate, Idle, Run, fields, reports, evidence, world,
          Bystanders, Untouched, ChildType, PreparationCurrent, Same
  <1>types. FieldsType /\ ChildType
    BY TypeParts DEF WindowInv
  <1>inv. TypeOK /\ PreparationCurrent
    BY DEF WindowInv
  <1> USE <1>types, <1>inv
  <1>1. CASE \E f \in Form : EditContext(f)
    BY <1>1 DEF EditContext
  <1>2. CASE \E f \in Form : Same(f, form) /\ EditConfirmation(f)
    BY <1>2 DEF EditConfirmation
  <1>3. CASE \E j \in Journals : SelectAudit(j)
    BY <1>3 DEF SelectAudit
  <1>4. CASE \E j \in Journals \cup {None} : TypeAudit(j)
    BY <1>4 DEF TypeAudit
  <1>5. CASE ChangeDevice
    BY <1>5 DEF ChangeDevice
  <1>6. CASE Search
    BY <1>6 DEF Search
  <1>7. CASE Prepare
    BY <1>7 DEF Prepare
  <1>8. CASE ExecuteErase
    BY <1>8 DEF ExecuteErase
  <1>9. CASE VerifyAudit
    BY <1>9 DEF VerifyAudit
  <1>10. CASE GenerateReport
    BY <1>10 DEF GenerateReport
  <1>11. CASE Close
    BY <1>11 DEF Close
  <1>12. CASE \E yes \in BOOLEAN : AnswerQuestion(yes)
    BY <1>12 DEF AnswerQuestion
  <1>13. CASE \E named \in BOOLEAN : ChooseDestination(named)
    BY <1>13 DEF ChooseDestination
  <1>14. CASE Launch
    BY <1>14 DEF Launch
  <1>15. CASE LaunchFails
    BY <1>15 DEF LaunchFails
  <1>16. CASE Answer
    BY <1>16 DEF Answer
  <1>17. CASE LostCallback
    BY <1>17 DEF LostCallback
  <1>18. CASE AfterSearch
    BY <1>18 DEF AfterSearch, FieldsType, Form
  <1>19. CASE AfterVersion
    BY <1>19 DEF AfterVersion
  <1>20. CASE AfterInspection
    BY <1>20 DEF AfterInspection
  <1>21. CASE AfterPlan
    BY <1>21 DEF AfterPlan, PlanRefused, PlanOutdated, PlanAccepted, Form, Context,
       Ended, ContextKept, Process, FieldsType
  <1>22. CASE AfterReinspection
    BY <1>22 DEF AfterReinspection
  <1>23. CASE AfterErase
    BY <1>23 DEF AfterErase
  <1>24. CASE AfterVerification
    BY <1>24 DEF AfterVerification
  <1>25. CASE AfterPrecheck
    BY <1>25 DEF AfterPrecheck
  <1>26. CASE AfterGeneration
    BY <1>26 DEF AfterGeneration
  <1>27. CASE \E t \in Targets, i \in Inspections \cup {None} : Swap(t, i)
    BY <1>27 DEF Swap
  <1>28. CASE UNCHANGED vars
    BY <1>28 DEF vars
  <1> QED
    BY EditCases, <1>1, <1>2, <1>3, <1>4, <1>5, <1>6, <1>7, <1>8, <1>9, <1>10, <1>11,
       <1>12, <1>13, <1>14, <1>15, <1>16, <1>17, <1>18, <1>19, <1>20, <1>21, <1>22,
       <1>23, <1>24, <1>25, <1>26, <1>27, <1>28 DEF Next, Operator, Child, Callback

(* A button that is set without a child is set with its reasons.           *)
LEMMA IdleReady ==
    ASSUME PreparationCurrent', Idle
    PROVE  ButtonMeansReady'
  <1>1. eraseOn' => Authorised(snapshot', form')
    BY DEF Idle
  <1>2. process' = None
    BY DEF Idle
  <1> QED
    BY <1>1, <1>2 DEF Authorised, ButtonMeansReady, PreparationCurrent

(* What is offered is ready.                                               *)
LEMMA ReadyStep ==
    ASSUME WindowInv, [Next]_vars
    PROVE  ReadyWhenOffered'
  <1> USE DEF Free, CanClick, Invalidate, Idle, Run, fields, reports, evidence, world,
          Bystanders, Untouched, ChildType, ReadyWhenOffered, ButtonMeansReady,
          QuestionConfirmed
  <1>types. FieldsType /\ ChildType
    BY TypeParts DEF WindowInv
  <1>inv. TypeOK /\ ReadyWhenOffered /\ PreparationCurrent
    BY DEF WindowInv
  <1> USE <1>types, <1>inv
  <1>1. CASE \E f \in Form : EditContext(f)
    BY <1>1 DEF EditContext
  <1>2. CASE \E f \in Form : Same(f, form) /\ EditConfirmation(f)
    <2>1. PICK f \in Form : Same(f, form) /\ EditConfirmation(f)
      BY <1>2
    <2>2. eraseOn' => process = None /\ Authorised(snapshot, f)
      BY <2>1 DEF EditConfirmation
    <2>3. form' = f /\ UNCHANGED <<process, snapshot, dialog>> /\ dialog = None
      BY <2>1 DEF EditConfirmation
    <2>4. CASE ~eraseOn'
      BY <2>3, <2>4
    <2>5. CASE eraseOn'
      <3>1. process = None /\ Authorised(snapshot, f)
        BY <2>2, <2>5
      <3>2. snapshot # None /\ Same(snapshot, f)
        BY <2>1, <3>1 DEF Authorised, PreparationCurrent, Same
      <3> QED
        BY <2>3, <3>1, <3>2 DEF Authorised
    <2> QED
      BY <2>4, <2>5
  <1>3. CASE \E j \in Journals : SelectAudit(j)
    BY <1>3 DEF SelectAudit
  <1>4. CASE \E j \in Journals \cup {None} : TypeAudit(j)
    BY <1>4 DEF TypeAudit
  <1>5. CASE ChangeDevice
    BY <1>5 DEF ChangeDevice
  <1>6. CASE Search
    BY <1>6 DEF Search
  <1>7. CASE Prepare
    BY <1>7 DEF Prepare
  <1>8. CASE ExecuteErase
    BY <1>8 DEF ExecuteErase
  <1>9. CASE VerifyAudit
    BY <1>9 DEF VerifyAudit
  <1>10. CASE GenerateReport
    BY <1>10 DEF GenerateReport
  <1>11. CASE Close
    BY <1>11 DEF Close
  <1>12. CASE \E yes \in BOOLEAN : AnswerQuestion(yes)
    BY <1>12 DEF AnswerQuestion
  <1>13. CASE \E named \in BOOLEAN : ChooseDestination(named)
    BY <1>13 DEF ChooseDestination
  <1>14. CASE Launch
    BY <1>14 DEF Launch
  <1>15. CASE LaunchFails
    BY <1>15 DEF LaunchFails
  <1>16. CASE Answer
    BY <1>16 DEF Answer
  <1>17. CASE LostCallback
    BY <1>17 DEF LostCallback
  <1>18. CASE AfterSearch
    <2>1. Idle /\ (dialog' = None)
      BY <1>18 DEF AfterSearch, Ended
    <2> QED
      BY <2>1, IdleReady, PreparationStep DEF WindowInv
  <1>19. CASE AfterVersion
    <2>1. eraseOn' = FALSE \/ Idle
      BY <1>19 DEF AfterVersion
    <2>2. dialog' = None
      BY <1>19 DEF AfterVersion, Ended
    <2> QED
      BY <2>1, <2>2, IdleReady, PreparationStep DEF WindowInv
  <1>20. CASE AfterInspection
    <2>1. eraseOn' = FALSE \/ Idle
      BY <1>20 DEF AfterInspection
    <2>2. dialog' = None
      BY <1>20 DEF AfterInspection, Ended
    <2> QED
      BY <2>1, <2>2, IdleReady, PreparationStep DEF WindowInv
  <1>21. CASE AfterPlan
    <2>1. Idle /\ (dialog' = None)
      BY <1>21 DEF AfterPlan, Ended
    <2> QED
      BY <2>1, IdleReady, PreparationStep DEF WindowInv
  <1>22. CASE AfterReinspection
    <2>1. Idle /\ process \in Process /\ dialog = None
      BY <1>22 DEF AfterReinspection, Ended
    <2>2. ButtonMeansReady'
      BY <2>1, IdleReady, PreparationStep DEF WindowInv
    <2>3. QuestionConfirmed'
      BY <1>22, <2>1 DEF AfterReinspection, StillConfirmed, Process, Context
    <2> QED
      BY <2>2, <2>3
  <1>23. CASE AfterErase
    <2>1. Idle /\ (dialog' = None)
      BY <1>23 DEF AfterErase, Ended
    <2> QED
      BY <2>1, IdleReady, PreparationStep DEF WindowInv
  <1>24. CASE AfterVerification
    <2>1. Idle /\ (dialog' = None)
      BY <1>24 DEF AfterVerification, Ended
    <2> QED
      BY <2>1, IdleReady, PreparationStep DEF WindowInv
  <1>25. CASE AfterPrecheck
    <2>1. Idle /\ (dialog'.kind = "precheck" \/ dialog' = None)
      BY <1>25 DEF AfterPrecheck, Ended
    <2> QED
      BY <2>1, IdleReady, PreparationStep DEF WindowInv
  <1>26. CASE AfterGeneration
    <2>1. Idle /\ (dialog' = None)
      BY <1>26 DEF AfterGeneration, Ended
    <2> QED
      BY <2>1, IdleReady, PreparationStep DEF WindowInv
  <1>27. CASE \E t \in Targets, i \in Inspections \cup {None} : Swap(t, i)
    BY <1>27 DEF Swap
  <1>28. CASE UNCHANGED vars
    BY <1>28 DEF vars
  <1> QED
    BY EditCases, <1>1, <1>2, <1>3, <1>4, <1>5, <1>6, <1>7, <1>8, <1>9, <1>10, <1>11,
       <1>12, <1>13, <1>14, <1>15, <1>16, <1>17, <1>18, <1>19, <1>20, <1>21, <1>22,
       <1>23, <1>24, <1>25, <1>26, <1>27, <1>28 DEF Next, Operator, Child, Callback

(* What is to be erased is named.                                          *)
LEMMA ChosenStep ==
    ASSUME WindowInv, [Next]_vars
    PROVE  Chosen'
  <1> USE DEF Free, CanClick, Invalidate, Idle, Run, fields, reports, evidence, world,
          Bystanders, Untouched, ChildType, Chosen, Runs, Named, Asking
  <1>types. FieldsType /\ ChildType
    BY TypeParts DEF WindowInv
  <1>inv. TypeOK /\ Chosen
    BY DEF WindowInv
  <1> USE <1>types, <1>inv
  <1>1. CASE \E f \in Form : EditContext(f)
    BY <1>1 DEF EditContext
  <1>2. CASE \E f \in Form : Same(f, form) /\ EditConfirmation(f)
    BY <1>2 DEF EditConfirmation
  <1>3. CASE \E j \in Journals : SelectAudit(j)
    BY <1>3 DEF SelectAudit
  <1>4. CASE \E j \in Journals \cup {None} : TypeAudit(j)
    BY <1>4 DEF TypeAudit
  <1>5. CASE ChangeDevice
    BY <1>5 DEF ChangeDevice
  <1>6. CASE Search
    BY <1>6 DEF Search, Preparing, Ended
  <1>7. CASE Prepare
    BY <1>7 DEF Prepare, Captured, FieldsType, Form, Preparing
  <1>8. CASE ExecuteErase
    BY <1>8 DEF ExecuteErase
  <1>9. CASE VerifyAudit
    BY <1>9 DEF VerifyAudit, Preparing, Ended
  <1>10. CASE GenerateReport
    BY <1>10 DEF GenerateReport, Preparing, Ended
  <1>11. CASE Close
    BY <1>11 DEF Close
  <1>12. CASE \E yes \in BOOLEAN : AnswerQuestion(yes)
    BY <1>12 DEF AnswerQuestion, Preparing, Ended
  <1>13. CASE \E named \in BOOLEAN : ChooseDestination(named)
    BY <1>13 DEF ChooseDestination, Preparing, Ended, JournalChecked
  <1>14. CASE Launch
    BY <1>14 DEF Launch
  <1>15. CASE LaunchFails
    BY <1>15 DEF LaunchFails
  <1>16. CASE Answer
    BY <1>16 DEF Answer
  <1>17. CASE LostCallback
    BY <1>17 DEF LostCallback
  <1>18. CASE AfterSearch
    BY <1>18 DEF AfterSearch
  <1>19. CASE AfterVersion
    BY <1>19 DEF AfterVersion, Preparing, Ended
  <1>20. CASE AfterInspection
    BY <1>20 DEF AfterInspection, Preparing, Ended
  <1>21. CASE AfterPlan
    BY <1>21 DEF AfterPlan, PlanRefused, PlanOutdated, PlanAccepted, Ended, Process,
       Context, Preparing
  <1>22. CASE AfterReinspection
    BY <1>22 DEF AfterReinspection, Ended, Process, Context, Preparing
  <1>23. CASE AfterErase
    BY <1>23 DEF AfterErase
  <1>24. CASE AfterVerification
    BY <1>24 DEF AfterVerification
  <1>25. CASE AfterPrecheck
    BY <1>25 DEF AfterPrecheck
  <1>26. CASE AfterGeneration
    BY <1>26 DEF AfterGeneration
  <1>27. CASE \E t \in Targets, i \in Inspections \cup {None} : Swap(t, i)
    BY <1>27 DEF Swap
  <1>28. CASE UNCHANGED vars
    BY <1>28 DEF vars
  <1> QED
    BY EditCases, <1>1, <1>2, <1>3, <1>4, <1>5, <1>6, <1>7, <1>8, <1>9, <1>10, <1>11,
       <1>12, <1>13, <1>14, <1>15, <1>16, <1>17, <1>18, <1>19, <1>20, <1>21, <1>22,
       <1>23, <1>24, <1>25, <1>26, <1>27, <1>28 DEF Next, Operator, Child, Callback

(* What a child printed is a fact.                                         *)
LEMMA HeardStep ==
    ASSUME WindowInv, [Next]_vars
    PROVE  Heard'
  <1> USE DEF Free, CanClick, Invalidate, Idle, Run, fields, reports, evidence, world,
          Bystanders, Untouched, ChildType, Heard, Runs, Said
  <1>types. FieldsType /\ ChildType
    BY TypeParts DEF WindowInv
  <1>inv. TypeOK /\ Heard /\ Chosen
    BY DEF WindowInv
  <1> USE <1>types, <1>inv
  <1>1. CASE \E f \in Form : EditContext(f)
    BY <1>1 DEF EditContext
  <1>2. CASE \E f \in Form : Same(f, form) /\ EditConfirmation(f)
    BY <1>2 DEF EditConfirmation
  <1>3. CASE \E j \in Journals : SelectAudit(j)
    BY <1>3 DEF SelectAudit
  <1>4. CASE \E j \in Journals \cup {None} : TypeAudit(j)
    BY <1>4 DEF TypeAudit
  <1>5. CASE ChangeDevice
    BY <1>5 DEF ChangeDevice
  <1>6. CASE Search
    BY <1>6 DEF Search
  <1>7. CASE Prepare
    BY <1>7 DEF Prepare
  <1>8. CASE ExecuteErase
    BY <1>8 DEF ExecuteErase
  <1>9. CASE VerifyAudit
    BY <1>9 DEF VerifyAudit
  <1>10. CASE GenerateReport
    BY <1>10 DEF GenerateReport
  <1>11. CASE Close
    BY <1>11 DEF Close
  <1>12. CASE \E yes \in BOOLEAN : AnswerQuestion(yes)
    BY <1>12 DEF AnswerQuestion
  <1>13. CASE \E named \in BOOLEAN : ChooseDestination(named)
    BY <1>13 DEF ChooseDestination
  <1>14. CASE Launch
    BY <1>14 DEF Launch, Process
  <1>15. CASE LaunchFails
    BY <1>15 DEF LaunchFails, Process
  <1>16. CASE Answer
    <2>1. process \in Process /\ (process.kind \in Preparing => process.ctx.target \in Targets)
      BY <1>16 DEF Answer, Chosen, Named
    <2>2. PICK o \in Outputs(process.kind, process.ctx) \cup {None} :
             /\ process' = [process EXCEPT !.stage = "ended", !.seen = o]
             /\ process.kind \in Preparing /\ o # None =>
                  facts' = facts \cup {[kind |-> process.kind, binary |-> process.ctx.binary,
                                       target |-> process.ctx.target,
                                       strategy |-> process.ctx.strategy, seen |-> o]}
      BY <1>16 DEF Answer
    <2>3. process'.kind = process.kind /\ process'.ctx = process.ctx /\ process'.seen = o
      BY <2>1, <2>2 DEF Process
    <2>4. process.kind \in {"inspect", "reinspect"} => o \in Inspections \cup {None}
      BY <2>1, <2>2, OutputType DEF Process, Preparing
    <2> QED
      BY <1>16, <2>2, <2>3, <2>4 DEF Answer
  <1>17. CASE LostCallback
    BY <1>17 DEF LostCallback
  <1>18. CASE AfterSearch
    BY <1>18 DEF AfterSearch
  <1>19. CASE AfterVersion
    BY <1>19 DEF AfterVersion, Ended, Preparing
  <1>20. CASE AfterInspection
    BY <1>20 DEF AfterInspection, Ended, Preparing
  <1>21. CASE AfterPlan
    BY <1>21 DEF AfterPlan
  <1>22. CASE AfterReinspection
    BY <1>22 DEF AfterReinspection
  <1>23. CASE AfterErase
    BY <1>23 DEF AfterErase
  <1>24. CASE AfterVerification
    BY <1>24 DEF AfterVerification
  <1>25. CASE AfterPrecheck
    BY <1>25 DEF AfterPrecheck
  <1>26. CASE AfterGeneration
    BY <1>26 DEF AfterGeneration
  <1>27. CASE \E t \in Targets, i \in Inspections \cup {None} : Swap(t, i)
    BY <1>27 DEF Swap
  <1>28. CASE UNCHANGED vars
    BY <1>28 DEF vars
  <1> QED
    BY EditCases, <1>1, <1>2, <1>3, <1>4, <1>5, <1>6, <1>7, <1>8, <1>9, <1>10, <1>11,
       <1>12, <1>13, <1>14, <1>15, <1>16, <1>17, <1>18, <1>19, <1>20, <1>21, <1>22,
       <1>23, <1>24, <1>25, <1>26, <1>27, <1>28 DEF Next, Operator, Child, Callback

(* The chain that may end in an erasure goes on.                           *)
LEMMA ChainStep ==
    ASSUME WindowInv, [Next]_vars
    PROVE  Chain'
  <1> USE DEF Free, CanClick, Invalidate, Idle, Run, fields, reports, evidence, world,
          Bystanders, Untouched, ChildType, Chain, Runs, Asking, Reinspected, Planned,
          Said
  <1>types. FieldsType /\ ChildType
    BY TypeParts DEF WindowInv
  <1>inv. Chain /\ Heard /\ Chosen /\ ReadyWhenOffered /\ TypeOK
    BY DEF WindowInv
  <1> USE <1>types, <1>inv
  <1>1. CASE \E f \in Form : EditContext(f)
    BY <1>1 DEF EditContext
  <1>2. CASE \E f \in Form : Same(f, form) /\ EditConfirmation(f)
    BY <1>2 DEF EditConfirmation
  <1>3. CASE \E j \in Journals : SelectAudit(j)
    BY <1>3 DEF SelectAudit
  <1>4. CASE \E j \in Journals \cup {None} : TypeAudit(j)
    BY <1>4 DEF TypeAudit
  <1>5. CASE ChangeDevice
    BY <1>5 DEF ChangeDevice
  <1>6. CASE Search
    BY <1>6 DEF Search
  <1>7. CASE Prepare
    BY <1>7 DEF Prepare
  <1>8. CASE ExecuteErase
    BY <1>8 DEF ExecuteErase, ReadyWhenOffered, ButtonMeansReady
  <1>9. CASE VerifyAudit
    BY <1>9 DEF VerifyAudit
  <1>10. CASE GenerateReport
    BY <1>10 DEF GenerateReport
  <1>11. CASE Close
    BY <1>11 DEF Close
  <1>12. CASE \E yes \in BOOLEAN : AnswerQuestion(yes)
    BY <1>12 DEF AnswerQuestion
  <1>13. CASE \E named \in BOOLEAN : ChooseDestination(named)
    BY <1>13 DEF ChooseDestination
  <1>14. CASE Launch
    BY <1>14 DEF Launch, Process
  <1>15. CASE LaunchFails
    BY <1>15 DEF LaunchFails, Process
  <1>16. CASE Answer
    <2>1. PICK o \in Outputs(process.kind, process.ctx) \cup {None} :
             process' = [process EXCEPT !.stage = "ended", !.seen = o]
      BY <1>16 DEF Answer
    <2>2. process \in Process /\ facts \subseteq facts'
      BY <1>16 DEF Answer
    <2>3. process'.kind = process.kind /\ process'.ctx = process.ctx
      BY <2>1, <2>2 DEF Process
    <2> QED
      BY <1>16, <2>2, <2>3 DEF Answer
  <1>17. CASE LostCallback
    BY <1>17 DEF LostCallback
  <1>18. CASE AfterSearch
    BY <1>18 DEF AfterSearch
  <1>19. CASE AfterVersion
    BY <1>19, WindowAssumption DEF AfterVersion, Ended, Standard, Heard, Preparing
  <1>20. CASE AfterInspection
    <2>1. process \in Process /\ Runs("inspect") /\ Said("version", process.ctx, "standard")
      BY <1>20 DEF AfterInspection, Ended
    <2>2. process.seen # None => Said("inspect", process.ctx, process.seen)
      BY <2>1 DEF Heard, Preparing
    <2> QED
      BY <1>20, <2>1, <2>2 DEF AfterInspection
  <1>21. CASE AfterPlan
    <2>1. process \in Process /\ Runs("plan") /\ Said("version", process.ctx, "standard")
      BY <1>21 DEF AfterPlan, Ended
    <2>2. process.seen = "executable" => Said("plan", process.ctx, "executable")
      BY <2>1, WindowAssumption DEF Heard, Preparing
    <2>3. process' = None /\ dialog' = None /\ UNCHANGED facts
      BY <1>21 DEF AfterPlan, Ended
    <2>4. CASE PlanRefused \/ PlanOutdated
      BY <2>3, <2>4 DEF PlanRefused, PlanOutdated
    <2>5. CASE PlanAccepted
      <3>1. /\ snapshot'.binary = process.ctx.binary /\ snapshot'.target = process.ctx.target
            /\ snapshot'.strategy = process.ctx.strategy /\ snapshot'.inspection = pending
        BY <2>1, <2>5 DEF PlanAccepted, Process, Context
      <3>2. Planned(snapshot)'
        BY <2>1, <2>2, <2>3, <2>5, <3>1 DEF PlanAccepted
      <3> QED
        BY <2>3, <3>2
    <2> QED
      BY <1>21, <2>4, <2>5 DEF AfterPlan
  <1>22. CASE AfterReinspection
    <2>1. process \in Process /\ Runs("reinspect") /\ Planned(process.ctx)
      BY <1>22 DEF AfterReinspection, Ended
    <2>2. process.seen # None => Said("reinspect", process.ctx, process.seen)
      BY <2>1 DEF Heard, Preparing
    <2>3. process' = None /\ dialog = None /\ UNCHANGED facts
      BY <1>22 DEF AfterReinspection, Ended
    <2>4. CASE dialog' = None
      BY <1>22, <2>3, <2>4 DEF AfterReinspection
    <2>5. CASE dialog' = [kind |-> "reinspect", ctx |-> process.ctx] /\ process.seen # None
               /\ process.seen = process.ctx.inspection
      BY <1>22, <2>1, <2>2, <2>3, <2>5 DEF AfterReinspection
    <2>6. SameInspection(process.seen, process.ctx) =>
            [process.ctx EXCEPT !.inspection = process.seen] = process.ctx
      BY <2>1 DEF SameInspection, Process, Context
    <2> QED
      BY <1>22, <2>3, <2>4, <2>5, <2>6 DEF AfterReinspection, SameInspection
  <1>23. CASE AfterErase
    BY <1>23 DEF AfterErase
  <1>24. CASE AfterVerification
    BY <1>24 DEF AfterVerification
  <1>25. CASE AfterPrecheck
    BY <1>25 DEF AfterPrecheck
  <1>26. CASE AfterGeneration
    BY <1>26 DEF AfterGeneration
  <1>27. CASE \E t \in Targets, i \in Inspections \cup {None} : Swap(t, i)
    BY <1>27 DEF Swap
  <1>28. CASE UNCHANGED vars
    BY <1>28 DEF vars
  <1> QED
    BY EditCases, <1>1, <1>2, <1>3, <1>4, <1>5, <1>6, <1>7, <1>8, <1>9, <1>10, <1>11,
       <1>12, <1>13, <1>14, <1>15, <1>16, <1>17, <1>18, <1>19, <1>20, <1>21, <1>22,
       <1>23, <1>24, <1>25, <1>26, <1>27, <1>28 DEF Next, Operator, Child, Callback

(* The journal of the report stays the last one accepted.                  *)
LEMMA AcceptedStep ==
    ASSUME WindowInv, [Next]_vars
    PROVE  Accepted'
  <1> USE DEF Free, CanClick, Invalidate, Idle, Run, fields, reports, evidence, world,
          Bystanders, Untouched, ChildType, Accepted, Runs
  <1>types. FieldsType /\ ChildType
    BY TypeParts DEF WindowInv
  <1>inv. TypeOK /\ Accepted
    BY DEF WindowInv
  <1> USE <1>types, <1>inv
  <1>1. CASE \E f \in Form : EditContext(f)
    BY <1>1 DEF EditContext
  <1>2. CASE \E f \in Form : Same(f, form) /\ EditConfirmation(f)
    BY <1>2 DEF EditConfirmation
  <1>3. CASE \E j \in Journals : SelectAudit(j)
    BY <1>3 DEF SelectAudit
  <1>4. CASE \E j \in Journals \cup {None} : TypeAudit(j)
    BY <1>4 DEF TypeAudit
  <1>5. CASE ChangeDevice
    BY <1>5 DEF ChangeDevice
  <1>6. CASE Search
    BY <1>6 DEF Search
  <1>7. CASE Prepare
    BY <1>7 DEF Prepare
  <1>8. CASE ExecuteErase
    BY <1>8 DEF ExecuteErase
  <1>9. CASE VerifyAudit
    BY <1>9 DEF VerifyAudit
  <1>10. CASE GenerateReport
    BY <1>10, WindowAssumption DEF GenerateReport
  <1>11. CASE Close
    BY <1>11 DEF Close
  <1>12. CASE \E yes \in BOOLEAN : AnswerQuestion(yes)
    BY <1>12 DEF AnswerQuestion
  <1>13. CASE \E named \in BOOLEAN : ChooseDestination(named)
    BY <1>13 DEF ChooseDestination, JournalChecked
  <1>14. CASE Launch
    BY <1>14 DEF Launch, Process
  <1>15. CASE LaunchFails
    BY <1>15 DEF LaunchFails, Process
  <1>16. CASE Answer
    <2>1. process \in Process
      BY <1>16 DEF Answer
    <2>2. PICK o \in Outputs(process.kind, process.ctx) \cup {None} :
             /\ process' = [process EXCEPT !.stage = "ended", !.seen = o]
             /\ checked' = IF process.kind \in {"verify", "precheck"} /\ o = "ok"
                           THEN process.ctx.journal ELSE checked
      BY <1>16 DEF Answer
    <2>3. process'.kind = process.kind /\ process'.ctx = process.ctx /\ process'.seen = o
      BY <2>1, <2>2 DEF Process
    <2> QED
      BY <1>16, <2>2, <2>3 DEF Answer
  <1>17. CASE LostCallback
    BY <1>17 DEF LostCallback
  <1>18. CASE AfterSearch
    BY <1>18 DEF AfterSearch
  <1>19. CASE AfterVersion
    BY <1>19 DEF AfterVersion
  <1>20. CASE AfterInspection
    BY <1>20 DEF AfterInspection
  <1>21. CASE AfterPlan
    BY <1>21 DEF AfterPlan
  <1>22. CASE AfterReinspection
    BY <1>22 DEF AfterReinspection
  <1>23. CASE AfterErase
    BY <1>23 DEF AfterErase
  <1>24. CASE AfterVerification
    BY <1>24 DEF AfterVerification
  <1>25. CASE AfterPrecheck
    BY <1>25 DEF AfterPrecheck, Ended
  <1>26. CASE AfterGeneration
    BY <1>26 DEF AfterGeneration
  <1>27. CASE \E t \in Targets, i \in Inspections \cup {None} : Swap(t, i)
    BY <1>27 DEF Swap
  <1>28. CASE UNCHANGED vars
    BY <1>28 DEF vars
  <1> QED
    BY EditCases, <1>1, <1>2, <1>3, <1>4, <1>5, <1>6, <1>7, <1>8, <1>9, <1>10, <1>11,
       <1>12, <1>13, <1>14, <1>15, <1>16, <1>17, <1>18, <1>19, <1>20, <1>21, <1>22,
       <1>23, <1>24, <1>25, <1>26, <1>27, <1>28 DEF Next, Operator, Child, Callback

-----------------------------------------------------------------------------
(* The theorems.                                                           *)

(* The window the program opens satisfies the invariant.                   *)
LEMMA WindowInit == Init => WindowInv
  <1> SUFFICES ASSUME Init PROVE WindowInv
    OBVIOUS
  <1>1. FieldsType
    BY DEF Init, FieldsType, Form
  <1>2. ChildType /\ ButtonType /\ EvidenceType /\ WorldType
    BY WindowAssumption DEF Init, ChildType, ButtonType, EvidenceType, WorldType, Modal
  <1>3. Chosen /\ PreparationCurrent /\ ReadyWhenOffered /\ Heard /\ Chain /\ Accepted
    BY DEF Init, Chosen, PreparationCurrent, ReadyWhenOffered, ButtonMeansReady,
       QuestionConfirmed, Heard, Chain, Accepted, Runs, Asking
  <1> QED
    BY <1>1, <1>2, <1>3, TypeParts DEF WindowInv

(* The invariant holds in every state of the window, whatever the operator *)
(* edits, whatever the children print and in whatever order.               *)
THEOREM WindowInvariant == Spec => []WindowInv
  <1>1. ASSUME WindowInv, [Next]_vars PROVE WindowInv'
    <2>1. TypeOK /\ Modal /\ Chosen /\ Heard
      BY <1>1 DEF WindowInv
    <2>2. FieldsType' /\ ChildType' /\ ButtonType' /\ EvidenceType' /\ WorldType'
      BY <1>1, <2>1, FieldsStep, ChildStep, ButtonStep, EvidenceStep, WorldStep
    <2>3. (TypeOK /\ Modal <=> FieldsType /\ ChildType /\ ButtonType /\ EvidenceType /\ WorldType)'
      BY TypeParts, PTL
    <2>4. PreparationCurrent' /\ ReadyWhenOffered' /\ Chosen' /\ Heard' /\ Chain' /\ Accepted'
      BY <1>1, PreparationStep, ReadyStep, ChosenStep, HeardStep, ChainStep,
         AcceptedStep
    <2> QED
      BY <2>2, <2>3, <2>4 DEF WindowInv
  <1> QED
    BY <1>1, WindowInit, PTL DEF Spec

(* A preparation names what the window shows, at every moment.             *)
THEOREM PreparationAlwaysCurrent == Spec => []PreparationCurrent
  <1>1. WindowInv => PreparationCurrent
    BY DEF WindowInv
  <1> QED
    BY <1>1, WindowInvariant, PTL

(* An erasure is offered, by the button and by the last question, only     *)
(* when all that its handler requires holds at that moment.                *)
THEOREM OfferAlwaysReady == Spec => []ReadyWhenOffered
  <1>1. WindowInv => ReadyWhenOffered
    BY DEF WindowInv
  <1> QED
    BY <1>1, WindowInvariant, PTL

(* The engine is told to erase only what it has, through this binary and   *)
(* since the last request, identified as standard, inspected, planned and  *)
(* inspected again with the same result.                                   *)
THEOREM ErasureAlwaysPrepared == Spec => []NothingErasedUnprepared
  <1>1. WindowInv => NothingErasedUnprepared
    BY DEF WindowInv, Chain, Runs, Reinspected, Planned, NothingErasedUnprepared
  <1> QED
    BY <1>1, WindowInvariant, PTL

(* A report is made from the journal the engine accepted last.             *)
THEOREM ReportAlwaysVerified == Spec => []ReportOfVerified
  <1>1. WindowInv => ReportOfVerified
    BY DEF WindowInv, Accepted, Runs, ReportOfVerified
  <1> QED
    BY <1>1, WindowInvariant, PTL

=============================================================================
