------------------------- MODULE NvmeSanitizeProofs -------------------------
(***************************************************************************)
(* Safety of the native purge for every value of the polling limits and    *)
(* every number of operations of other tools.                              *)
(*                                                                         *)
(* The verdict is drawn from one reading of a log that may be stale, so    *)
(* ResultMatchesDrive is not inductive: PurgeInv adds what the host's      *)
(* place says of the command, and what the log shows once the command has  *)
(* been seen running.                                                      *)
(***************************************************************************)
EXTENDS NvmeSanitize, TLAPS

Polling == {"loop", "read", "sleep"}
Before == {"open", "select", "validate", "send"}

(* Where the host stands, what it has sent and what it has returned.       *)
HostInv ==
    /\ hpc = "done" <=> result # Undecided
    /\ hpc \in Before => ours = "none" /\ ~observed /\ pending = 0 /\ polls = 0 /\ status = NoStatus
    /\ hpc \in Polling => /\ ours \in {"accepted", "running", "succeeded", "failed"}
                          /\ status = NoStatus \/ status \in Logged(LogState)
    /\ observed => ours \in {"running", "succeeded", "failed"}

(* What the log shows of the command and of the other tools.               *)
DriveInv ==
    /\ sstat = InProgress <=> foreign \/ ours = "running"
    /\ ours \in {"accepted", "running"} => ~foreign
    /\ ours \in {"succeeded", "failed"} /\ sstat \in Done => sanitized
    /\ foreigns = 0 /\ ours \in {"succeeded", "failed"} => ~foreign
    /\ foreigns = 0 /\ ours = "succeeded" => sstat \in Done
    /\ foreigns = 0 /\ ours = "failed" => sstat = Failed

PurgeInv ==
    /\ TypeOK
    /\ HostInv
    /\ DriveInv
    /\ ResultMatchesDrive
    /\ OutcomeAllowed
    /\ PollingBounded
-----------------------------------------------------------------------------
(* A log status is determined by the state it carries.                     *)
LEMMA LoggedIff ==
    ASSUME NEW X, NEW s
    PROVE  [source |-> "log", state |-> s] \in Logged(X) <=> s \in X
  BY DEF Logged

(* The statuses the job can carry are of the right type and distinct.      *)
LEMMA StatusFacts ==
    /\ NoStatus \in Status /\ Refused \in Status /\ Logged(LogState) \subseteq Status
    /\ NoStatus # Refused
    /\ NoStatus \notin Logged(LogState) /\ Refused \notin Logged(LogState)
    /\ Logged(Done) \subseteq Logged(LogState) /\ Logged({Failed}) \subseteq Logged(LogState)
  BY DEF NoStatus, Refused, Status, Logged, LogState, Done, Never, Success, InProgress, Failed,
         SuccessNoDealloc, Reserved

(* The outcomes, read result by result.                                    *)
LEMMA OutcomeCases ==
    \A r, s : <<r, s>> \in Outcomes <=>
        \/ r = 0 /\ s \in Logged(Done)
        \/ r = -1 /\ (s \in {NoStatus, Refused} \/ s \in Logged({Failed}))
        \/ r = -2 /\ (s = NoStatus \/ s \in Logged(LogState))
  BY DEF Outcomes, Indeterminate

(* The initial states satisfy the invariant.                               *)
LEMMA PurgeInit == Init => PurgeInv
  <1> SUFFICES ASSUME Init PROVE PurgeInv
    OBVIOUS
  <1> USE DEF Init, Undecided, Indeterminate,
         LogState, Done, Never, Success, InProgress, Failed, SuccessNoDealloc, Reserved,
         Actions, Unavailable
  <1>1. TypeOK
    BY StatusFacts DEF TypeOK
  <1>2. HostInv
    BY DEF HostInv, Before, Polling
  <1>3. DriveInv
    BY DEF DriveInv
  <1>4. ResultMatchesDrive
    BY DEF ResultMatchesDrive
  <1>5. OutcomeAllowed
    BY DEF OutcomeAllowed
  <1>6. PollingBounded
    BY DEF PollingBounded
  <1> QED
    BY <1>1, <1>2, <1>3, <1>4, <1>5, <1>6 DEF PurgeInv

(* Every step keeps it.                                                    *)
LEMMA PurgeStep == PurgeInv /\ [Next]_vars => PurgeInv'
  <1> SUFFICES ASSUME PurgeInv, [Next]_vars PROVE PurgeInv'
    OBVIOUS
  <1> USE SanitizeAssumption
      DEF PurgeInv, Before, Polling, Undecided, Indeterminate,
          LogState, Done, Never, Success, InProgress, Failed, SuccessNoDealloc, Reserved,
          Actions, Unavailable, host, drive, Goto, Return
  <1>1. CASE OpenDevice
    <2> USE <1>1 DEF OpenDevice
    <2>1. TypeOK'
      BY StatusFacts DEF TypeOK, HostInv
    <2>2. HostInv'
      BY StatusFacts DEF HostInv, DriveInv, TypeOK
    <2>3. DriveInv'
      BY DEF DriveInv, HostInv, TypeOK
    <2>4. ResultMatchesDrive'
      BY DEF ResultMatchesDrive, HostInv, DriveInv, TypeOK
    <2>5. OutcomeAllowed'
      BY StatusFacts, OutcomeCases DEF OutcomeAllowed, HostInv, TypeOK
    <2>6. PollingBounded'
      BY DEF PollingBounded, HostInv, TypeOK
    <2> QED
      BY <2>1, <2>2, <2>3, <2>4, <2>5, <2>6
  <1>2. CASE SelectAction
    <2> USE <1>2 DEF SelectAction
    <2>1. TypeOK'
      BY StatusFacts DEF TypeOK, HostInv
    <2>2. HostInv'
      BY StatusFacts DEF HostInv, DriveInv, TypeOK
    <2>3. DriveInv'
      BY DEF DriveInv, HostInv, TypeOK
    <2>4. ResultMatchesDrive'
      BY DEF ResultMatchesDrive, HostInv, DriveInv, TypeOK
    <2>5. OutcomeAllowed'
      BY StatusFacts, OutcomeCases DEF OutcomeAllowed, HostInv, TypeOK
    <2>6. PollingBounded'
      BY DEF PollingBounded, HostInv, TypeOK
    <2> QED
      BY <2>1, <2>2, <2>3, <2>4, <2>5, <2>6
  <1>3. CASE ValidateDevice
    <2> USE <1>3 DEF ValidateDevice
    <2>1. TypeOK'
      BY StatusFacts DEF TypeOK, HostInv
    <2>2. HostInv'
      BY StatusFacts DEF HostInv, DriveInv, TypeOK
    <2>3. DriveInv'
      BY DEF DriveInv, HostInv, TypeOK
    <2>4. ResultMatchesDrive'
      BY DEF ResultMatchesDrive, HostInv, DriveInv, TypeOK
    <2>5. OutcomeAllowed'
      BY StatusFacts, OutcomeCases DEF OutcomeAllowed, HostInv, TypeOK
    <2>6. PollingBounded'
      BY DEF PollingBounded, HostInv, TypeOK
    <2> QED
      BY <2>1, <2>2, <2>3, <2>4, <2>5, <2>6
  <1>4. CASE SendAccepted
    <2> USE <1>4 DEF SendAccepted, DriveIdle
    <2>1. TypeOK'
      BY StatusFacts DEF TypeOK, HostInv
    <2>2. HostInv'
      BY StatusFacts DEF HostInv, DriveInv, TypeOK
    <2>3. DriveInv'
      BY DEF DriveInv, HostInv, TypeOK
    <2>4. ResultMatchesDrive'
      BY DEF ResultMatchesDrive, HostInv, DriveInv, TypeOK
    <2>5. OutcomeAllowed'
      BY StatusFacts, OutcomeCases DEF OutcomeAllowed, HostInv, TypeOK
    <2>6. PollingBounded'
      BY DEF PollingBounded, HostInv, TypeOK
    <2> QED
      BY <2>1, <2>2, <2>3, <2>4, <2>5, <2>6
  <1>5. CASE SendRefused
    <2> USE <1>5 DEF SendRefused
    <2>1. TypeOK'
      BY StatusFacts DEF TypeOK, HostInv
    <2>2. HostInv'
      BY StatusFacts DEF HostInv, DriveInv, TypeOK
    <2>3. DriveInv'
      BY DEF DriveInv, HostInv, TypeOK
    <2>4. ResultMatchesDrive'
      BY DEF ResultMatchesDrive, HostInv, DriveInv, TypeOK
    <2>5. OutcomeAllowed'
      BY StatusFacts, OutcomeCases DEF OutcomeAllowed, HostInv, TypeOK
    <2>6. PollingBounded'
      BY DEF PollingBounded, HostInv, TypeOK
    <2> QED
      BY <2>1, <2>2, <2>3, <2>4, <2>5, <2>6
  <1>6. CASE SendLost
    <2> USE <1>6 DEF SendLost, DriveIdle
    <2>1. TypeOK'
      BY StatusFacts DEF TypeOK, HostInv
    <2>2. HostInv'
      BY StatusFacts DEF HostInv, DriveInv, TypeOK
    <2>3. DriveInv'
      BY DEF DriveInv, HostInv, TypeOK
    <2>4. ResultMatchesDrive'
      BY DEF ResultMatchesDrive, HostInv, DriveInv, TypeOK
    <2>5. OutcomeAllowed'
      BY StatusFacts, OutcomeCases DEF OutcomeAllowed, HostInv, TypeOK
    <2>6. PollingBounded'
      BY DEF PollingBounded, HostInv, TypeOK
    <2> QED
      BY <2>1, <2>2, <2>3, <2>4, <2>5, <2>6
  <1>7. CASE PollCancelled
    <2> USE <1>7 DEF PollCancelled
    <2>1. TypeOK'
      BY StatusFacts DEF TypeOK, HostInv
    <2>2. HostInv'
      BY StatusFacts DEF HostInv, DriveInv, TypeOK
    <2>3. DriveInv'
      BY DEF DriveInv, HostInv, TypeOK
    <2>4. ResultMatchesDrive'
      BY DEF ResultMatchesDrive, HostInv, DriveInv, TypeOK
    <2>5. OutcomeAllowed'
      BY StatusFacts, OutcomeCases DEF OutcomeAllowed, HostInv, TypeOK
    <2>6. PollingBounded'
      BY DEF PollingBounded, HostInv, TypeOK
    <2> QED
      BY <2>1, <2>2, <2>3, <2>4, <2>5, <2>6
  <1>8. CASE PollAgain
    <2> USE <1>8 DEF PollAgain
    <2>1. TypeOK'
      BY StatusFacts DEF TypeOK, HostInv
    <2>2. HostInv'
      BY StatusFacts DEF HostInv, DriveInv, TypeOK
    <2>3. DriveInv'
      BY DEF DriveInv, HostInv, TypeOK
    <2>4. ResultMatchesDrive'
      BY DEF ResultMatchesDrive, HostInv, DriveInv, TypeOK
    <2>5. OutcomeAllowed'
      BY StatusFacts, OutcomeCases DEF OutcomeAllowed, HostInv, TypeOK
    <2>6. PollingBounded'
      BY DEF PollingBounded, HostInv, TypeOK
    <2> QED
      BY <2>1, <2>2, <2>3, <2>4, <2>5, <2>6
  <1>9. CASE ReadFails
    <2> USE <1>9 DEF ReadFails
    <2>1. TypeOK'
      BY StatusFacts DEF TypeOK, HostInv
    <2>2. HostInv'
      BY StatusFacts DEF HostInv, DriveInv, TypeOK
    <2>3. DriveInv'
      BY DEF DriveInv, HostInv, TypeOK
    <2>4. ResultMatchesDrive'
      BY DEF ResultMatchesDrive, HostInv, DriveInv, TypeOK
    <2>5. OutcomeAllowed'
      BY StatusFacts, OutcomeCases DEF OutcomeAllowed, HostInv, TypeOK
    <2>6. PollingBounded'
      BY DEF PollingBounded, HostInv, TypeOK
    <2> QED
      BY <2>1, <2>2, <2>3, <2>4, <2>5, <2>6
  <1>10. CASE ReadLog
    <2> USE <1>10, LoggedIff DEF ReadLog, ResultOf, Seen, Concluded, Waiting, GivesUp, CountPoll
    <2>1. TypeOK'
      <3>1. status' \in Status
        BY DEF TypeOK, Status
      <3>2. pending' \in Nat /\ polls' \in Nat
        BY DEF TypeOK
      <3>3. observed' \in BOOLEAN
        BY DEF TypeOK
      <3>4. open' \in BOOLEAN /\ result' \in {Undecided, 0, -1, Indeterminate}
        BY DEF TypeOK
      <3> QED
        BY <3>1, <3>2, <3>3, <3>4 DEF TypeOK
    <2>2. HostInv'
      BY StatusFacts DEF HostInv, DriveInv, TypeOK
    <2>3. DriveInv'
      BY DEF DriveInv, HostInv, TypeOK
    <2>4. ResultMatchesDrive'
      BY DEF ResultMatchesDrive, HostInv, DriveInv, TypeOK
    <2>5. OutcomeAllowed'
      BY StatusFacts, OutcomeCases DEF OutcomeAllowed, HostInv, TypeOK
    <2>6. PollingBounded'
      BY DEF PollingBounded, HostInv, TypeOK
    <2> QED
      BY <2>1, <2>2, <2>3, <2>4, <2>5, <2>6
  <1>11. CASE WaitBeforePoll
    <2> USE <1>11 DEF WaitBeforePoll
    <2>1. TypeOK'
      <3>1. open' \in BOOLEAN /\ result' \in {Undecided, 0, -1, Indeterminate}
        BY DEF TypeOK
      <3> QED
        BY <3>1 DEF TypeOK
    <2>2. HostInv'
      BY StatusFacts DEF HostInv, DriveInv, TypeOK
    <2>3. DriveInv'
      BY DEF DriveInv, HostInv, TypeOK
    <2>4. ResultMatchesDrive'
      BY DEF ResultMatchesDrive, HostInv, DriveInv, TypeOK
    <2>5. OutcomeAllowed'
      BY StatusFacts, OutcomeCases DEF OutcomeAllowed, HostInv, TypeOK
    <2>6. PollingBounded'
      BY DEF PollingBounded, HostInv, TypeOK
    <2> QED
      BY <2>1, <2>2, <2>3, <2>4, <2>5, <2>6
  <1>12. CASE RequestCancel
    <2> USE <1>12 DEF RequestCancel
    <2>1. TypeOK'
      BY StatusFacts DEF TypeOK, HostInv
    <2>2. HostInv'
      BY StatusFacts DEF HostInv, DriveInv, TypeOK
    <2>3. DriveInv'
      BY DEF DriveInv, HostInv, TypeOK
    <2>4. ResultMatchesDrive'
      BY DEF ResultMatchesDrive, HostInv, DriveInv, TypeOK
    <2>5. OutcomeAllowed'
      BY StatusFacts, OutcomeCases DEF OutcomeAllowed, HostInv, TypeOK
    <2>6. PollingBounded'
      BY DEF PollingBounded, HostInv, TypeOK
    <2> QED
      BY <2>1, <2>2, <2>3, <2>4, <2>5, <2>6
  <1>13. CASE DriveBegins
    <2> USE <1>13 DEF DriveBegins
    <2>1. TypeOK'
      BY StatusFacts DEF TypeOK, HostInv
    <2>2. HostInv'
      BY StatusFacts DEF HostInv, DriveInv, TypeOK
    <2>3. DriveInv'
      BY DEF DriveInv, HostInv, TypeOK
    <2>4. ResultMatchesDrive'
      BY DEF ResultMatchesDrive, HostInv, DriveInv, TypeOK
    <2>5. OutcomeAllowed'
      BY StatusFacts, OutcomeCases DEF OutcomeAllowed, HostInv, TypeOK
    <2>6. PollingBounded'
      BY DEF PollingBounded, HostInv, TypeOK
    <2> QED
      BY <2>1, <2>2, <2>3, <2>4, <2>5, <2>6
  <1>14. CASE DriveFinishes
    <2> USE <1>14 DEF DriveFinishes
    <2>1. TypeOK'
      <3>1. sanitized' \in BOOLEAN
        BY DEF TypeOK
      <3>2. sstat' \in LogState \ {Reserved}
        BY DEF TypeOK
      <3> QED
        BY <3>1, <3>2 DEF TypeOK
    <2>2. HostInv'
      BY StatusFacts DEF HostInv, DriveInv, TypeOK
    <2>3. DriveInv'
      BY DEF DriveInv, HostInv, TypeOK
    <2>4. ResultMatchesDrive'
      BY DEF ResultMatchesDrive, HostInv, DriveInv, TypeOK
    <2>5. OutcomeAllowed'
      BY StatusFacts, OutcomeCases DEF OutcomeAllowed, HostInv, TypeOK
    <2>6. PollingBounded'
      BY DEF PollingBounded, HostInv, TypeOK
    <2> QED
      BY <2>1, <2>2, <2>3, <2>4, <2>5, <2>6
  <1>15. CASE ForeignBegins
    <2> USE <1>15 DEF ForeignBegins, DriveIdle
    <2>1. TypeOK'
      BY StatusFacts DEF TypeOK, HostInv
    <2>2. HostInv'
      BY StatusFacts DEF HostInv, DriveInv, TypeOK
    <2>3. DriveInv'
      BY DEF DriveInv, HostInv, TypeOK
    <2>4. ResultMatchesDrive'
      BY DEF ResultMatchesDrive, HostInv, DriveInv, TypeOK
    <2>5. OutcomeAllowed'
      BY StatusFacts, OutcomeCases DEF OutcomeAllowed, HostInv, TypeOK
    <2>6. PollingBounded'
      BY DEF PollingBounded, HostInv, TypeOK
    <2> QED
      BY <2>1, <2>2, <2>3, <2>4, <2>5, <2>6
  <1>16. CASE ForeignFinishes
    <2> USE <1>16 DEF ForeignFinishes
    <2>1. TypeOK'
      <3>1. sanitized' \in BOOLEAN
        BY DEF TypeOK
      <3>2. sstat' \in LogState \ {Reserved}
        BY DEF TypeOK
      <3>3. foreign' \in BOOLEAN
        BY DEF TypeOK
      <3> QED
        BY <3>1, <3>2, <3>3 DEF TypeOK
    <2>2. HostInv'
      BY StatusFacts DEF HostInv, DriveInv, TypeOK
    <2>3. DriveInv'
      BY DEF DriveInv, HostInv, TypeOK
    <2>4. ResultMatchesDrive'
      BY DEF ResultMatchesDrive, HostInv, DriveInv, TypeOK
    <2>5. OutcomeAllowed'
      BY StatusFacts, OutcomeCases DEF OutcomeAllowed, HostInv, TypeOK
    <2>6. PollingBounded'
      BY DEF PollingBounded, HostInv, TypeOK
    <2> QED
      BY <2>1, <2>2, <2>3, <2>4, <2>5, <2>6
  <1>17. CASE OfferChanges
    <2> USE <1>17 DEF OfferChanges
    <2>1. TypeOK'
      BY StatusFacts DEF TypeOK, HostInv
    <2>2. HostInv'
      BY StatusFacts DEF HostInv, DriveInv, TypeOK
    <2>3. DriveInv'
      BY DEF DriveInv, HostInv, TypeOK
    <2>4. ResultMatchesDrive'
      BY DEF ResultMatchesDrive, HostInv, DriveInv, TypeOK
    <2>5. OutcomeAllowed'
      BY StatusFacts, OutcomeCases DEF OutcomeAllowed, HostInv, TypeOK
    <2>6. PollingBounded'
      BY DEF PollingBounded, HostInv, TypeOK
    <2> QED
      BY <2>1, <2>2, <2>3, <2>4, <2>5, <2>6
  <1>18. CASE UNCHANGED vars
    BY <1>18 DEF vars, TypeOK, HostInv, DriveInv, ResultMatchesDrive, OutcomeAllowed, PollingBounded
  <1> QED
    BY <1>1, <1>2, <1>3, <1>4, <1>5, <1>6, <1>7, <1>8, <1>9, <1>10, <1>11, <1>12, <1>13,
       <1>14, <1>15, <1>16, <1>17, <1>18 DEF Next, HostStep

(* PurgeInv holds in every state of the purge.                             *)
LEMMA PurgeInvariant == Spec => []PurgeInv
  BY PurgeInit, PurgeStep, PTL DEF Spec

(* Every variable keeps to its type.                                       *)
THEOREM PurgeTypeOK == Spec => []TypeOK
  <1>1. PurgeInv => TypeOK
    BY DEF PurgeInv
  <1> QED
    BY <1>1, PurgeInvariant, PTL

(* The verdict agrees with what became of the command, for every pending   *)
(* limit and every number of Sanitize operations of other tools.           *)
THEOREM PurgeResultMatchesDrive == Spec => []ResultMatchesDrive
  <1>1. PurgeInv => ResultMatchesDrive
    BY DEF PurgeInv
  <1> QED
    BY <1>1, PurgeInvariant, PTL

(* The result and the status left in the job are one of the outcomes main  *)
(* can record.                                                             *)
THEOREM PurgeOutcomeAllowed == Spec => []OutcomeAllowed
  <1>1. PurgeInv => OutcomeAllowed
    BY DEF PurgeInv
  <1> QED
    BY <1>1, PurgeInvariant, PTL

(* Polling stays within its limits whatever the log shows.                 *)
THEOREM PurgePollingBounded == Spec => []PollingBounded
  <1>1. PurgeInv => PollingBounded
    BY DEF PurgeInv
  <1> QED
    BY <1>1, PurgeInvariant, PTL
=============================================================================
