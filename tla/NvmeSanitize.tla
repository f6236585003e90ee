---------------------------- MODULE NvmeSanitize ----------------------------
(***************************************************************************)
(* The native purge of an NVMe drive (src/src/purge.c): the host opens the *)
(* namespace, checks that the drive is the one planned, submits Sanitize   *)
(* once, and polls the Sanitize log until it can tell what became of it.   *)
(*                                                                         *)
(* The controller runs on its own: it takes a while to show a command it   *)
(* accepted, and until then its log still shows how an earlier operation   *)
(* ended; it finishes without telling; a reply can be lost; another tool   *)
(* may start a Sanitize once ours is over.  A signal can ask the host to   *)
(* stop at any time.                                                       *)
(***************************************************************************)
EXTENDS NativeOutcome

CONSTANTS PendingLimit,  \* DFX_NVME_PENDING_LIMIT, 15 in the source
          MaxPolls,      \* DFX_NVME_MAX_POLL_ROUNDS, seven days of two seconds
          MaxForeign     \* bound on the operations another tool starts

ASSUME SanitizeAssumption ==
    PendingLimit \in Nat \ {0} /\ MaxPolls \in Nat \ {0} /\ MaxForeign \in Nat

Actions == {"crypto", "block"}
Unavailable == "unavailable"           \* several namespaces, or no capability
Undecided == 1                         \* the host has not returned

VARIABLES hpc,       \* where the host stands
          open,      \* the descriptor is open
          planned,   \* job->native_action
          cancel,    \* the flag the signal handler sets
          observed,  \* observed_in_progress
          pending,   \* pending_rounds
          polls,     \* poll_rounds
          status,    \* job->native_status_*: the source and the state
          result,    \* what dfx_nvme_run_native_purge_with_ops returned
          offered,   \* the action the drive's identification selects now
          sstat,     \* the state the Sanitize log shows
          ours,      \* what became of the command the host submitted
          foreign,   \* another tool's operation runs
          foreigns,  \* how many it has started
          sanitized  \* an operation begun after the submission succeeded

host == <<hpc, open, planned, observed, pending, polls, status, result>>
drive == <<offered, sstat, ours, foreign, foreigns, sanitized>>
vars == <<host, cancel, drive>>

TypeOK ==
    /\ hpc \in {"open", "select", "validate", "send", "loop", "read", "sleep", "done"}
    /\ open \in BOOLEAN /\ cancel \in BOOLEAN /\ observed \in BOOLEAN
    /\ planned \in Actions /\ offered \in Actions \cup {Unavailable}
    /\ pending \in Nat /\ polls \in Nat
    /\ status \in Status
    /\ result \in {Undecided, 0, -1, Indeterminate}
    /\ sstat \in LogState \ {Reserved}
    /\ ours \in {"none", "refused", "accepted", "running", "succeeded", "failed"}
    /\ foreign \in BOOLEAN /\ foreigns \in Nat /\ sanitized \in BOOLEAN

(* The drive may carry the result of an earlier operation, or be running   *)
(* one; what it offers may have changed since the plan was made.           *)
Init ==
    /\ hpc = "open" /\ open = FALSE
    /\ planned \in Actions
    /\ cancel = FALSE /\ observed = FALSE
    /\ pending = 0 /\ polls = 0
    /\ status = NoStatus
    /\ result = Undecided
    /\ offered \in Actions \cup {Unavailable}
    /\ sstat \in LogState \ {Reserved}
    /\ foreign = (sstat = InProgress)
    /\ foreigns = 0 /\ ours = "none" /\ sanitized = FALSE

-----------------------------------------------------------------------------
(* Every return after the open goes through ops->close_device.             *)
Return(r) ==
    /\ result' = r
    /\ hpc' = "done"
    /\ open' = FALSE

Goto(place) == hpc' = place /\ UNCHANGED <<open, result>>

OpenDevice ==
    /\ hpc = "open"
    /\ \/ hpc' = "select" /\ open' = TRUE /\ UNCHANGED result
       \/ Return(-1)                   \* not a direct namespace, busy, absent
    /\ UNCHANGED <<planned, cancel, observed, pending, polls, status, drive>>

(* Identify again on the writable descriptor: the action must be the one   *)
(* of the plan.                                                            *)
SelectAction ==
    /\ hpc = "select"
    /\ \/ offered = planned /\ Goto("validate")
       \/ offered # planned /\ Return(-1)
       \/ Return(-1)                   \* Identify fails
    /\ UNCHANGED <<planned, cancel, observed, pending, polls, status, drive>>

(* Descriptor, geometry, serial, model and firmware against the plan, then *)
(* the last look at the cancel flag before the point of no return.         *)
ValidateDevice ==
    /\ hpc = "validate"
    /\ \/ ~cancel /\ Goto("send")
       \/ Return(-1)                   \* drift, or cancelled
    /\ UNCHANGED <<planned, cancel, observed, pending, polls, status, drive>>

DriveIdle == ~foreign /\ ours \notin {"accepted", "running"}

(* The ioctl returns 0, a controller status, or an error that says nothing *)
(* of whether the controller took the command.                             *)
SendAccepted ==
    /\ hpc = "send" /\ DriveIdle
    /\ ours' = "accepted"
    /\ Goto("loop")
    /\ UNCHANGED <<planned, cancel, observed, pending, polls, status,
                   offered, sstat, foreign, foreigns, sanitized>>

SendRefused ==
    /\ hpc = "send"
    /\ ours' = "refused"
    /\ status' = Refused
    /\ Return(-1)
    /\ UNCHANGED <<planned, cancel, observed, pending, polls,
                   offered, sstat, foreign, foreigns, sanitized>>

SendLost ==
    /\ hpc = "send"
    /\ \/ DriveIdle /\ ours' = "accepted"
       \/ UNCHANGED ours
    /\ Return(Indeterminate)
    /\ UNCHANGED <<planned, cancel, observed, pending, polls, status,
                   offered, sstat, foreign, foreigns, sanitized>>

PollCancelled ==
    /\ hpc = "loop" /\ cancel
    /\ Return(Indeterminate)
    /\ UNCHANGED <<planned, cancel, observed, pending, polls, status, drive>>

PollAgain ==
    /\ hpc = "loop" /\ ~cancel
    /\ Goto("read")
    /\ UNCHANGED <<planned, cancel, observed, pending, polls, status, drive>>

ReadFails ==
    /\ hpc = "read"
    /\ Return(Indeterminate)
    /\ UNCHANGED <<planned, cancel, observed, pending, polls, status, drive>>

(* What one reading of the log means, once the command has been seen       *)
(* running, and before.                                                    *)
Seen(s) == observed \/ s = InProgress

(* Mutants: the first reading is believed; any idle state is an end.       *)
ConcludedAtOnce(s) == s \in Done \cup {Failed}
ConcludedIdle(s) == Seen(s) /\ s # InProgress

Concluded(s) == Seen(s) /\ s \in Done \cup {Failed}
Waiting(s) == ~Seen(s) /\ s \in {Never, Failed} \cup Done

(* Mutant: one reading too many.                                           *)
GivesUpLate(s) ==
    \/ Waiting(s) /\ pending + 1 > PendingLimit
    \/ ~Waiting(s) /\ s # InProgress
    \/ polls + 1 >= MaxPolls

GivesUp(s) ==
    \/ Waiting(s) /\ pending + 1 >= PendingLimit
    \/ ~Waiting(s) /\ s # InProgress
    \/ polls + 1 >= MaxPolls

(* Mutant: what the log says is what is returned.                          *)
StateReturned(s) == IF s = Failed THEN -1 ELSE s - Success

ResultOf(s) == IF s = Failed THEN -1 ELSE 0

(* Mutant: the rounds are not counted.                                     *)
CountNoPoll == UNCHANGED polls

CountPoll == polls' = polls + 1

ReadLog ==
    /\ hpc = "read"
    /\ \E s \in {sstat, Reserved} :
         /\ status' = [source |-> "log", state |-> s]
         /\ IF s = InProgress THEN observed' = TRUE ELSE UNCHANGED observed
         /\ pending' = IF Waiting(s) THEN pending + 1 ELSE pending
         /\ \/ /\ Concluded(s)
               /\ Return(ResultOf(s))
               /\ UNCHANGED polls
            \/ /\ ~Concluded(s) /\ GivesUp(s)
               /\ Return(Indeterminate)
               /\ UNCHANGED polls
            \/ /\ ~Concluded(s) /\ ~GivesUp(s)
               /\ Goto("sleep")
               /\ CountPoll
    /\ UNCHANGED <<planned, cancel, drive>>

WaitBeforePoll ==
    /\ hpc = "sleep"
    /\ \/ Goto("loop")
       \/ Return(Indeterminate)        \* the sleep fails
    /\ UNCHANGED <<planned, cancel, observed, pending, polls, status, drive>>

(* SIGINT or SIGTERM.                                                      *)
RequestCancel ==
    /\ hpc # "done" /\ ~cancel
    /\ cancel' = TRUE
    /\ UNCHANGED <<host, drive>>

-----------------------------------------------------------------------------
(* The controller and the other tools.                                     *)

(* The accepted command shows in the log.                                  *)
DriveBegins ==
    /\ ours = "accepted" /\ ~foreign
    /\ ours' = "running"
    /\ sstat' = InProgress
    /\ UNCHANGED <<host, cancel, offered, foreign, foreigns, sanitized>>

DriveFinishes ==
    /\ ours = "running"
    /\ \/ sstat' \in Done /\ ours' = "succeeded" /\ sanitized' = TRUE
       \/ sstat' = Failed /\ ours' = "failed" /\ UNCHANGED sanitized
    /\ UNCHANGED <<host, cancel, offered, foreign, foreigns>>

ForeignBegins ==
    /\ DriveIdle /\ foreigns < MaxForeign
    /\ foreign' = TRUE /\ foreigns' = foreigns + 1
    /\ sstat' = InProgress
    /\ UNCHANGED <<host, cancel, offered, ours, sanitized>>

ForeignFinishes ==
    /\ foreign
    /\ foreign' = FALSE
    /\ \/ /\ sstat' \in Done
          /\ IF ours \in {"succeeded", "failed"} THEN sanitized' = TRUE ELSE UNCHANGED sanitized
       \/ sstat' = Failed /\ UNCHANGED sanitized
    /\ UNCHANGED <<host, cancel, offered, ours, foreigns>>

(* Firmware activation, a namespace created or deleted.                    *)
OfferChanges ==
    /\ offered' \in (Actions \cup {Unavailable}) \ {offered}
    /\ UNCHANGED <<host, cancel, sstat, ours, foreign, foreigns, sanitized>>

-----------------------------------------------------------------------------
HostStep ==
    \/ OpenDevice \/ SelectAction \/ ValidateDevice
    \/ SendAccepted \/ SendRefused \/ SendLost
    \/ PollCancelled \/ PollAgain \/ ReadFails \/ ReadLog \/ WaitBeforePoll

Next ==
    \/ HostStep
    \/ RequestCancel
    \/ DriveBegins \/ DriveFinishes
    \/ ForeignBegins \/ ForeignFinishes
    \/ OfferChanges

Spec == Init /\ [][Next]_vars

(* The host keeps running; nothing is assumed of the drive.                *)
FairSpec == Spec /\ WF_vars(HostStep)

-----------------------------------------------------------------------------
(* Success is only reported when an operation begun after our command was  *)
(* accepted succeeded - ours, unless another tool came after it - however  *)
(* stale the log is; failure is never reported while our command may still *)
(* run or after it succeeded.                                              *)
ResultMatchesDrive ==
    /\ result = 0 => sanitized /\ (foreigns = 0 => ours = "succeeded")
    /\ result = -1 => /\ ours \notin {"accepted", "running"}
                      /\ foreigns = 0 => ours # "succeeded"

(* The result and the status left in the job fit together: these are the  *)
(* outcomes EraseRun relies on, and the pairs for which the audit record   *)
(* main builds passes its own semantic check (audit.c:445-448).  A failure *)
(* that leaves no status is one where no command was sent.                 *)
OutcomeAllowed ==
    result # Undecided =>
        /\ <<result, status>> \in Outcomes
        /\ result = -1 /\ status = NoStatus => ours = "none"
        /\ status = Refused <=> ours = "refused"

(* The host never sits behind a log that does not show its command for     *)
(* longer than the pending limit, and never polls past the seven days.     *)
PollingBounded ==
    hpc \in {"loop", "read", "sleep"} =>
        /\ polls < MaxPolls
        /\ ~observed => polls = pending /\ pending < PendingLimit
        /\ pending < PendingLimit

(* Whatever the drive shows, the purge returns.                            *)
PurgeReturns == <>(hpc = "done")
=============================================================================
