--------------------------- MODULE NativeOutcome ---------------------------
(***************************************************************************)
(* What the native purge hands back to main: a result, and the status it   *)
(* leaves in the job for the audit record (src/src/purge.c,                *)
(* src/src/purge_internal.h).  NvmeSanitize shows that the purge produces  *)
(* these outcomes and no other; EraseRun takes them as the purge's meaning.*)
(***************************************************************************)
EXTENDS Integers

(* The states of the Sanitize log; Reserved stands for 5, 6 and 7.         *)
Never == 0
Success == 1
InProgress == 2
Failed == 3
SuccessNoDealloc == 4
Reserved == 5
Done == {Success, SuccessNoDealloc}
LogState == {Never, Success, InProgress, Failed, SuccessNoDealloc, Reserved}

Indeterminate == -2                    \* DFX_RESULT_INDETERMINATE

(* job->native_status_source and the state bits of native_status_raw.      *)
Status == [source : {"none", "command", "log"}, state : LogState]
NoStatus == [source |-> "none", state |-> Never]
Refused == [source |-> "command", state |-> Never]
Logged(states) == {[source |-> "log", state |-> s] : s \in states}

(* Success only on a log that says so; a determined failure when nothing   *)
(* was sent, the controller refused, or the log says it failed; in doubt   *)
(* otherwise.                                                              *)
Outcomes ==
    ({0} \X Logged(Done))
    \cup ({-1} \X ({NoStatus, Refused} \cup Logged({Failed})))
    \cup ({Indeterminate} \X ({NoStatus} \cup Logged(LogState)))
=============================================================================
