---------------------------- MODULE AuditRecords ----------------------------
(***************************************************************************)
(* The audit journal as data: a record, the hash chain that links records, *)
(* the life cycle of one operation, and the questions the engine asks of a *)
(* journal before it appends to it or vouches for it (src/src/audit.c).    *)
(*                                                                         *)
(* A record keeps what these rules tell apart: the operation identifier,   *)
(* the context fingerprint (audit_context_hash), the status, the position  *)
(* of the record its "precedente" field is the hash of, and the process    *)
(* that wrote it (an observation variable: the file does not hold it).     *)
(***************************************************************************)
EXTENDS Integers, Sequences, FiniteSets

CONSTANTS Ops,           \* operation identifiers, drawn at random
          NoOp,          \* none: the empty string
          MaxRecords,    \* DFX_AUDIT_MAX_RECORDS, 8192 in the source
          MaxOperations  \* DFX_AUDIT_MAX_OPERATIONS, 4096 in the source

ASSUME LimitsAssumption == MaxRecords \in Nat \ {0, 1} /\ MaxOperations \in Nat \ {0}

ASSUME OperationAssumption == NoOp \notin Ops

Terminal == {"reussi", "echoue", "indetermine"}
Statuses == Terminal \cup {"refuse", "en_cours"}

-----------------------------------------------------------------------------
(* The operations that have a record in s.                                 *)
OperationsOf(s) == {s[i].op : i \in 1..Len(s)}

(* The operation whose last record before line i is its start.             *)
ActiveAt(s, i) ==
    {s[j].op : j \in {k \in 1..(i - 1) : /\ s[k].status = "en_cours"
                                          /\ \A m \in (k + 1)..(i - 1) : s[m].op # s[k].op}}

Active(s) == ActiveAt(s, Len(s) + 1)

NewAt(s, i) == \A j \in 1..(i - 1) : s[j].op # s[i].op

(* What validate_semantics requires of line i, given the lines before it.  *)
TransitionOk(s, i) ==
    /\ s[i].status = "refuse"  => NewAt(s, i)
    /\ s[i].status = "en_cours" => NewAt(s, i) /\ ActiveAt(s, i) = {}
    /\ s[i].status \in Terminal => ActiveAt(s, i) = {s[i].op}

ContextAt(s, i) == \A j \in 1..(i - 1) : s[j].op = s[i].op => s[j].ctx = s[i].ctx

LifecycleOk(s) == \A i \in 1..Len(s) : TransitionOk(s, i) /\ ContextAt(s, i)

LimitsOk(s) ==
    /\ Len(s) <= MaxRecords
    /\ Cardinality(OperationsOf(s)) <= MaxOperations

(* validate_chain: each line names the line before it.                     *)
ChainOk(s) == \A i \in 1..Len(s) : s[i].prev = i - 1

-----------------------------------------------------------------------------
(* The three ways validate_semantics is called, on a journal whose lines   *)
(* are in order: for a first record of an operation, for its terminal      *)
(* record, and for verify-audit.                                           *)

(* Mutants: the open operation, or the reuse of an identifier, forgotten.  *)
FreshUnlessKnown(s, o) == o \notin OperationsOf(s)
FreshUnlessBusy(s, o) == Active(s) = {}

FreshAllowed(s, o) == Active(s) = {} /\ o \notin OperationsOf(s)

TerminalAllowed(s, o, c) ==
    /\ Active(s) = {o}
    /\ \A i \in 1..Len(s) : s[i].op = o => s[i].ctx = c

(* Mutant: an open operation is no objection.                              *)
NonEmptyJournal(s) == Len(s) > 0

ClosedJournal(s) == Len(s) > 0 /\ Active(s) = {}

(* The room test of dfx_write_audit: a start keeps one line in reserve for *)
(* the terminal record it will need.                                       *)
(* Mutant: no line in reserve.                                             *)
HasRoomForOne(s, status) ==
    /\ Len(s) <= MaxRecords - 1
    /\ status \notin Terminal => Cardinality(OperationsOf(s)) < MaxOperations

HasRoom(s, status) ==
    /\ Len(s) <= MaxRecords - (IF status = "en_cours" THEN 2 ELSE 1)
    /\ status \notin Terminal => Cardinality(OperationsOf(s)) < MaxOperations

(* Everything dfx_write_audit asks of journal s before it appends.         *)
Accepts(s, o, c, status) ==
    /\ ChainOk(s)
    /\ LifecycleOk(s)
    /\ LimitsOk(s)
    /\ IF status \in Terminal THEN TerminalAllowed(s, o, c) ELSE FreshAllowed(s, o)
    /\ HasRoom(s, status)
=============================================================================
