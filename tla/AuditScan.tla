------------------------------ MODULE AuditScan ------------------------------
(***************************************************************************)
(* The two programs that read a journal line by line: validate_chain and   *)
(* validate_semantics of the engine (src/src/audit.c), and                 *)
(* group_operations of the report generator                                *)
(* (src/tools/report/generate_report.py), each with the state its loop     *)
(* keeps.  A step reads one more line, whatever it is, with all three;     *)
(* AuditJournal uses what they mean (LifecycleOk and the queries of        *)
(* AuditRecords), and this module compares the two behind every line of    *)
(* every journal, well formed or not.                                      *)
(***************************************************************************)
EXTENDS AuditRecords

CONSTANTS ScannedContexts, ScannedStatuses,
          MaxLines    \* bound on the journals compared

ASSUME ScanAssumption == ScannedStatuses \subseteq Statuses /\ MaxLines \in Nat

VARIABLES journal,   \* the lines read so far
          chain,     \* the state of validate_chain
          semantics, \* that of validate_semantics
          grouping   \* that of group_operations

scanVars == <<journal, chain, semantics, grouping>>

-----------------------------------------------------------------------------
(* validate_chain: previous is the line last read, bad once a line differs.*)
ChainStart == [previous |-> 0, ok |-> TRUE]

(* Mutant: one line too many.                                              *)
ChainLineLate(st, r) ==
    IF ~st.ok \/ st.previous > MaxRecords \/ r.prev # st.previous
    THEN [st EXCEPT !.ok = FALSE]
    ELSE [st EXCEPT !.previous = @ + 1]

ChainLine(st, r) ==
    IF ~st.ok \/ st.previous >= MaxRecords \/ r.prev # st.previous
    THEN [st EXCEPT !.ok = FALSE]
    ELSE [st EXCEPT !.previous = @ + 1]

-----------------------------------------------------------------------------
(* validate_semantics: the operations array (known, with each context and  *)
(* flag) and active_operation, NoOp where the code has the empty string.   *)
ScanStart == [lines |-> 0, known |-> {}, context |-> <<>>, running |-> {},
              terminal |-> {}, active |-> NoOp, ok |-> TRUE]

(* Mutants: one operation too many; a context that may change; a terminal  *)
(* record that does not count.                                             *)
EntryRoomLate(st) == Cardinality(st.known) <= MaxOperations
ContextFree(st, r) == TRUE
FreshUnlessRunning(st, o) == o \notin st.running

EntryRoom(st) == Cardinality(st.known) < MaxOperations
ContextKept(st, r) == st.context[r.op] = r.ctx
Fresh(st, o) == o \notin st.running /\ o \notin st.terminal

(* The entry of the line's operation is found, or added if there is room.  *)
Enter(st, r) ==
    IF r.op \in st.known THEN [st EXCEPT !.ok = ContextKept(st, r)]
    ELSE IF ~EntryRoom(st) THEN [st EXCEPT !.ok = FALSE]
    ELSE [st EXCEPT !.known = @ \cup {r.op},
                    !.context = [o \in st.known \cup {r.op} |->
                                   IF o = r.op THEN r.ctx ELSE st.context[o]]]

Transition(st, r) ==
    CASE r.status = "refuse" ->
           [st EXCEPT !.ok = Fresh(st, r.op), !.terminal = @ \cup {r.op}]
      [] r.status = "en_cours" ->
           [st EXCEPT !.ok = Fresh(st, r.op) /\ st.active = NoOp,
                      !.running = @ \cup {r.op}, !.active = r.op]
      [] OTHER ->
           [st EXCEPT !.ok = r.op \in st.running /\ r.op \notin st.terminal /\ st.active = r.op,
                      !.running = @ \ {r.op}, !.terminal = @ \cup {r.op}, !.active = NoOp]

ScanLine(st, r) ==
    IF ~st.ok \/ st.lines >= MaxRecords THEN [st EXCEPT !.ok = FALSE]
    ELSE LET entered == Enter([st EXCEPT !.lines = @ + 1], r)
         IN  IF entered.ok THEN Transition(entered, r) ELSE entered

(* The loop over the operations that ends validate_semantics, with the     *)
(* operation allowed to be running (NoOp for NULL) and the forbidden one.  *)
ScanVerdict(st, allowed, ctx, forbidden) ==
    LET mayRun(o) == o = allowed /\ o \in st.running /\ st.context[o] = ctx
    IN  /\ st.ok
        /\ forbidden \notin st.known
        /\ \A o \in st.known : mayRun(o) \/ (o \notin st.running /\ o \in st.terminal)
        /\ allowed # NoOp => \E o \in st.known : mayRun(o)

-----------------------------------------------------------------------------
(* group_operations: groups maps an operation to its records' statuses.    *)
GroupStart == [groups |-> <<>>, active |-> NoOp, ok |-> TRUE]

GroupSet(st, o, entries) ==
    [x \in (DOMAIN st.groups) \cup {o} |-> IF x = o THEN entries ELSE st.groups[x]]

(* Mutant: anything ends an operation.                                     *)
EndsAnyhow(st, r) == st.groups[r.op] = <<"en_cours">> /\ st.active = r.op

Ends(st, r) == /\ st.groups[r.op] = <<"en_cours">>
               /\ r.status \in Terminal
               /\ st.active = r.op

GroupLine(st, r) ==
    IF r.op \notin DOMAIN st.groups
    THEN IF r.status = "refuse"
         THEN [st EXCEPT !.groups = GroupSet(st, r.op, <<"refuse">>)]
         ELSE [groups |-> GroupSet(st, r.op, <<r.status>>), active |-> r.op,
               ok |-> st.ok /\ r.status = "en_cours" /\ st.active = NoOp]
    ELSE [groups |-> GroupSet(st, r.op, Append(st.groups[r.op], r.status)), active |-> NoOp,
          ok |-> st.ok /\ Ends(st, r)]

(* The loop over the groups that ends it.                                  *)
GroupVerdict(st) ==
    LET complete(entries) == /\ entries[1] = "en_cours" => Len(entries) = 2
                             /\ entries[Len(entries)] \in Terminal \cup {"refuse"}
    IN  /\ st.ok
        /\ \A o \in DOMAIN st.groups : complete(st.groups[o])
        /\ st.active = NoOp /\ DOMAIN st.groups # {}

-----------------------------------------------------------------------------
(* Every journal of at most MaxLines lines, read one line at a time.       *)
LinesInit == /\ journal = <<>>
             /\ chain = ChainStart /\ semantics = ScanStart /\ grouping = GroupStart

AnyLine == [op : Ops, ctx : ScannedContexts, status : ScannedStatuses,
            prev : {Len(journal), Len(journal) + 1}]

ReadLine(r) ==
    /\ journal' = Append(journal, r)
    /\ chain' = ChainLine(chain, r)
    /\ semantics' = ScanLine(semantics, r)
    /\ grouping' = GroupLine(grouping, r)

LinesNext == Len(journal) < MaxLines /\ \E r \in AnyLine : ReadLine(r)

LinesSpec == LinesInit /\ [][LinesNext]_scanVars

-----------------------------------------------------------------------------
(* validate_chain accepts a journal exactly when each line names the line  *)
(* before it and the line limit holds.                                     *)
ChainScanExact == chain.ok <=> ChainOk(journal) /\ Len(journal) <= MaxRecords

(* Called to admit a first record, validate_semantics accepts exactly the  *)
(* well-formed journals with no open operation and no record of that one.  *)
FreshScanExact ==
    \A o \in Ops : ScanVerdict(semantics, NoOp, NoOp, o) <=>
        LifecycleOk(journal) /\ LimitsOk(journal) /\ FreshAllowed(journal, o)

(* Called to admit a terminal record, it accepts exactly those whose one   *)
(* open operation is that one, started under the same context.             *)
TerminalScanExact ==
    \A o \in Ops, c \in ScannedContexts : ScanVerdict(semantics, o, c, NoOp) <=>
        LifecycleOk(journal) /\ LimitsOk(journal) /\ TerminalAllowed(journal, o, c)

(* Called by verify-audit, it accepts exactly the journals that are closed.*)
VerifyScanExact ==
    journal # <<>> =>
        (ScanVerdict(semantics, NoOp, NoOp, NoOp) <=>
           LifecycleOk(journal) /\ LimitsOk(journal) /\ ClosedJournal(journal))

(* The engine's scans, which apply the chain, the life cycle and the       *)
(* limits each in its own order and up to its own line, accept together    *)
(* exactly what the rules mean (validate_chain, validate_semantics).       *)
ScannersExact ==
    ChainScanExact /\ FreshScanExact /\ TerminalScanExact /\ VerifyScanExact

(* The report generator, which parses the journal again in Python, groups  *)
(* every journal the engine vouched for, and groups no other one, but for  *)
(* what it leaves to the engine: the contexts and the limits.              *)
ReportAgrees ==
    GroupVerdict(grouping) <=>
        /\ ClosedJournal(journal)
        /\ \A i \in 1..Len(journal) : TransitionOk(journal, i)
=============================================================================
