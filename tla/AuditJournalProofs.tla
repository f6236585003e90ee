------------------------- MODULE AuditJournalProofs -------------------------
(***************************************************************************)
(* Safety of the shared audit journal, for every number of runs, verifiers,*)
(* files and operation identifiers, every number of kills, power losses    *)
(* and I/O errors, and every journal limit.                                *)
(*                                                                         *)
(* The lock is not held between a start and its terminal record, so        *)
(* neither WorkExclusive nor TerminalReserved follows from it.  JournalInv *)
(* adds the reason they hold: OwnInv says that the file itself, through    *)
(* its one open operation, keeps everyone but the owner from appending.    *)
(*                                                                         *)
(* The second part is about the history: what was acknowledged stays, the  *)
(* lines of a run are in one file, a verdict is final, the exit code can   *)
(* be trusted (HistoryInv) - and with that the protocol implements         *)
(* AuditPromise.                                                           *)
(*                                                                         *)
(* Before both stands what they rest on, which is about journals and not   *)
(* about processes: what the rules of AuditRecords say of a journal that   *)
(* grows by a line or is cut short, and the line scanners.  For journals   *)
(* of every length, every set of operations and contexts and all limits,   *)
(* the state each scanner keeps is exactly what the rules say of the lines *)
(* read so far.  One lemma per scanner says that one more line preserves   *)
(* this.                                                                   *)
(***************************************************************************)
EXTENDS AuditJournal, AuditScan, SequenceTheorems, FiniteSetTheorems, TLAPS

-----------------------------------------------------------------------------
(* What the acceptance test of dfx_write_audit guarantees, for journals of *)
(* any length: a journal extended by an accepted record is well formed,    *)
(* its open operation is the one the record says, and a journal cut short  *)
(* stays well formed.                                                      *)

(* The operation open before a line depends only on the lines before it.   *)
LEMMA ActiveAgrees ==
    ASSUME NEW s, NEW t, NEW i \in Nat, \A j \in 1..(i - 1) : s[j] = t[j]
    PROVE  ActiveAt(s, i) = ActiveAt(t, i)
  <1>1. \A k \in 1..(i - 1) :
           (/\ s[k].status = "en_cours"
            /\ \A m \in (k + 1)..(i - 1) : s[m].op # s[k].op)
           <=> (/\ t[k].status = "en_cours"
                /\ \A m \in (k + 1)..(i - 1) : t[m].op # t[k].op)
    OBVIOUS
  <1>2. \A k \in 1..(i - 1) : s[k].op = t[k].op
    OBVIOUS
  <1> QED
    BY <1>1, <1>2 DEF ActiveAt

(* One more line closes the operation it names, or opens it.               *)
LEMMA ActiveNext ==
    ASSUME NEW s, NEW n \in Nat
    PROVE  ActiveAt(s, n + 2) =
             (ActiveAt(s, n + 1) \ {s[n + 1].op})
             \cup (IF s[n + 1].status = "en_cours" THEN {s[n + 1].op} ELSE {})
  <1> DEFINE Last(k, i) == /\ s[k].status = "en_cours"
                           /\ \A m \in (k + 1)..(i - 1) : s[m].op # s[k].op
  <1>1. \A i : ActiveAt(s, i) = {s[j].op : j \in {k \in 1..(i - 1) : Last(k, i)}}
    BY DEF ActiveAt
  <1>2. \A k \in 1..n : Last(k, n + 2) <=> Last(k, n + 1) /\ s[k].op # s[n + 1].op
    <2> SUFFICES ASSUME NEW k \in 1..n
                 PROVE  Last(k, n + 2) <=> Last(k, n + 1) /\ s[k].op # s[n + 1].op
      OBVIOUS
    <2>1. (k + 1)..((n + 2) - 1) = ((k + 1)..((n + 1) - 1)) \cup {n + 1}
      OBVIOUS
    <2> QED
      BY <2>1
  <1>3. Last(n + 1, n + 2) <=> s[n + 1].status = "en_cours"
    OBVIOUS
  <1>4. 1..((n + 2) - 1) = (1..((n + 1) - 1)) \cup {n + 1}
    OBVIOUS
  <1> HIDE DEF Last
  <1>5. ASSUME NEW o PROVE
          o \in ActiveAt(s, n + 2) <=>
            \/ o \in ActiveAt(s, n + 1) /\ o # s[n + 1].op
            \/ s[n + 1].status = "en_cours" /\ o = s[n + 1].op
    <2>1. o \in ActiveAt(s, n + 2) <=>
            \E k \in (1..n) \cup {n + 1} : Last(k, n + 2) /\ o = s[k].op
      BY <1>1, <1>4
    <2>2. o \in ActiveAt(s, n + 1) <=> \E k \in 1..n : Last(k, n + 1) /\ o = s[k].op
      BY <1>1
    <2> QED
      BY <2>1, <2>2, <1>2, <1>3
  <1> QED
    BY <1>5

(* An open operation has a record.                                         *)
LEMMA ActiveKnown ==
    ASSUME NEW s, Len(s) \in Nat
    PROVE  Active(s) \subseteq OperationsOf(s)
  BY DEF Active, ActiveAt, OperationsOf

(* A journal names finitely many operations.                               *)
LEMMA OperationsFinite ==
    ASSUME NEW R, NEW s \in Seq(R)
    PROVE  IsFiniteSet(OperationsOf(s)) /\ Cardinality(OperationsOf(s)) \in Nat
  <1> DEFINE f == [i \in 1..Len(s) |-> s[i].op]
  <1>1. Len(s) \in Nat
    BY LenProperties
  <1>2. f \in Surjection(1..Len(s), OperationsOf(s))
    BY DEF Surjection, OperationsOf
  <1>3. IsFiniteSet(1..Len(s))
    BY <1>1, FS_Interval
  <1> HIDE DEF f
  <1>4. IsFiniteSet(OperationsOf(s))
    BY <1>2, <1>3, FS_Surjection
  <1> QED
    BY <1>4, FS_CardinalityType

-----------------------------------------------------------------------------
(* Line i is judged by the lines up to it alone.                           *)
LEMMA LineAgrees ==
    ASSUME NEW s, NEW t, NEW i \in Nat \ {0}, \A j \in 1..i : s[j] = t[j]
    PROVE  /\ TransitionOk(s, i) <=> TransitionOk(t, i)
           /\ ContextAt(s, i) <=> ContextAt(t, i)
  <1>1. ActiveAt(s, i) = ActiveAt(t, i)
    BY ActiveAgrees
  <1>2. NewAt(s, i) <=> NewAt(t, i)
    BY DEF NewAt
  <1> QED
    BY <1>1, <1>2 DEF TransitionOk, ContextAt

(* A journal that dfx_write_audit extends by a record it accepted is well  *)
(* formed, and has that operation open exactly when the record is a start. *)
THEOREM AcceptedExtends ==
    ASSUME NEW R, NEW s \in Seq(R), NEW r \in R, r.status \in Statuses,
           Accepts(s, r.op, r.ctx, r.status), r.prev = Len(s)
    PROVE  /\ ChainOk(Append(s, r)) /\ LifecycleOk(Append(s, r)) /\ LimitsOk(Append(s, r))
           /\ Active(Append(s, r)) = IF r.status = "en_cours" THEN {r.op} ELSE {}
  <1> DEFINE t == Append(s, r)
             n == Len(s)
  <1>1. /\ n \in Nat /\ Len(t) = n + 1 /\ t[n + 1] = r
        /\ \A j \in 1..n : t[j] = s[j]
    BY LenProperties, AppendProperties
  <1>2. OperationsOf(t) = OperationsOf(s) \cup {r.op}
    BY <1>1 DEF OperationsOf
  <1> HIDE DEF t, n
  <1>3. ActiveAt(t, n + 1) = Active(s)
    BY <1>1, ActiveAgrees DEF Active, n
  <1>4. Active(t) = (Active(s) \ {r.op}) \cup (IF r.status = "en_cours" THEN {r.op} ELSE {})
    <2>1. Active(t) = ActiveAt(t, n + 2)
      BY <1>1 DEF Active
    <2> QED
      BY <2>1, <1>1, <1>3, ActiveNext
  <1>5. \/ r.status \in Terminal /\ Active(s) = {r.op}
        \/ r.status \notin Terminal /\ Active(s) = {}
    BY DEF Accepts, TerminalAllowed, FreshAllowed
  <1>6. Active(t) = IF r.status = "en_cours" THEN {r.op} ELSE {}
    BY <1>4, <1>5 DEF Terminal
  <1>7. ChainOk(t)
    BY <1>1 DEF ChainOk, Accepts, n
  <1>8. LifecycleOk(t)
    <2> SUFFICES ASSUME NEW i \in 1..(n + 1) PROVE TransitionOk(t, i) /\ ContextAt(t, i)
      BY <1>1 DEF LifecycleOk
    <2>1. CASE i \in 1..n
      <3>1. \A j \in 1..i : t[j] = s[j]
        BY <1>1, <2>1
      <3>2. TransitionOk(s, i) /\ ContextAt(s, i)
        BY <2>1 DEF Accepts, LifecycleOk, n
      <3> QED
        BY <1>1, <2>1, <3>1, <3>2, LineAgrees
    <2>2. CASE i = n + 1
      <3>1. r.status \notin Terminal => NewAt(t, i)
        BY <1>1, <2>2 DEF Accepts, FreshAllowed, OperationsOf, NewAt, n
      <3>2. ContextAt(t, i)
        <4>1. CASE r.status \in Terminal
          BY <1>1, <2>2, <4>1 DEF Accepts, TerminalAllowed, ContextAt, n
        <4>2. CASE r.status \notin Terminal
          BY <1>1, <2>2, <3>1, <4>2 DEF NewAt, ContextAt
        <4> QED
          BY <4>1, <4>2
      <3>3. TransitionOk(t, i)
        BY <1>1, <1>3, <1>5, <2>2, <3>1 DEF TransitionOk, Terminal
      <3> QED
        BY <3>2, <3>3
    <2> QED
      BY <1>1, <2>1, <2>2
  <1>9. LimitsOk(t)
    <2>1. Len(t) <= MaxRecords
      BY <1>1, LimitsAssumption DEF Accepts, HasRoom, n
    <2>2. Cardinality(OperationsOf(t)) <= MaxOperations
      <3>1. CASE r.status \in Terminal
        <4>1. r.op \in OperationsOf(s)
          BY <1>1, <1>5, <3>1, ActiveKnown DEF n
        <4> QED
          BY <1>2, <4>1 DEF Accepts, LimitsOk
      <3>2. CASE r.status \notin Terminal
        <4>1. Cardinality(OperationsOf(s)) < MaxOperations
          BY <3>2 DEF Accepts, HasRoom
        <4>2. /\ IsFiniteSet(OperationsOf(s))
              /\ Cardinality(OperationsOf(s)) \in Nat
          BY OperationsFinite
        <4>3. Cardinality(OperationsOf(s) \cup {r.op}) =
                IF r.op \in OperationsOf(s) THEN Cardinality(OperationsOf(s))
                ELSE Cardinality(OperationsOf(s)) + 1
          BY <4>2, FS_AddElement
        <4> QED
          BY <1>2, <4>1, <4>2, <4>3, LimitsAssumption
      <3> QED
        BY <3>1, <3>2
    <2> QED
      BY <2>1, <2>2 DEF LimitsOk
  <1> QED
    BY <1>6, <1>7, <1>8, <1>9 DEF t

(* What a power loss leaves of a well-formed journal is well formed.       *)
THEOREM PrefixWellFormed ==
    ASSUME NEW R, NEW s \in Seq(R), NEW k \in 0..Len(s),
           ChainOk(s), LifecycleOk(s), LimitsOk(s)
    PROVE  LET t == SubSeq(s, 1, k)
           IN  t \in Seq(R) /\ Len(t) = k /\ ChainOk(t) /\ LifecycleOk(t) /\ LimitsOk(t)
  <1> DEFINE t == SubSeq(s, 1, k)
  <1>1. Len(s) \in Nat /\ k \in Nat /\ k <= Len(s)
    BY LenProperties
  <1>2. t \in Seq(R) /\ Len(t) = k /\ \A i \in 1..k : t[i] = s[i]
    BY <1>1, ElementOfSeq, SubSeqProperties
  <1> HIDE DEF t
  <1>3. ChainOk(t)
    BY <1>1, <1>2 DEF ChainOk
  <1>4. LifecycleOk(t)
    <2> SUFFICES ASSUME NEW i \in 1..k PROVE TransitionOk(t, i) /\ ContextAt(t, i)
      BY <1>2 DEF LifecycleOk
    <2>1. TransitionOk(s, i) /\ ContextAt(s, i)
      BY <1>1 DEF LifecycleOk
    <2>2. \A j \in 1..i : t[j] = s[j]
      BY <1>1, <1>2
    <2> QED
      BY <1>1, <2>1, <2>2, LineAgrees
  <1>5. LimitsOk(t)
    <2>1. OperationsOf(t) \in SUBSET OperationsOf(s)
      BY <1>1, <1>2 DEF OperationsOf
    <2>2. IsFiniteSet(OperationsOf(s)) /\ Cardinality(OperationsOf(s)) \in Nat
      BY OperationsFinite
    <2>3. Cardinality(OperationsOf(t)) <= Cardinality(OperationsOf(s))
      BY <2>1, <2>2, FS_Subset
    <2>4. Cardinality(OperationsOf(t)) \in Nat
      BY <1>2, OperationsFinite
    <2> QED
      BY <1>1, <1>2, <2>2, <2>3, <2>4, LimitsAssumption DEF LimitsOk
  <1> QED
    BY <1>2, <1>3, <1>4, <1>5 DEF t

-----------------------------------------------------------------------------
(* The open operation, without positions.                                  *)

(* A terminal record has its start before it.                              *)
LEMMA EndHasStart ==
    ASSUME NEW s, Len(s) \in Nat, LifecycleOk(s),
           NEW i \in 1..Len(s), s[i].status \in Terminal
    PROVE  \E k \in 1..Len(s) : s[k].op = s[i].op /\ s[k].status = "en_cours"
  <1>1. s[i].op \in ActiveAt(s, i)
    BY DEF LifecycleOk, TransitionOk
  <1>2. PICK k \in 1..(i - 1) : s[k].op = s[i].op /\ s[k].status = "en_cours"
    BY <1>1 DEF ActiveAt
  <1> QED
    BY <1>2

(* In a valid journal an operation is open when it was started and has not *)
(* ended, wherever its records are.                                        *)
LEMMA ActiveIsUnended ==
    ASSUME NEW s, Len(s) \in Nat, LifecycleOk(s),
           \A i \in 1..Len(s) : s[i].status \in Statuses, NEW o
    PROVE  o \in Active(s) <=>
             /\ \E k \in 1..Len(s) : s[k].op = o /\ s[k].status = "en_cours"
             /\ ~\E k \in 1..Len(s) : s[k].op = o /\ s[k].status \in Terminal
  <1>1. o \in Active(s) <=>
          \E k \in 1..Len(s) : /\ s[k].op = o /\ s[k].status = "en_cours"
                               /\ \A m \in (k + 1)..Len(s) : s[m].op # o
    BY DEF Active, ActiveAt
  <1>2. ASSUME NEW k \in 1..Len(s), s[k].op = o, s[k].status = "en_cours"
        PROVE  (\A m \in (k + 1)..Len(s) : s[m].op # o)
               <=> ~\E m \in 1..Len(s) : s[m].op = o /\ s[m].status \in Terminal
    <2>1. ASSUME NEW m \in 1..Len(s), s[m].op = o, m < k PROVE FALSE
      BY <1>2, <2>1 DEF LifecycleOk, TransitionOk, NewAt
    <2>2. ASSUME NEW m \in 1..Len(s), s[m].op = o, s[m].status \in Terminal PROVE m > k
      BY <1>2, <2>1, <2>2 DEF Terminal
    <2>3. ASSUME NEW m \in (k + 1)..Len(s), s[m].op = o PROVE s[m].status \in Terminal
      <3>1. m \in 1..Len(s) /\ k \in 1..(m - 1)
        OBVIOUS
      <3>2. ~NewAt(s, m)
        BY <1>2, <2>3, <3>1 DEF NewAt
      <3> QED
        BY <3>1, <3>2 DEF LifecycleOk, TransitionOk, Statuses
    <2>4. ASSUME NEW m \in 1..Len(s), m > k PROVE m \in (k + 1)..Len(s)
      BY <2>4
    <2>5. ASSUME NEW m \in (k + 1)..Len(s) PROVE m \in 1..Len(s)
      OBVIOUS
    <2> QED
      BY <2>2, <2>3, <2>4, <2>5
  <1> QED
    BY <1>1, <1>2

(* A valid journal has at most one open operation.                         *)
LEMMA ActiveUnique ==
    ASSUME NEW s, Len(s) \in Nat, LifecycleOk(s),
           NEW a \in Active(s), NEW b \in Active(s)
    PROVE  a = b
  <1>1. \A o \in Active(s) : \E k \in 1..Len(s) :
           /\ s[k].op = o /\ s[k].status = "en_cours"
           /\ \A m \in (k + 1)..Len(s) : s[m].op # o
    BY DEF Active, ActiveAt
  <1>2. PICK j \in 1..Len(s) : /\ s[j].op = a /\ s[j].status = "en_cours"
                               /\ \A m \in (j + 1)..Len(s) : s[m].op # a
    BY <1>1
  <1>3. PICK k \in 1..Len(s) : /\ s[k].op = b /\ s[k].status = "en_cours"
                               /\ \A m \in (k + 1)..Len(s) : s[m].op # b
    BY <1>1
  <1>4. ASSUME NEW x \in 1..Len(s), NEW y \in 1..Len(s), x < y,
               s[x].status = "en_cours", s[y].status = "en_cours",
               \A m \in (x + 1)..Len(s) : s[m].op # s[x].op
        PROVE  FALSE
    <2>1. ActiveAt(s, y) = {}
      BY <1>4 DEF LifecycleOk, TransitionOk
    <2>2. x \in 1..(y - 1) /\ \A m \in (x + 1)..(y - 1) : s[m].op # s[x].op
      BY <1>4
    <2>3. s[x].op \in ActiveAt(s, y)
      BY <1>4, <2>2 DEF ActiveAt
    <2> QED
      BY <2>1, <2>3
  <1>5. ~(j < k) /\ ~(k < j)
    BY <1>2, <1>3, <1>4
  <1> QED
    BY <1>2, <1>3, <1>5

-----------------------------------------------------------------------------
(* One more line.                                                          *)
Line == [op : Ops, ctx : ScannedContexts, status : ScannedStatuses, prev : Nat]

(* What the rules say of a journal with one more line.                     *)
LEMMA OneMoreLine ==
    ASSUME NEW s \in Seq(Line), NEW r \in Line
    PROVE  LET t == Append(s, r)
               n == Len(s)
           IN  /\ n \in Nat /\ t \in Seq(Line) /\ Len(t) = n + 1 /\ t[n + 1] = r
               /\ \A i \in 1..n : t[i] = s[i] /\ s[i] \in Line
               /\ OperationsOf(t) = OperationsOf(s) \cup {r.op}
               /\ Active(t) = (Active(s) \ {r.op})
                              \cup (IF r.status = "en_cours" THEN {r.op} ELSE {})
               /\ NewAt(t, n + 1) <=> r.op \notin OperationsOf(s)
               /\ TransitionOk(t, n + 1) <=>
                    /\ r.status = "refuse" => r.op \notin OperationsOf(s)
                    /\ r.status = "en_cours" => r.op \notin OperationsOf(s) /\ Active(s) = {}
                    /\ r.status \in Terminal => Active(s) = {r.op}
               /\ ContextAt(t, n + 1) <=> \A i \in 1..n : s[i].op = r.op => s[i].ctx = r.ctx
               /\ \A i \in 1..n : /\ TransitionOk(t, i) <=> TransitionOk(s, i)
                                  /\ ContextAt(t, i) <=> ContextAt(s, i)
  <1> DEFINE t == Append(s, r)
             n == Len(s)
  <1>1. /\ n \in Nat /\ t \in Seq(Line) /\ Len(t) = n + 1 /\ t[n + 1] = r
        /\ \A i \in 1..n : t[i] = s[i] /\ s[i] \in Line
    BY LenProperties, AppendProperties, ElementOfSeq
  <1>2. OperationsOf(t) = OperationsOf(s) \cup {r.op}
    BY <1>1 DEF OperationsOf
  <1>3. OperationsOf(s) = {s[i].op : i \in 1..n}
    BY DEF OperationsOf
  <1>4. Active(s) = ActiveAt(s, n + 1) /\ Active(t) = ActiveAt(t, Len(t) + 1)
    BY DEF Active
  <1> HIDE DEF t, n
  <1>5. ActiveAt(t, n + 1) = Active(s)
    BY <1>1, <1>4, ActiveAgrees
  <1>6. Active(t) = (Active(s) \ {r.op})
                    \cup (IF r.status = "en_cours" THEN {r.op} ELSE {})
    <2>1. Active(t) = ActiveAt(t, n + 2)
      BY <1>1, <1>4
    <2> QED
      BY <2>1, <1>1, <1>5, ActiveNext
  <1>7. NewAt(t, n + 1) <=> r.op \notin OperationsOf(s)
    BY <1>1, <1>3 DEF NewAt
  <1>8. TransitionOk(t, n + 1) <=>
          /\ r.status = "refuse" => r.op \notin OperationsOf(s)
          /\ r.status = "en_cours" => r.op \notin OperationsOf(s) /\ Active(s) = {}
          /\ r.status \in Terminal => Active(s) = {r.op}
    BY <1>1, <1>5, <1>7 DEF TransitionOk
  <1>9. ContextAt(t, n + 1) <=> \A i \in 1..n : s[i].op = r.op => s[i].ctx = r.ctx
    BY <1>1 DEF ContextAt
  <1>10. ASSUME NEW i \in 1..n
         PROVE  /\ TransitionOk(t, i) <=> TransitionOk(s, i)
                /\ ContextAt(t, i) <=> ContextAt(s, i)
    <2>1. i \in Nat \ {0} /\ \A j \in 1..i : t[j] = s[j]
      BY <1>1
    <2> QED
      BY <2>1, LineAgrees
  <1> QED
    BY <1>1, <1>2, <1>6, <1>7, <1>8, <1>9, <1>10 DEF t, n

-----------------------------------------------------------------------------
(* validate_chain: while it accepts, it remembers the number of lines.     *)
ChainInv(s, st) ==
    /\ st = [previous |-> st.previous, ok |-> st.ok]
    /\ st.ok \in BOOLEAN
    /\ st.ok <=> ChainOk(s) /\ Len(s) <= MaxRecords
    /\ st.ok => st.previous = Len(s)

LEMMA ChainStep ==
    ASSUME NEW s \in Seq(Line), NEW r \in Line, NEW st, ChainInv(s, st)
    PROVE  ChainInv(Append(s, r), ChainLine(st, r))
  <1> DEFINE t == Append(s, r)
             n == Len(s)
             u == ChainLine(st, r)
  <1>1. /\ n \in Nat /\ Len(t) = n + 1 /\ t[n + 1] = r
        /\ \A i \in 1..n : t[i] = s[i]
    BY OneMoreLine
  <1>2. MaxRecords \in Nat /\ r.prev \in Nat
    BY LimitsAssumption DEF Line
  <1>3. ChainOk(s) <=> \A i \in 1..n : s[i].prev = i - 1
    BY DEF ChainOk
  <1> HIDE DEF t, n
  <1>4. ChainOk(t) <=> ChainOk(s) /\ r.prev = n
    <2>1. ChainOk(t) <=> \A i \in 1..(n + 1) : t[i].prev = i - 1
      BY <1>1 DEF ChainOk
    <2>2. 1..(n + 1) = (1..n) \cup {n + 1} /\ (n + 1) - 1 = n
      BY <1>1
    <2> QED
      BY <1>1, <1>3, <2>1, <2>2
  <1>5. CASE ~st.ok
    <2>1. u = [previous |-> st.previous, ok |-> FALSE]
      BY <1>5 DEF ChainLine, ChainInv
    <2>2. ~(ChainOk(t) /\ Len(t) <= MaxRecords)
      BY <1>1, <1>2, <1>4, <1>5 DEF ChainInv, n
    <2> HIDE DEF u
    <2> QED
      BY <2>1, <2>2 DEF ChainInv, t, u
  <1>6. CASE st.ok
    <2>1. st.previous = n /\ ChainOk(s) /\ n <= MaxRecords
      BY <1>6 DEF ChainInv, n
    <2>2. CASE n >= MaxRecords \/ r.prev # n
      <3>1. u = [previous |-> st.previous, ok |-> FALSE]
        BY <2>1, <2>2 DEF ChainLine, ChainInv
      <3>2. ~(ChainOk(t) /\ Len(t) <= MaxRecords)
        BY <1>1, <1>2, <1>4, <2>2
      <3> HIDE DEF u
      <3> QED
        BY <3>1, <3>2 DEF ChainInv, t, u
    <2>3. CASE ~(n >= MaxRecords \/ r.prev # n)
      <3>1. u = [previous |-> n + 1, ok |-> TRUE]
        BY <1>6, <2>1, <2>3 DEF ChainLine, ChainInv
      <3>2. ChainOk(t) /\ Len(t) <= MaxRecords
        BY <1>1, <1>2, <1>4, <2>1, <2>3
      <3> HIDE DEF u
      <3> QED
        BY <1>1, <3>1, <3>2 DEF ChainInv, t, u
    <2> QED
      BY <2>2, <2>3
  <1> QED
    BY <1>5, <1>6 DEF ChainInv

-----------------------------------------------------------------------------
(* validate_semantics: while it accepts, its table has exactly the         *)
(* operations of the lines read, each with its context, and at most one of *)
(* them running.                                                           *)
IsScan(st) ==
    /\ st = [lines |-> st.lines, known |-> st.known, context |-> st.context,
             running |-> st.running, terminal |-> st.terminal, active |-> st.active,
             ok |-> st.ok]
    /\ st.ok \in BOOLEAN

TableOf(s, st) ==
    /\ st.lines = Len(s)
    /\ st.known = OperationsOf(s)
    /\ \A i \in 1..Len(s) : st.context[s[i].op] = s[i].ctx
    /\ st.running = Active(s)
    /\ st.terminal = st.known \ st.running
    /\ st.running = IF st.active = NoOp THEN {} ELSE {st.active}

SemanticsInv(s, st) ==
    /\ IsScan(st)
    /\ st.ok <=> LifecycleOk(s) /\ LimitsOk(s)
    /\ st.ok => TableOf(s, st)

(* A journal is well formed with one more line when it was without it, the *)
(* line is allowed, and the limits leave room.                             *)
LEMMA WellFormedNext ==
    ASSUME NEW s \in Seq(Line), NEW r \in Line
    PROVE  LET t == Append(s, r)
               n == Len(s)
           IN  LifecycleOk(t) /\ LimitsOk(t) <=>
                 /\ LifecycleOk(s) /\ LimitsOk(s)
                 /\ TransitionOk(t, n + 1) /\ ContextAt(t, n + 1)
                 /\ n < MaxRecords
                 /\ r.op \in OperationsOf(s) \/ Cardinality(OperationsOf(s)) < MaxOperations
  <1> DEFINE t == Append(s, r)
             n == Len(s)
             K == OperationsOf(s)
  <1>1. /\ n \in Nat /\ Len(t) = n + 1
        /\ \A i \in 1..n : /\ TransitionOk(t, i) <=> TransitionOk(s, i)
                           /\ ContextAt(t, i) <=> ContextAt(s, i)
        /\ OperationsOf(t) = K \cup {r.op}
    BY OneMoreLine
  <1>2. IsFiniteSet(K) /\ Cardinality(K) \in Nat
    BY OperationsFinite
  <1>3. Cardinality(K \cup {r.op}) = IF r.op \in K THEN Cardinality(K) ELSE Cardinality(K) + 1
    BY <1>2, FS_AddElement
  <1>4. MaxRecords \in Nat /\ MaxOperations \in Nat
    BY LimitsAssumption
  <1>5. LifecycleOk(s) <=> \A i \in 1..n : TransitionOk(s, i) /\ ContextAt(s, i)
    BY DEF LifecycleOk
  <1>6. LimitsOk(s) <=> n <= MaxRecords /\ Cardinality(K) <= MaxOperations
    BY DEF LimitsOk
  <1> HIDE DEF t, n, K
  <1>7. LifecycleOk(t) <=> LifecycleOk(s) /\ TransitionOk(t, n + 1) /\ ContextAt(t, n + 1)
    <2>1. LifecycleOk(t) <=> \A i \in 1..(n + 1) : TransitionOk(t, i) /\ ContextAt(t, i)
      BY <1>1 DEF LifecycleOk
    <2>2. 1..(n + 1) = (1..n) \cup {n + 1}
      BY <1>1
    <2> QED
      BY <1>1, <1>5, <2>1, <2>2
  <1>8. LimitsOk(t) <=>
          /\ LimitsOk(s) /\ n < MaxRecords
          /\ r.op \in K \/ Cardinality(K) < MaxOperations
    <2>1. LimitsOk(t) <=> n + 1 <= MaxRecords /\ Cardinality(K \cup {r.op}) <= MaxOperations
      BY <1>1 DEF LimitsOk
    <2> QED
      BY <1>1, <1>2, <1>3, <1>4, <1>6, <2>1
  <1> QED
    BY <1>7, <1>8 DEF t, n, K

(* Finding the line's operation, or adding it: refused for a context that  *)
(* changed, or a full table.                                               *)
LEMMA EnterStep ==
    ASSUME NEW s \in Seq(Line), NEW r \in Line, NEW st, IsScan(st), st.ok, TableOf(s, st)
    PROVE  LET t == Append(s, r)
               e == Enter([st EXCEPT !.lines = @ + 1], r)
           IN  /\ IsScan(e)
               /\ e.ok <=> /\ ContextAt(t, Len(s) + 1)
                           /\ r.op \in OperationsOf(s)
                                \/ Cardinality(OperationsOf(s)) < MaxOperations
               /\ e.ok => /\ e.lines = Len(s) + 1
                          /\ e.known = OperationsOf(t)
                          /\ \A i \in 1..Len(t) : e.context[t[i].op] = t[i].ctx
                          /\ e.running = st.running /\ e.terminal = st.terminal
                          /\ e.active = st.active
  <1> DEFINE t == Append(s, r)
             n == Len(s)
             b == [st EXCEPT !.lines = @ + 1]
             e == Enter(b, r)
             K == OperationsOf(s)
  <1>1. /\ n \in Nat /\ Len(t) = n + 1 /\ t[n + 1] = r
        /\ \A i \in 1..n : t[i] = s[i]
        /\ OperationsOf(t) = K \cup {r.op}
        /\ ContextAt(t, n + 1) <=> \A i \in 1..n : s[i].op = r.op => s[i].ctx = r.ctx
    BY OneMoreLine
  <1>2. b = [lines |-> n + 1, known |-> K, context |-> st.context, running |-> st.running,
             terminal |-> st.terminal, active |-> st.active, ok |-> TRUE]
    <2>1. st = [lines |-> st.lines, known |-> st.known, context |-> st.context,
                running |-> st.running, terminal |-> st.terminal, active |-> st.active,
                ok |-> TRUE]
      BY DEF IsScan
    <2>2. st.lines = n /\ st.known = K
      BY DEF TableOf
    <2>3. b = [st EXCEPT !.lines = n + 1]
      BY <2>2
    <2> HIDE DEF b, n, K
    <2> QED
      BY <2>1, <2>2, <2>3
  <1>3. /\ K = {s[i].op : i \in 1..n}
        /\ \A i \in 1..n : st.context[s[i].op] = s[i].ctx
    BY DEF TableOf, OperationsOf
  <1>4. 1..(n + 1) = (1..n) \cup {n + 1}
    BY <1>1
  <1> HIDE DEF t, n, b, K
  <1>5. CASE r.op \in K
    <2>1. e = [b EXCEPT !.ok = (b.context[r.op] = r.ctx)]
      BY <1>2, <1>5 DEF Enter, ContextKept
    <2>2. e = [lines |-> n + 1, known |-> K, context |-> st.context, running |-> st.running,
               terminal |-> st.terminal, active |-> st.active,
               ok |-> (st.context[r.op] = r.ctx)]
      BY <1>2, <2>1
    <2>3. st.context[r.op] = r.ctx <=> ContextAt(t, n + 1)
      BY <1>1, <1>3, <1>5
    <2>4. OperationsOf(t) = K
      BY <1>1, <1>5
    <2>5. st.context[r.op] = r.ctx =>
            \A i \in 1..(n + 1) : st.context[t[i].op] = t[i].ctx
      BY <1>1, <1>3, <1>4
    <2>6. (st.context[r.op] = r.ctx) \in BOOLEAN
      OBVIOUS
    <2> HIDE DEF e
    <2>7. IsScan(e)
      BY <2>2, <2>6 DEF IsScan
    <2>8. /\ e.ok <=> st.context[r.op] = r.ctx
          /\ e.lines = n + 1 /\ e.known = K /\ e.context = st.context
          /\ e.running = st.running /\ e.terminal = st.terminal /\ e.active = st.active
      BY <2>2
    <2> QED
      BY <1>1, <1>5, <2>3, <2>4, <2>5, <2>7, <2>8 DEF t, n, K, e, b
  <1>6. CASE r.op \notin K
    <2>1. ContextAt(t, n + 1)
      BY <1>1, <1>3, <1>6
    <2>2. CASE ~(Cardinality(K) < MaxOperations)
      <3>1. e = [b EXCEPT !.ok = FALSE]
        BY <1>2, <1>6, <2>2 DEF Enter, EntryRoom
      <3>2. e = [lines |-> n + 1, known |-> K, context |-> st.context, running |-> st.running,
                 terminal |-> st.terminal, active |-> st.active, ok |-> FALSE]
        BY <1>2, <3>1
      <3> HIDE DEF e
      <3>3. IsScan(e) /\ ~e.ok
        BY <3>2 DEF IsScan
      <3> QED
        BY <1>6, <2>2, <3>3 DEF t, n, K, e, b
    <2>3. CASE Cardinality(K) < MaxOperations
      <3> DEFINE C == [o \in K \cup {r.op} |-> IF o = r.op THEN r.ctx ELSE st.context[o]]
      <3>1. e = [b EXCEPT !.known = K \cup {r.op}, !.context = C]
        BY <1>2, <1>6, <2>3 DEF Enter, EntryRoom
      <3>2. e = [lines |-> n + 1, known |-> K \cup {r.op}, context |-> C,
                 running |-> st.running, terminal |-> st.terminal, active |-> st.active,
                 ok |-> TRUE]
        BY <1>2, <3>1
      <3>3. \A i \in 1..(n + 1) : C[t[i].op] = t[i].ctx
        BY <1>1, <1>3, <1>4, <1>6
      <3> HIDE DEF e, C
      <3>4. /\ IsScan(e) /\ e.ok /\ e.context = C
            /\ e.lines = n + 1 /\ e.known = OperationsOf(t)
            /\ e.running = st.running /\ e.terminal = st.terminal /\ e.active = st.active
        BY <1>1, <3>2 DEF IsScan
      <3> QED
        BY <1>1, <2>1, <2>3, <3>3, <3>4 DEF t, n, K, e, b
    <2> QED
      BY <2>2, <2>3
  <1> QED
    BY <1>5, <1>6

(* The transition: accepted when the life cycle allows it, and then the    *)
(* flags say what is open behind the line.                                 *)
LEMMA TransitionStep ==
    ASSUME NEW s \in Seq(Line), NEW r \in Line, NEW st, IsScan(st), st.ok, TableOf(s, st),
           NEW e, IsScan(e), e.ok,
           LET t == Append(s, r)
           IN  /\ e.lines = Len(t) /\ e.known = OperationsOf(t)
               /\ \A i \in 1..Len(t) : e.context[t[i].op] = t[i].ctx
               /\ e.running = st.running /\ e.terminal = st.terminal
               /\ e.active = st.active
    PROVE  LET t == Append(s, r)
               u == Transition(e, r)
           IN  /\ IsScan(u)
               /\ u.ok <=> TransitionOk(t, Len(s) + 1)
               /\ u.ok => TableOf(t, u)
  <1> DEFINE t == Append(s, r)
             u == Transition(e, r)
             K == OperationsOf(s)
             A == Active(s)
  <1>1. /\ OperationsOf(t) = K \cup {r.op}
        /\ Active(t) = (A \ {r.op}) \cup (IF r.status = "en_cours" THEN {r.op} ELSE {})
        /\ TransitionOk(t, Len(s) + 1) <=>
             /\ r.status = "refuse" => r.op \notin K
             /\ r.status = "en_cours" => r.op \notin K /\ A = {}
             /\ r.status \in Terminal => A = {r.op}
    BY OneMoreLine
  <1>2. r.op \in Ops /\ r.op # NoOp /\ r.status \in Statuses
    BY ScanAssumption, OperationAssumption DEF Line
  <1>3. A \subseteq K
    BY ActiveKnown, LenProperties
  <1>4. /\ e.running = A /\ e.terminal = K \ A /\ e.known = K \cup {r.op}
        /\ A = (IF e.active = NoOp THEN {} ELSE {e.active})
        /\ e = [lines |-> e.lines, known |-> e.known, context |-> e.context,
                running |-> e.running, terminal |-> e.terminal, active |-> e.active,
                ok |-> e.ok]
    BY <1>1 DEF TableOf, IsScan
  <1>5. /\ e.lines = Len(t)
        /\ \A i \in 1..Len(t) : e.context[t[i].op] = t[i].ctx
    OBVIOUS
  <1>6. Fresh(e, r.op) <=> r.op \notin K
    BY <1>3, <1>4 DEF Fresh
  <1> HIDE DEF t, K, A
  <1>7. CASE r.status = "refuse"
    <2>1. u = [e EXCEPT !.ok = Fresh(e, r.op), !.terminal = @ \cup {r.op}]
      BY <1>7 DEF Transition
    <2>2. u = [lines |-> e.lines, known |-> e.known, context |-> e.context,
               running |-> A, terminal |-> (K \ A) \cup {r.op}, active |-> e.active,
               ok |-> Fresh(e, r.op)]
      BY <1>4, <2>1
    <2>3. TransitionOk(t, Len(s) + 1) <=> r.op \notin K
      BY <1>1, <1>7 DEF Terminal
    <2>4. r.op \notin K => /\ Active(t) = A
                           /\ (K \ A) \cup {r.op} = (K \cup {r.op}) \ A
      BY <1>1, <1>3, <1>7
    <2>5. Fresh(e, r.op) \in BOOLEAN
      BY DEF Fresh
    <2> HIDE DEF u
    <2>6. IsScan(u)
      BY <2>2, <2>5 DEF IsScan
    <2>7. u.ok <=> TransitionOk(t, Len(s) + 1)
      BY <1>6, <2>2, <2>3
    <2>8. u.ok => TableOf(t, u)
      BY <1>1, <1>4, <1>5, <1>6, <2>2, <2>4 DEF TableOf
    <2> QED
      BY <2>6, <2>7, <2>8 DEF t, u
  <1>8. CASE r.status = "en_cours"
    <2>1. u = [e EXCEPT !.ok = Fresh(e, r.op) /\ e.active = NoOp,
                        !.running = @ \cup {r.op}, !.active = r.op]
      BY <1>8 DEF Transition
    <2>2. u = [lines |-> e.lines, known |-> e.known, context |-> e.context,
               running |-> A \cup {r.op}, terminal |-> K \ A, active |-> r.op,
               ok |-> (Fresh(e, r.op) /\ e.active = NoOp)]
      BY <1>4, <2>1
    <2>3. TransitionOk(t, Len(s) + 1) <=> r.op \notin K /\ A = {}
      BY <1>1, <1>8 DEF Terminal
    <2>4. e.active = NoOp <=> A = {}
      BY <1>4
    <2>5. r.op \notin K /\ A = {} =>
            /\ Active(t) = {r.op} /\ A \cup {r.op} = {r.op}
            /\ K \ A = (K \cup {r.op}) \ {r.op}
      BY <1>1, <1>8
    <2>6. (Fresh(e, r.op) /\ e.active = NoOp) \in BOOLEAN
      OBVIOUS
    <2> HIDE DEF u
    <2>7. IsScan(u)
      BY <2>2, <2>6 DEF IsScan
    <2>8. u.ok <=> TransitionOk(t, Len(s) + 1)
      BY <1>6, <2>2, <2>3, <2>4
    <2>9. u.ok => TableOf(t, u)
      BY <1>1, <1>2, <1>4, <1>5, <1>6, <2>2, <2>4, <2>5 DEF TableOf
    <2> QED
      BY <2>7, <2>8, <2>9 DEF t, u
  <1>9. CASE r.status \in Terminal
    <2> DEFINE ok == r.op \in e.running /\ r.op \notin e.terminal /\ e.active = r.op
    <2>1. u = [e EXCEPT !.ok = ok, !.running = @ \ {r.op}, !.terminal = @ \cup {r.op},
                        !.active = NoOp]
      BY <1>9 DEF Transition, Terminal
    <2>2. ok <=> A = {r.op}
      BY <1>2, <1>3, <1>4
    <2>3. ok \in BOOLEAN
      OBVIOUS
    <2> HIDE DEF ok
    <2>4. u = [lines |-> e.lines, known |-> e.known, context |-> e.context,
               running |-> A \ {r.op}, terminal |-> (K \ A) \cup {r.op}, active |-> NoOp,
               ok |-> ok]
      BY <1>4, <2>1
    <2>5. TransitionOk(t, Len(s) + 1) <=> A = {r.op}
      BY <1>1, <1>9 DEF Terminal
    <2>6. A = {r.op} => /\ Active(t) = {} /\ A \ {r.op} = {}
                        /\ (K \ A) \cup {r.op} = K \cup {r.op}
      BY <1>1, <1>3, <1>9 DEF Terminal
    <2> HIDE DEF u
    <2>7. IsScan(u)
      BY <2>4, <2>3 DEF IsScan
    <2>8. u.ok <=> TransitionOk(t, Len(s) + 1)
      BY <2>2, <2>4, <2>5
    <2>9. u.ok => TableOf(t, u)
      BY <1>1, <1>4, <1>5, <2>2, <2>4, <2>6 DEF TableOf
    <2> QED
      BY <2>7, <2>8, <2>9 DEF t, u
  <1> QED
    BY <1>2, <1>7, <1>8, <1>9 DEF Statuses

LEMMA SemanticsStep ==
    ASSUME NEW s \in Seq(Line), NEW r \in Line, NEW st, SemanticsInv(s, st)
    PROVE  SemanticsInv(Append(s, r), ScanLine(st, r))
  <1> DEFINE t == Append(s, r)
             n == Len(s)
             u == ScanLine(st, r)
             e == Enter([st EXCEPT !.lines = @ + 1], r)
             room == r.op \in OperationsOf(s) \/ Cardinality(OperationsOf(s)) < MaxOperations
  <1>1. LifecycleOk(t) /\ LimitsOk(t) <=>
          /\ LifecycleOk(s) /\ LimitsOk(s)
          /\ TransitionOk(t, n + 1) /\ ContextAt(t, n + 1)
          /\ n < MaxRecords /\ room
    BY WellFormedNext
  <1>2. n \in Nat /\ Len(t) = n + 1
    BY OneMoreLine
  <1>3. MaxRecords \in Nat
    BY LimitsAssumption
  <1>4. IsScan(st) /\ (st.ok <=> LifecycleOk(s) /\ LimitsOk(s)) /\ (st.ok => TableOf(s, st))
    BY DEF SemanticsInv
  <1>5. CASE ~st.ok \/ st.lines >= MaxRecords
    <2>1. u = [st EXCEPT !.ok = FALSE]
      BY <1>5 DEF ScanLine
    <2>2. IsScan(u) /\ ~u.ok
      BY <1>4, <2>1 DEF IsScan
    <2>3. ~(LifecycleOk(t) /\ LimitsOk(t))
      BY <1>1, <1>2, <1>3, <1>4, <1>5 DEF TableOf
    <2> QED
      BY <2>2, <2>3 DEF SemanticsInv
  <1>6. CASE ~(~st.ok \/ st.lines >= MaxRecords)
    <2>1. /\ st.ok /\ TableOf(s, st) /\ LifecycleOk(s) /\ LimitsOk(s)
      BY <1>4, <1>6
    <2>2. n < MaxRecords
      BY <1>2, <1>3, <1>6, <2>1 DEF TableOf
    <2>3. u = IF e.ok THEN Transition(e, r) ELSE e
      BY <1>6 DEF ScanLine
    <2>4. /\ IsScan(e)
          /\ e.ok <=> ContextAt(t, n + 1) /\ room
          /\ e.ok => /\ e.lines = n + 1
                     /\ e.known = OperationsOf(t)
                     /\ \A i \in 1..Len(t) : e.context[t[i].op] = t[i].ctx
                     /\ e.running = st.running /\ e.terminal = st.terminal
                     /\ e.active = st.active
      BY <1>4, <2>1, EnterStep
    <2> HIDE DEF e, u, room
    <2>5. CASE ~e.ok
      BY <1>1, <2>3, <2>4, <2>5 DEF SemanticsInv, t, u
    <2>6. CASE e.ok
      <3>1. u = Transition(e, r)
        BY <2>3, <2>6
      <3>2. /\ IsScan(u)
            /\ u.ok <=> TransitionOk(t, n + 1)
            /\ u.ok => TableOf(t, u)
        BY <1>2, <1>4, <2>1, <2>4, <2>6, <3>1, TransitionStep
      <3> QED
        BY <1>1, <2>1, <2>2, <2>4, <2>6, <3>2 DEF SemanticsInv, t, u
    <2> QED
      BY <2>5, <2>6
  <1> QED
    BY <1>5, <1>6

-----------------------------------------------------------------------------
(* group_operations: while it accepts, an operation's group is its refusal,*)
(* its start while it is open, or its start and its verdict.               *)
GroupsOf(s, st) ==
    /\ DOMAIN st.groups = OperationsOf(s)
    /\ Active(s) = IF st.active = NoOp THEN {} ELSE {st.active}
    /\ \A o \in OperationsOf(s) :
         IF o \in Active(s) THEN st.groups[o] = <<"en_cours">>
         ELSE \/ st.groups[o] = <<"refuse">>
              \/ \E w \in Terminal : st.groups[o] = <<"en_cours", w>>

GroupingInv(s, st) ==
    /\ st = [groups |-> st.groups, active |-> st.active, ok |-> st.ok]
    /\ st.ok \in BOOLEAN
    /\ st.ok <=> \A i \in 1..Len(s) : TransitionOk(s, i)
    /\ st.ok => GroupsOf(s, st)

LEMMA StartAndVerdict ==
    ASSUME NEW w
    PROVE  Append(<<"en_cours">>, w) = <<"en_cours", w>>
  <1>1. ASSUME NEW S, NEW q \in Seq(S), NEW v \in S, Len(q) = 1
        PROVE  /\ Append(q, v) \in Seq(S) /\ Len(Append(q, v)) = 2
               /\ Append(q, v)[1] = q[1] /\ Append(q, v)[2] = v
    <2>1. Append(q, v) \in Seq(S) /\ Len(Append(q, v)) = Len(q) + 1
      BY AppendProperties
    <2>2. \A i \in 1..Len(q) : Append(q, v)[i] = q[i]
      BY AppendProperties
    <2>3. Append(q, v)[Len(q) + 1] = v
      BY AppendProperties
    <2> QED
      BY <1>1, <2>1, <2>2, <2>3
  <1> DEFINE S == {"en_cours", w}
             q == <<"en_cours">>
             b == <<"en_cours", w>>
  <1>2. q \in Seq(S) /\ w \in S /\ Len(q) = 1 /\ q[1] = "en_cours"
    OBVIOUS
  <1>3. b \in Seq(S) /\ Len(b) = 2 /\ b[1] = "en_cours" /\ b[2] = w
    OBVIOUS
  <1> HIDE DEF S, q, b
  <1>4. /\ Append(q, w) \in Seq(S) /\ Len(Append(q, w)) = 2
        /\ Append(q, w)[1] = q[1] /\ Append(q, w)[2] = w
    BY <1>1, <1>2 
  <1>5. \A i \in 1..2 : Append(q, w)[i] = b[i]
    <2>1. 1..2 = {1, 2}
      OBVIOUS
    <2> QED
      BY <1>2, <1>3, <1>4, <2>1
  <1>6. Append(q, w) = b
    BY <1>3, <1>4, <1>5, SeqEqual
  <1> QED
    BY <1>6 DEF q, b

LEMMA GroupingStep ==
    ASSUME NEW s \in Seq(Line), NEW r \in Line, NEW st, GroupingInv(s, st)
    PROVE  GroupingInv(Append(s, r), GroupLine(st, r))
  <1> DEFINE t == Append(s, r)
             n == Len(s)
             u == GroupLine(st, r)
             K == OperationsOf(s)
             A == Active(s)
  <1>1. /\ n \in Nat /\ Len(t) = n + 1
        /\ OperationsOf(t) = K \cup {r.op}
        /\ Active(t) = (A \ {r.op}) \cup (IF r.status = "en_cours" THEN {r.op} ELSE {})
        /\ TransitionOk(t, n + 1) <=>
             /\ r.status = "refuse" => r.op \notin K
             /\ r.status = "en_cours" => r.op \notin K /\ A = {}
             /\ r.status \in Terminal => A = {r.op}
        /\ \A i \in 1..n : TransitionOk(t, i) <=> TransitionOk(s, i)
    BY OneMoreLine
  <1>2. r.op \in Ops /\ r.op # NoOp /\ r.status \in Statuses
    BY ScanAssumption, OperationAssumption DEF Line
  <1>3. A \subseteq K
    BY ActiveKnown, LenProperties
  <1>4. /\ st = [groups |-> st.groups, active |-> st.active, ok |-> st.ok]
        /\ st.ok \in BOOLEAN
        /\ st.ok <=> \A i \in 1..n : TransitionOk(s, i)
        /\ st.ok => GroupsOf(s, st)
    BY DEF GroupingInv
  <1>5. (\A i \in 1..Len(t) : TransitionOk(t, i)) <=> st.ok /\ TransitionOk(t, n + 1)
    <2>1. 1..Len(t) = (1..n) \cup {n + 1}
      BY <1>1
    <2> QED
      BY <1>1, <1>4, <2>1
  <1>6. \A x \in K : st.ok /\ x \in A => st.groups[x] = <<"en_cours">>
    BY <1>4 DEF GroupsOf
  <1>7. st.ok => DOMAIN st.groups = K /\ A = IF st.active = NoOp THEN {} ELSE {st.active}
    BY <1>4 DEF GroupsOf
  <1>8. \A x \in K \ A : st.ok =>
          \/ st.groups[x] = <<"refuse">>
          \/ \E w \in Terminal : st.groups[x] = <<"en_cours", w>>
    BY <1>4 DEF GroupsOf
  <1> HIDE DEF t, n, K, A
  <1>9. CASE ~st.ok
    <2>1. /\ u = [groups |-> u.groups, active |-> u.active, ok |-> u.ok]
          /\ u.ok = FALSE
      BY <1>4, <1>9 DEF GroupLine
    <2> HIDE DEF u
    <2> QED
      BY <1>5, <1>9, <2>1 DEF GroupingInv, t, u
  <1>10. CASE st.ok /\ r.op \notin K
    <2> DEFINE G(entries) == [x \in K \cup {r.op} |-> IF x = r.op THEN entries ELSE st.groups[x]]
    <2>1. \A entries : GroupSet(st, r.op, entries) = G(entries)
      BY <1>7, <1>10 DEF GroupSet
    <2>2. CASE r.status = "refuse"
      <3>0. GroupSet(st, r.op, <<"refuse">>) = G(<<"refuse">>)
        BY <2>1
      <3>1. u = [st EXCEPT !.groups = G(<<"refuse">>)]
        BY <1>7, <1>10, <3>0, <2>2 DEF GroupLine
      <3>2. u = [groups |-> G(<<"refuse">>), active |-> st.active, ok |-> TRUE]
        BY <1>4, <1>10, <3>1
      <3>3. TransitionOk(t, n + 1) /\ Active(t) = A
        BY <1>1, <1>3, <1>10, <2>2 DEF Terminal
      <3> HIDE DEF u
      <3>4. GroupsOf(t, u)
        BY <1>1, <1>3, <1>6, <1>7, <1>8, <1>10, <3>2, <3>3 DEF GroupsOf
      <3> QED
        BY <1>5, <1>10, <3>2, <3>3, <3>4 DEF GroupingInv, t, u
    <2>3. CASE r.status # "refuse"
      <3>1. u = [groups |-> G(<<r.status>>), active |-> r.op,
                 ok |-> st.ok /\ r.status = "en_cours" /\ st.active = NoOp]
        BY <1>7, <1>10, <2>1, <2>3 DEF GroupLine
      <3>2. TransitionOk(t, n + 1) <=> r.status = "en_cours" /\ A = {}
        BY <1>1, <1>2, <1>3, <1>10, <2>3 DEF Terminal, Statuses
      <3>3. st.active = NoOp <=> A = {}
        BY <1>7, <1>10
      <3> HIDE DEF u
      <3>4. u.ok => GroupsOf(t, u)
        <4> SUFFICES ASSUME r.status = "en_cours", A = {} PROVE GroupsOf(t, u)
          BY <3>1, <3>3
        <4>1. Active(t) = {r.op}
          BY <1>1
        <4> QED
          BY <1>1, <1>2, <1>8, <1>10, <3>1, <4>1 DEF GroupsOf
      <3>5. (st.ok /\ r.status = "en_cours" /\ st.active = NoOp) \in BOOLEAN
        OBVIOUS
      <3>6. u.ok <=> TransitionOk(t, n + 1)
        BY <1>10, <3>1, <3>2, <3>3
      <3>7. u = [groups |-> u.groups, active |-> u.active, ok |-> u.ok] /\ u.ok \in BOOLEAN
        BY <3>1, <3>5
      <3> QED
        BY <1>5, <1>10, <3>4, <3>6, <3>7 DEF GroupingInv, t, u
    <2> QED
      BY <2>2, <2>3
  <1>11. CASE st.ok /\ r.op \in K
    <2> DEFINE g == Append(st.groups[r.op], r.status)
               G == [x \in K |-> IF x = r.op THEN g ELSE st.groups[x]]
    <2>1. K \cup {r.op} = K
      BY <1>11
    <2>2. GroupSet(st, r.op, g) = G
      BY <1>7, <1>11, <2>1 DEF GroupSet
    <2>3. u = [groups |-> G, active |-> NoOp, ok |-> st.ok /\ Ends(st, r)]
      BY <1>7, <1>11, <2>2 DEF GroupLine
    <2>4. Ends(st, r) <=> r.status \in Terminal /\ A = {r.op}
      BY <1>2, <1>6, <1>7, <1>11 DEF Ends
    <2>5. TransitionOk(t, n + 1) <=> r.status \in Terminal /\ A = {r.op}
      BY <1>1, <1>2, <1>11 DEF Statuses, Terminal
    <2>6. Ends(st, r) \in BOOLEAN
      BY DEF Ends
    <2> HIDE DEF u
    <2>7. u.ok => GroupsOf(t, u)
      <3> SUFFICES ASSUME r.status \in Terminal, A = {r.op} PROVE GroupsOf(t, u)
        BY <2>3, <2>4
      <3>1. Active(t) = {}
        BY <1>1 DEF Terminal
      <3>2. g = <<"en_cours", r.status>>
        <4>1. st.groups[r.op] = <<"en_cours">>
          BY <1>6, <1>11
        <4> QED
          BY <4>1, StartAndVerdict
      <3> HIDE DEF g
      <3> QED
        BY <1>1, <1>8, <1>11, <2>1, <2>3, <3>1, <3>2 DEF GroupsOf
    <2> QED
      BY <1>5, <1>11, <2>3, <2>4, <2>5, <2>6, <2>7 DEF GroupingInv, t, u
  <1> QED
    BY <1>4, <1>9, <1>10, <1>11

-----------------------------------------------------------------------------
(* What holds behind every line.                                           *)
ScanInv ==
    /\ journal \in Seq(Line)
    /\ ChainInv(journal, chain)
    /\ SemanticsInv(journal, semantics)
    /\ GroupingInv(journal, grouping)

LEMMA ScanInit ==
    LinesInit => ScanInv
  <1> SUFFICES ASSUME LinesInit PROVE ScanInv
    OBVIOUS
  <1>1. /\ journal = <<>> /\ journal \in Seq(Line) /\ Len(journal) = 0
        /\ 1..Len(journal) = {}
    BY EmptySeq DEF LinesInit
  <1>2. /\ OperationsOf(journal) = {} /\ Active(journal) = {}
        /\ ChainOk(journal) /\ LifecycleOk(journal)
    BY <1>1 DEF OperationsOf, Active, ActiveAt, ChainOk, LifecycleOk
  <1>3. LimitsOk(journal) /\ 0 <= MaxRecords
    BY <1>1, <1>2, FS_EmptySet, LimitsAssumption DEF LimitsOk
  <1>4. ChainInv(journal, chain)
    BY <1>1, <1>2, <1>3 DEF LinesInit, ChainStart, ChainInv
  <1>5. SemanticsInv(journal, semantics)
    BY <1>1, <1>2, <1>3 DEF LinesInit, ScanStart, SemanticsInv, IsScan, TableOf
  <1>6. GroupingInv(journal, grouping)
    BY <1>1, <1>2 DEF LinesInit, GroupStart, GroupingInv, GroupsOf
  <1> QED
    BY <1>1, <1>4, <1>5, <1>6 DEF ScanInv

(* The state of each scanner, behind every line of every journal, is what  *)
(* the rules say of the lines before it (validate_chain,                   *)
(* validate_semantics, group_operations).                                  *)
THEOREM ScanInvariant == LinesSpec => []ScanInv
  <1>1. ScanInv /\ [LinesNext]_scanVars => ScanInv'
    <2> SUFFICES ASSUME ScanInv, [LinesNext]_scanVars PROVE ScanInv'
      OBVIOUS
    <2>1. CASE UNCHANGED scanVars
      BY <2>1 DEF ScanInv, scanVars
    <2>2. CASE LinesNext
      <3>1. PICK r \in AnyLine : ReadLine(r)
        BY <2>2 DEF LinesNext
      <3>2. r \in Line
        BY LenProperties DEF ScanInv, AnyLine, Line
      <3>3. /\ journal' = Append(journal, r) /\ journal' \in Seq(Line)
        BY <3>1, <3>2, AppendProperties DEF ScanInv, ReadLine
      <3>4. ChainInv(journal', chain')
        BY <3>1, <3>2, ChainStep DEF ScanInv, ReadLine
      <3>5. SemanticsInv(journal', semantics')
        BY <3>1, <3>2, SemanticsStep DEF ScanInv, ReadLine
      <3>6. GroupingInv(journal', grouping')
        BY <3>1, <3>2, GroupingStep DEF ScanInv, ReadLine
      <3> QED
        BY <3>3, <3>4, <3>5, <3>6 DEF ScanInv
    <2> QED
      BY <2>1, <2>2
  <1> QED
    BY <1>1, ScanInit, PTL DEF LinesSpec

(* The empty string names no operation of a journal.                       *)
LEMMA NoOpUnknown ==
    ASSUME NEW s \in Seq(Line)
    PROVE  NoOp \notin OperationsOf(s)
  <1>1. \A i \in 1..Len(s) : s[i] \in Line
    BY ElementOfSeq
  <1>2. \A i \in 1..Len(s) : s[i].op \in Ops
    BY <1>1 DEF Line
  <1> QED
    BY <1>2, OperationAssumption DEF OperationsOf

(* Two lemmas on the loop that ends validate_semantics, one per call.    *)
LEMMA FreshVerdict ==
    ASSUME NEW s \in Seq(Line), NEW st, SemanticsInv(s, st), NEW o \in Ops \cup {NoOp}
    PROVE  ScanVerdict(st, NoOp, NoOp, o) <=>
             /\ LifecycleOk(s) /\ LimitsOk(s)
             /\ Active(s) = {} /\ o \notin OperationsOf(s)
  <1>1. NoOp \notin OperationsOf(s)
    BY NoOpUnknown
  <1>2. Active(s) \subseteq OperationsOf(s)
    BY ActiveKnown, LenProperties
  <1>3. ASSUME TableOf(s, st)
        PROVE  (\A x \in st.known : \/ x = NoOp /\ x \in st.running /\ st.context[x] = NoOp
                                    \/ x \notin st.running /\ x \in st.terminal)
               <=> Active(s) = {}
    BY <1>1, <1>2, <1>3 DEF TableOf
  <1> QED
    BY <1>3 DEF ScanVerdict, SemanticsInv, TableOf

LEMMA TerminalVerdict ==
    ASSUME NEW s \in Seq(Line), NEW st, SemanticsInv(s, st),
           NEW o \in Ops, NEW c \in ScannedContexts
    PROVE  ScanVerdict(st, o, c, NoOp) <=>
             /\ LifecycleOk(s) /\ LimitsOk(s)
             /\ TerminalAllowed(s, o, c)
  <1>1. NoOp \notin OperationsOf(s) /\ o # NoOp
    BY NoOpUnknown, OperationAssumption
  <1>2. Active(s) \subseteq OperationsOf(s)
    BY ActiveKnown, LenProperties
  <1> DEFINE mayRun(x) == x = o /\ x \in st.running /\ st.context[x] = c
  <1>3. ASSUME TableOf(s, st)
        PROVE  /\ \A x \in st.known : mayRun(x) \/ (x \notin st.running /\ x \in st.terminal)
               /\ \E x \in st.known : mayRun(x)
               <=> TerminalAllowed(s, o, c)
    <2>1. ASSUME NEW x \in OperationsOf(s), x = o
          PROVE  st.context[x] = c <=> \A i \in 1..Len(s) : s[i].op = o => s[i].ctx = c
      <3>1. PICK i \in 1..Len(s) : s[i].op = o
        BY <2>1 DEF OperationsOf
      <3> QED
        BY <1>3, <2>1, <3>1 DEF TableOf
    <2> DEFINE one == \A i \in 1..Len(s) : s[i].op = o => s[i].ctx = c
    <2>2. TerminalAllowed(s, o, c) <=> Active(s) = {o} /\ one
      BY DEF TerminalAllowed
    <2>3. \A x \in OperationsOf(s) : mayRun(x) <=> x = o /\ x \in Active(s) /\ one
      BY <1>3, <2>1 DEF TableOf
    <2> HIDE DEF mayRun, one
    <2> QED
      BY <1>2, <1>3, <2>2, <2>3 DEF TableOf
  <1> QED
    BY <1>1, <1>3 DEF ScanVerdict, SemanticsInv, TableOf

(* validate_chain and validate_semantics accept exactly what the rules     *)
(* mean, for journals of every length.                                     *)
THEOREM ScannersAlwaysExact == LinesSpec => []ScannersExact
  <1>1. ScanInv => ScannersExact
    <2> SUFFICES ASSUME ScanInv PROVE ScannersExact
      OBVIOUS
    <2>1. ChainScanExact
      BY DEF ScanInv, ChainInv, ChainScanExact
    <2>2. FreshScanExact
      BY FreshVerdict DEF ScanInv, FreshScanExact, FreshAllowed
    <2>3. TerminalScanExact
      BY TerminalVerdict DEF ScanInv, TerminalScanExact
    <2>4. VerifyScanExact
      <3> SUFFICES ASSUME journal # <<>>
                   PROVE  ScanVerdict(semantics, NoOp, NoOp, NoOp) <=>
                            LifecycleOk(journal) /\ LimitsOk(journal) /\ ClosedJournal(journal)
        BY DEF VerifyScanExact
      <3>1. Len(journal) > 0
        BY LenProperties, EmptySeq DEF ScanInv
      <3>2. NoOp \notin OperationsOf(journal)
        BY NoOpUnknown DEF ScanInv
      <3>3. ScanVerdict(semantics, NoOp, NoOp, NoOp) <=>
              /\ LifecycleOk(journal) /\ LimitsOk(journal)
              /\ Active(journal) = {} /\ NoOp \notin OperationsOf(journal)
        BY FreshVerdict DEF ScanInv
      <3> QED
        BY <3>1, <3>2, <3>3 DEF ClosedJournal
    <2> QED
      BY <2>1, <2>2, <2>3, <2>4 DEF ScannersExact
  <1> QED
    BY <1>1, ScanInvariant, PTL

(* group_operations accepts exactly the closed journals whose life cycles  *)
(* are right, for journals of every length.                                *)
THEOREM ReportAlwaysAgrees == LinesSpec => []ReportAgrees
  <1>1. ScanInv => ReportAgrees
    <2> SUFFICES ASSUME ScanInv PROVE ReportAgrees
      OBVIOUS
    <2> DEFINE s == journal
               st == grouping
               complete(entries) == /\ entries[1] = "en_cours" => Len(entries) = 2
                                    /\ entries[Len(entries)] \in Terminal \cup {"refuse"}
    <2>1. /\ st.ok <=> \A i \in 1..Len(s) : TransitionOk(s, i)
          /\ st.ok => GroupsOf(s, st)
      BY DEF ScanInv, GroupingInv
    <2>2. GroupVerdict(st) <=>
            /\ st.ok /\ \A o \in DOMAIN st.groups : complete(st.groups[o])
            /\ st.active = NoOp /\ DOMAIN st.groups # {}
      BY DEF GroupVerdict
    <2>3. Len(s) \in Nat /\ (OperationsOf(s) # {} <=> Len(s) > 0)
      BY LenProperties DEF ScanInv, OperationsOf
    <2>4. complete(<<"refuse">>) /\ \A w \in Terminal : complete(<<"en_cours", w>>)
      BY DEF Terminal
    <2> HIDE DEF complete, s, st
    <2>5. ASSUME st.ok
          PROVE  GroupVerdict(st) <=> ClosedJournal(s)
      <3>1. GroupsOf(s, st)
        BY <2>1, <2>5
      <3>2. st.active = NoOp <=> Active(s) = {}
        BY <3>1 DEF GroupsOf
      <3>3. Active(s) = {} => \A o \in DOMAIN st.groups : complete(st.groups[o])
        BY <2>4, <3>1 DEF GroupsOf
      <3>4. DOMAIN st.groups # {} <=> Len(s) > 0
        BY <2>3, <3>1 DEF GroupsOf
      <3> QED
        BY <2>2, <2>5, <3>2, <3>3, <3>4 DEF ClosedJournal
    <2> QED
      BY <2>1, <2>2, <2>5 DEF ReportAgrees, s, st
  <1> QED
    BY <1>1, ScanInvariant, PTL

-----------------------------------------------------------------------------
(* What a process's place says of its own variables.                       *)
LocalInv ==
    /\ \A p \in Procs :
         /\ pc[p] \in {"decide", "open", "lock", "work"} \cup Holding => op[p] \in Ops
         /\ pc[p] \in {"lock"} \cup Holding => fd[p] \in Files /\ ident[p] \in {NoFile, fd[p]}
         /\ pc[p] \in Holding => ident[p] = fd[p]
         /\ "en_cours" \in acked[p] => ident[p] \in Files
         /\ pc[p] \in {"open", "lock"} \cup Holding => (want[p] \in Terminal <=> "en_cours" \in acked[p])
         /\ pc[p] \in {"start", "decide"} => "en_cours" \notin acked[p]
         /\ pc[p] = "work" => "en_cours" \in acked[p]
    /\ \A v \in Verifiers : vpc[v] \in {"lock", "check"} => vfd[v] \in Files

(* The lock excludes.                                                      *)
LockInv == \A p, q \in Procs :
    pc[p] \in Holding /\ pc[q] \in Holding /\ fd[p] = fd[q] => p = q

(* Between its validation and its append, a writer's journal stands still. *)
AppendInv == \A p \in Procs :
    pc[p] = "append" => seen[p] = Len(content[fd[p]]) /\ Acceptable(p)

(* Behind a terminal record nothing is open until the lock is released.    *)
EndedInv == \A p \in Procs :
    pc[p] \in {"sync", "close"} /\ want[p] \in Terminal => Active(content[fd[p]]) = {}

(* An owner's operation is the one open in its file, with room, context    *)
(* and line ends as its terminal record needs them.                        *)
OwnInv == \A p \in Procs : Owns(p) =>
    /\ ident[p] \in Files
    /\ Active(content[ident[p]]) = {op[p]}
    /\ ~torn[ident[p]]
    /\ Len(content[ident[p]]) <= MaxRecords - 1
    /\ \A i \in 1..Len(content[ident[p]]) :
         content[ident[p]][i].op = op[p] => content[ident[p]][i].ctx = ContextOf[p]

OwnerUnique == \A p, q \in Procs : Owns(p) /\ Owns(q) /\ ident[p] = ident[q] => p = q

FileInv == JournalValid /\ AppendInv /\ EndedInv /\ OwnInv /\ OwnerUnique

JournalInv == TypeOK /\ LocalInv /\ LockInv /\ FileInv

-----------------------------------------------------------------------------
(* Types.                                                                  *)

(* The record a process writes is a record.                                *)
LEMMA RecordType ==
    ASSUME TypeOK, LocalInv, NEW p \in Procs, pc[p] = "append"
    PROVE  /\ RecordOf(p) \in Record /\ fd[p] \in Files
           /\ Append(content[fd[p]], RecordOf(p)) \in Seq(Record)
  <1>1. op[p] \in Ops /\ fd[p] \in Files
    BY DEF LocalInv, Holding
  <1>2. ContextOf[p] \in Contexts
    BY DEF Contexts
  <1>3. RecordOf(p) \in Record
    BY <1>1, <1>2 DEF RecordOf, Record, TypeOK
  <1> QED
    BY <1>1, <1>3, AppendProperties DEF TypeOK

(* What dfx_write_audit leaves behind when it returns is well typed.        *)
LEMMA ReturnsType ==
    ASSUME TypeOK, NEW p \in Procs, Returns(p, TRUE) \/ Returns(p, FALSE)
    PROVE  /\ pc' \in [Procs -> PcValues]
           /\ fd' \in [Procs -> Files \cup {NoFile}]
           /\ acked' \in [Procs -> SUBSET Statuses]
           /\ code' \in [Procs -> {-1, 0, 1, 4}]
  <1>1. \A w : ExitCode(w, TRUE) \in {0, 1, 4} /\ ExitCode(w, FALSE) \in {0, 1, 4}
    BY DEF ExitCode
  <1>2. pc' = [pc EXCEPT ![p] = "work"] \/ pc' = [pc EXCEPT ![p] = "exit"]
    BY DEF Returns
  <1>3. fd' = [fd EXCEPT ![p] = NoFile]
    BY DEF Returns
  <1>4. acked' = [acked EXCEPT ![p] = acked[p] \cup {want[p]}] \/ acked' = [acked EXCEPT ![p] = acked[p]]
    BY DEF Returns
  <1>5. \/ code' = code
        \/ code' = [code EXCEPT ![p] = ExitCode(want[p], TRUE)]
        \/ code' = [code EXCEPT ![p] = ExitCode(want[p], FALSE)]
    BY DEF Returns
  <1>6. pc' \in [Procs -> PcValues]
    BY <1>2 DEF TypeOK, PcValues
  <1>7. fd' \in [Procs -> Files \cup {NoFile}]
    BY <1>3 DEF TypeOK
  <1>8. acked' \in [Procs -> SUBSET Statuses]
    <2>1. want[p] \in Statuses /\ acked[p] \in SUBSET Statuses
      BY DEF TypeOK
    <2>2. acked[p] \cup {want[p]} \in SUBSET Statuses
      BY <2>1
    <2> QED
      BY <1>4, <2>1, <2>2 DEF TypeOK
  <1>9. code' \in [Procs -> {-1, 0, 1, 4}]
    BY <1>1, <1>5 DEF TypeOK
  <1> QED
    BY <1>6, <1>7, <1>8, <1>9

(* Where a write that returned leaves its caller.                          *)
LEMMA ReturnsCases ==
    ASSUME TypeOK, NEW p \in Procs
    PROVE  /\ Returns(p, FALSE) =>
                pc' = [pc EXCEPT ![p] = "exit"] /\ acked' = acked /\ fd' = [fd EXCEPT ![p] = NoFile]
           /\ Returns(p, TRUE) =>
                /\ acked' = [acked EXCEPT ![p] = acked[p] \cup {want[p]}]
                /\ fd' = [fd EXCEPT ![p] = NoFile]
                /\ pc' = [pc EXCEPT ![p] = IF want[p] = "en_cours" THEN "work" ELSE "exit"]
  <1>1. [acked EXCEPT ![p] = acked[p]] = acked
    BY DEF TypeOK
  <1>2. CASE want[p] = "en_cours"
    BY <1>1, <1>2 DEF Returns
  <1>3. CASE want[p] # "en_cours"
    BY <1>1, <1>3 DEF Returns
  <1> QED
    BY <1>2, <1>3

(* The three outcomes of a failed append are well typed.                   *)
LEMMA OutcomeType ==
    ASSUME TypeOK, LocalInv, NEW p \in Procs,
           (pc[p] = "append" /\ AppendOutcome(p)) \/ UNCHANGED <<content, torn>>
    PROVE  content' \in [Files -> Seq(Record)] /\ torn' \in [Files -> BOOLEAN]
  <1>1. CASE UNCHANGED <<content, torn>>
    BY <1>1 DEF TypeOK
  <1>2. CASE pc[p] = "append" /\ torn' = [torn EXCEPT ![fd[p]] = TRUE] /\ UNCHANGED content
    <2>1. torn' \in [Files -> BOOLEAN]
      BY <1>2 DEF TypeOK
    <2> QED
      BY <1>2, <2>1 DEF TypeOK
  <1>3. CASE pc[p] = "append" /\ Written(p) /\ UNCHANGED torn
    BY <1>3, RecordType DEF TypeOK, Written
  <1> QED
    BY <1>1, <1>2, <1>3 DEF AppendOutcome

(* What a power loss leaves is well typed.                                 *)
LEMMA PowerLossType ==
    ASSUME TypeOK, PowerLoss
    PROVE  /\ content' \in [Files -> Seq(Record)] /\ torn' \in [Files -> BOOLEAN]
           /\ pc' \in [Procs -> PcValues]
           /\ fd' \in [Procs -> Files \cup {NoFile}]
           /\ vpc' \in [Verifiers -> {"start", "lock", "check", "exit"}]
           /\ losses' \in Nat
  <1>1. PICK kept \in [Files -> 0..MaxRecords], broken \in [Files -> BOOLEAN] :
           /\ \A f \in Files : SurvivesPowerLoss(f, kept[f], broken[f])
           /\ content' = [f \in Files |-> SubSeq(content[f], 1, kept[f])]
           /\ torn' = broken
    BY DEF PowerLoss
  <1>2. ASSUME NEW f \in Files PROVE SubSeq(content[f], 1, kept[f]) \in Seq(Record)
    <2>1. content[f] \in Seq(Record) /\ Len(content[f]) \in Nat /\ synced[f] \in Nat
      BY LenProperties DEF TypeOK
    <2>2. kept[f] \in Nat /\ kept[f] <= Len(content[f])
      BY <1>1, <2>1 DEF SurvivesPowerLoss
    <2> QED
      BY <2>1, <2>2, ElementOfSeq, SubSeqProperties
  <1>3. content' \in [Files -> Seq(Record)]
    BY <1>1, <1>2
  <1>4. torn' \in [Files -> BOOLEAN]
    BY <1>1
  <1>5. pc' \in [Procs -> PcValues]
    BY DEF PowerLoss, TypeOK, PcValues
  <1>6. fd' \in [Procs -> Files \cup {NoFile}]
    BY DEF PowerLoss
  <1>7. vpc' \in [Verifiers -> {"start", "lock", "check", "exit"}]
    BY DEF PowerLoss
  <1>8. losses' \in Nat
    BY DEF PowerLoss, TypeOK
  <1> QED
    BY <1>3, <1>4, <1>5, <1>6, <1>7, <1>8

(* The initial types.                                                      *)
LEMMA TypeInit == Init => TypeOK
  BY JournalAssumption, OperationAssumption, EmptySeq DEF Init, TypeOK, PcValues, Statuses

(* Every step keeps the types.                                             *)
LEMMA TypeStep == TypeOK /\ LocalInv /\ [Next]_vars => TypeOK'
  <1> SUFFICES ASSUME TypeOK, LocalInv, [Next]_vars PROVE TypeOK'
    OBVIOUS
  <1> USE DEF TypeOK, files, procs, checks, budget
  <1>1. ASSUME NEW p \in Procs, PrepareAudit(p) PROVE TypeOK'
    BY <1>1 DEF PrepareAudit, PcValues
  <1>2. ASSUME NEW p \in Procs, PrepareFails(p) PROVE TypeOK'
    BY <1>2 DEF PrepareFails, Fault, PcValues
  <1>3. ASSUME NEW p \in Procs, RequestWrite(p) PROVE TypeOK'
    <2>1. want' \in [Procs -> Statuses]
      BY <1>3 DEF RequestWrite, Statuses, Terminal
    <2> QED
      BY <1>3, <2>1 DEF RequestWrite, PcValues
  <1>4. ASSUME NEW p \in Procs, OpenAudit(p) PROVE TypeOK'
    BY <1>4 DEF OpenAudit, SameJournal, PcValues
  <1>5. ASSUME NEW p \in Procs, OpenAuditFails(p) PROVE TypeOK'
    <2>1. faults' \in Nat
      BY <1>5 DEF OpenAuditFails, Fault
    <2> QED
      BY <1>5, <2>1, ReturnsType DEF OpenAuditFails
  <1>6. ASSUME NEW p \in Procs, LockAudit(p) PROVE TypeOK'
    BY <1>6 DEF LockAudit, PcValues
  <1>7. ASSUME NEW p \in Procs, LockAuditFails(p) PROVE TypeOK'
    BY <1>7, ReturnsType DEF LockAuditFails
  <1>8. ASSUME NEW p \in Procs, Validate(p) PROVE TypeOK'
    <2>1. Len(content[fd[p]]) \in Nat
      BY <1>8, LenProperties DEF Validate, LocalInv, Holding
    <2> QED
      BY <1>8, <2>1 DEF Validate, PcValues
  <1>9. ASSUME NEW p \in Procs, ValidateFails(p) PROVE TypeOK'
    <2>1. faults' \in Nat
      BY <1>9 DEF ValidateFails, Fault
    <2> QED
      BY <1>9, <2>1, ReturnsType DEF ValidateFails
  <1>10. ASSUME NEW p \in Procs, AppendRecord(p) PROVE TypeOK'
    BY <1>10, RecordType DEF AppendRecord, Written, PcValues
  <1>11. ASSUME NEW p \in Procs, AppendFails(p) PROVE TypeOK'
    <2>1. faults' \in Nat
      BY <1>11 DEF AppendFails, Fault
    <2>2. content' \in [Files -> Seq(Record)] /\ torn' \in [Files -> BOOLEAN]
      BY <1>11, OutcomeType DEF AppendFails
    <2> QED
      BY <1>11, <2>1, <2>2, ReturnsType DEF AppendFails
  <1>12. ASSUME NEW p \in Procs, SyncRecord(p) PROVE TypeOK'
    <2>1. Len(content[fd[p]]) \in Nat
      BY <1>12, LenProperties DEF SyncRecord, LocalInv, Holding
    <2> QED
      BY <1>12, <2>1 DEF SyncRecord, Synchronised, PcValues
  <1>13. ASSUME NEW p \in Procs, SyncFails(p) PROVE TypeOK'
    <2>1. faults' \in Nat
      BY <1>13 DEF SyncFails, Fault
    <2> QED
      BY <1>13, <2>1, ReturnsType DEF SyncFails
  <1>14. ASSUME NEW p \in Procs, CloseAudit(p) PROVE TypeOK'
    <2>1. faults' \in Nat
      <3>1. UNCHANGED faults \/ Fault
        BY <1>14 DEF CloseAudit
      <3> QED
        BY <3>1 DEF Fault
    <2>2. Returns(p, TRUE) \/ Returns(p, FALSE)
      BY <1>14 DEF CloseAudit
    <2> QED
      BY <1>14, <2>1, <2>2, ReturnsType DEF CloseAudit
  <1>15. ASSUME NEW p \in Procs, Kill(p) PROVE TypeOK'
    <2>1. content' \in [Files -> Seq(Record)] /\ torn' \in [Files -> BOOLEAN]
      BY <1>15, OutcomeType DEF Kill
    <2>2. pc' \in [Procs -> PcValues] /\ fd' \in [Procs -> Files \cup {NoFile}] /\ kills' \in Nat
      BY <1>15 DEF Kill, PcValues
    <2> QED
      BY <1>15, <2>1, <2>2 DEF Kill
  <1>16. ASSUME NEW v \in Verifiers, VerifyOpen(v) PROVE TypeOK'
    BY <1>16 DEF VerifyOpen
  <1>17. ASSUME NEW v \in Verifiers, VerifyLock(v) PROVE TypeOK'
    BY <1>17 DEF VerifyLock
  <1>18. ASSUME NEW v \in Verifiers, VerifyCheck(v) PROVE TypeOK'
    <2>1. (IF Vouches(vfd[v]) THEN Len(content[vfd[v]]) ELSE 0) \in Nat
      BY <1>18, LenProperties DEF VerifyCheck, LocalInv
    <2> QED
      BY <1>18, <2>1 DEF VerifyCheck
  <1>19. CASE ReplaceJournal
    BY <1>19 DEF ReplaceJournal
  <1>20. CASE PowerLoss
    BY <1>20, PowerLossType DEF PowerLoss
  <1>21. CASE UNCHANGED vars
    BY <1>21 DEF vars
  <1> QED
    BY <1>1, <1>2, <1>3, <1>4, <1>5, <1>6, <1>7, <1>8, <1>9, <1>10, <1>11, <1>12, <1>13, <1>14, <1>15, <1>16, <1>17, <1>18, <1>19, <1>20, <1>21 DEF Next, Step, VerifyStep

-----------------------------------------------------------------------------
(* Local facts and the lock.                                               *)

(* The initial state satisfies the invariant: no file has a line.          *)
LEMMA LocalInit == Init => LocalInv /\ LockInv
  BY DEF Init, LocalInv, LockInv, Holding

(* Every step keeps what a process knows of itself.                        *)
LEMMA LocalStep == TypeOK /\ LocalInv /\ [Next]_vars => LocalInv'
  <1> SUFFICES ASSUME TypeOK, LocalInv, [Next]_vars PROVE LocalInv'
    OBVIOUS
  <1> USE DEF TypeOK, LocalInv, files, procs, checks, budget, Holding, Gone, Terminal
  <1>1. ASSUME NEW p \in Procs, PrepareAudit(p) PROVE LocalInv'
    BY <1>1 DEF PrepareAudit
  <1>2. ASSUME NEW p \in Procs, PrepareFails(p) PROVE LocalInv'
    BY <1>2 DEF PrepareFails
  <1>3. ASSUME NEW p \in Procs, RequestWrite(p) PROVE LocalInv'
    BY <1>3 DEF RequestWrite
  <1>4. ASSUME NEW p \in Procs, OpenAudit(p) PROVE LocalInv'
    BY <1>4 DEF OpenAudit, SameJournal
  <1>5. ASSUME NEW p \in Procs, OpenAuditFails(p) PROVE LocalInv'
    BY <1>5 DEF OpenAuditFails, Returns
  <1>6. ASSUME NEW p \in Procs, LockAudit(p) PROVE LocalInv'
    BY <1>6 DEF LockAudit
  <1>7. ASSUME NEW p \in Procs, LockAuditFails(p) PROVE LocalInv'
    BY <1>7 DEF LockAuditFails, Returns
  <1>8. ASSUME NEW p \in Procs, Validate(p) PROVE LocalInv'
    BY <1>8 DEF Validate
  <1>9. ASSUME NEW p \in Procs, ValidateFails(p) PROVE LocalInv'
    BY <1>9 DEF ValidateFails, Returns
  <1>10. ASSUME NEW p \in Procs, AppendRecord(p) PROVE LocalInv'
    BY <1>10 DEF AppendRecord
  <1>11. ASSUME NEW p \in Procs, AppendFails(p) PROVE LocalInv'
    BY <1>11 DEF AppendFails, Returns
  <1>12. ASSUME NEW p \in Procs, SyncRecord(p) PROVE LocalInv'
    BY <1>12 DEF SyncRecord
  <1>13. ASSUME NEW p \in Procs, SyncFails(p) PROVE LocalInv'
    BY <1>13 DEF SyncFails, Returns
  <1>14. ASSUME NEW p \in Procs, CloseAudit(p) PROVE LocalInv'
    <2>1. CASE Returns(p, TRUE)
      <3>1. /\ acked' = [acked EXCEPT ![p] = acked[p] \cup {want[p]}]
            /\ fd' = [fd EXCEPT ![p] = NoFile]
            /\ pc' = [pc EXCEPT ![p] = IF want[p] = "en_cours" THEN "work" ELSE "exit"]
        BY <2>1, ReturnsCases, Zenon
      <3> QED
        BY <1>14, <3>1 DEF CloseAudit
    <2>2. CASE Returns(p, FALSE)
      BY <1>14, <2>2 DEF CloseAudit, Returns
    <2> QED
      BY <1>14, <2>1, <2>2 DEF CloseAudit
  <1>15. ASSUME NEW p \in Procs, Kill(p) PROVE LocalInv'
    BY <1>15 DEF Kill
  <1>16. ASSUME NEW v \in Verifiers, VerifyOpen(v) PROVE LocalInv'
    BY <1>16 DEF VerifyOpen
  <1>17. ASSUME NEW v \in Verifiers, VerifyLock(v) PROVE LocalInv'
    BY <1>17 DEF VerifyLock
  <1>18. ASSUME NEW v \in Verifiers, VerifyCheck(v) PROVE LocalInv'
    BY <1>18 DEF VerifyCheck
  <1>19. CASE ReplaceJournal
    BY <1>19 DEF ReplaceJournal
  <1>20. CASE PowerLoss
    BY <1>20 DEF PowerLoss
  <1>21. CASE UNCHANGED vars
    BY <1>21 DEF vars
  <1> QED
    BY <1>1, <1>2, <1>3, <1>4, <1>5, <1>6, <1>7, <1>8, <1>9, <1>10, <1>11, <1>12, <1>13, <1>14, <1>15, <1>16, <1>17, <1>18, <1>19, <1>20, <1>21 DEF Next, Step, VerifyStep

(* Every step keeps the lock exclusive.                                    *)
LEMMA LockStep == TypeOK /\ LockInv /\ [Next]_vars => LockInv'
  <1> SUFFICES ASSUME TypeOK, LockInv, [Next]_vars PROVE LockInv'
    OBVIOUS
  <1> USE DEF TypeOK, LockInv, files, procs, checks, budget, Holding, Gone, ExclusiveHolder
  <1>1. ASSUME NEW p \in Procs, PrepareAudit(p) PROVE LockInv'
    BY <1>1 DEF PrepareAudit
  <1>2. ASSUME NEW p \in Procs, PrepareFails(p) PROVE LockInv'
    BY <1>2 DEF PrepareFails
  <1>3. ASSUME NEW p \in Procs, RequestWrite(p) PROVE LockInv'
    BY <1>3 DEF RequestWrite
  <1>4. ASSUME NEW p \in Procs, OpenAudit(p) PROVE LockInv'
    BY <1>4 DEF OpenAudit, SameJournal
  <1>5. ASSUME NEW p \in Procs, OpenAuditFails(p) PROVE LockInv'
    BY <1>5 DEF OpenAuditFails, Returns
  <1>6. ASSUME NEW p \in Procs, LockAudit(p) PROVE LockInv'
    BY <1>6 DEF LockAudit
  <1>7. ASSUME NEW p \in Procs, LockAuditFails(p) PROVE LockInv'
    BY <1>7 DEF LockAuditFails, Returns
  <1>8. ASSUME NEW p \in Procs, Validate(p) PROVE LockInv'
    BY <1>8 DEF Validate
  <1>9. ASSUME NEW p \in Procs, ValidateFails(p) PROVE LockInv'
    BY <1>9 DEF ValidateFails, Returns
  <1>10. ASSUME NEW p \in Procs, AppendRecord(p) PROVE LockInv'
    BY <1>10 DEF AppendRecord
  <1>11. ASSUME NEW p \in Procs, AppendFails(p) PROVE LockInv'
    BY <1>11 DEF AppendFails, Returns
  <1>12. ASSUME NEW p \in Procs, SyncRecord(p) PROVE LockInv'
    BY <1>12 DEF SyncRecord
  <1>13. ASSUME NEW p \in Procs, SyncFails(p) PROVE LockInv'
    BY <1>13 DEF SyncFails, Returns
  <1>14. ASSUME NEW p \in Procs, CloseAudit(p) PROVE LockInv'
    <2>1. CASE Returns(p, TRUE)
      <3>1. /\ acked' = [acked EXCEPT ![p] = acked[p] \cup {want[p]}]
            /\ fd' = [fd EXCEPT ![p] = NoFile]
            /\ pc' = [pc EXCEPT ![p] = IF want[p] = "en_cours" THEN "work" ELSE "exit"]
        BY <2>1, ReturnsCases, Zenon
      <3> QED
        BY <1>14, <3>1 DEF CloseAudit
    <2>2. CASE Returns(p, FALSE)
      BY <1>14, <2>2 DEF CloseAudit, Returns
    <2> QED
      BY <1>14, <2>1, <2>2 DEF CloseAudit
  <1>15. ASSUME NEW p \in Procs, Kill(p) PROVE LockInv'
    BY <1>15 DEF Kill
  <1>16. ASSUME NEW v \in Verifiers, VerifyOpen(v) PROVE LockInv'
    BY <1>16 DEF VerifyOpen
  <1>17. ASSUME NEW v \in Verifiers, VerifyLock(v) PROVE LockInv'
    BY <1>17 DEF VerifyLock
  <1>18. ASSUME NEW v \in Verifiers, VerifyCheck(v) PROVE LockInv'
    BY <1>18 DEF VerifyCheck
  <1>19. CASE ReplaceJournal
    BY <1>19 DEF ReplaceJournal
  <1>20. CASE PowerLoss
    BY <1>20 DEF PowerLoss
  <1>21. CASE UNCHANGED vars
    BY <1>21 DEF vars
  <1> QED
    BY <1>1, <1>2, <1>3, <1>4, <1>5, <1>6, <1>7, <1>8, <1>9, <1>10, <1>11, <1>12, <1>13, <1>14, <1>15, <1>16, <1>17, <1>18, <1>19, <1>20, <1>21 DEF Next, Step, VerifyStep

-----------------------------------------------------------------------------
(* The files.                                                              *)

(* No file has a line at first, and nobody owns one.                       *)
LEMMA FileInit == Init => FileInv
  <1> SUFFICES ASSUME Init PROVE FileInv
    OBVIOUS
  <1>1. ASSUME NEW f \in Files
        PROVE  ChainOk(content[f]) /\ LifecycleOk(content[f]) /\ LimitsOk(content[f])
    <2>1. content[f] = <<>> /\ Len(content[f]) = 0
      BY DEF Init
    <2>2. OperationsOf(content[f]) = {}
      BY <2>1 DEF OperationsOf
    <2>3. Cardinality(OperationsOf(content[f])) = 0
      BY <2>2, FS_EmptySet
    <2> QED
      BY <2>1, <2>3, LimitsAssumption DEF ChainOk, LifecycleOk, LimitsOk
  <1>2. JournalValid
    BY <1>1 DEF JournalValid
  <1>3. \A p \in Procs : ~Owns(p) /\ pc[p] = "start"
    BY DEF Init, Owns
  <1> QED
    BY <1>2, <1>3 DEF FileInv, AppendInv, EndedInv, OwnInv, OwnerUnique

(* A step that leaves the files alone, gives nobody an operation, and lets *)
(* nobody append that has not just validated.                              *)
Quiet ==
    /\ UNCHANGED <<content, torn>>
    /\ \A q \in Procs : Owns(q)' => Owns(q) /\ ident'[q] = ident[q] /\ op'[q] = op[q]
    /\ \A q \in Procs : pc'[q] = "append" =>
         \/ /\ pc[q] = "append"
            /\ seen'[q] = seen[q] /\ fd'[q] = fd[q] /\ op'[q] = op[q] /\ want'[q] = want[q]
         \/ /\ seen'[q] = Len(content[fd'[q]]) /\ ~torn[fd'[q]]
            /\ Accepts(content[fd'[q]], op'[q], ContextOf[q], want'[q])
    /\ \A q \in Procs : pc'[q] \in {"sync", "close"} /\ want'[q] \in Terminal =>
         pc[q] \in {"sync", "close"} /\ want'[q] = want[q] /\ fd'[q] = fd[q]

(* Such a step keeps the file invariant.                                   *)
LEMMA QuietStep == FileInv /\ Quiet => FileInv'
  <1> SUFFICES ASSUME FileInv, Quiet PROVE FileInv'
    OBVIOUS
  <1>1. content' = content /\ torn' = torn
    BY DEF Quiet
  <1>2. JournalValid'
    BY <1>1 DEF FileInv, JournalValid
  <1>3. AppendInv'
    BY <1>1 DEF FileInv, AppendInv, Quiet, Acceptable
  <1>4. EndedInv'
    BY <1>1 DEF FileInv, EndedInv, Quiet
  <1>5. \A q \in Procs : Owns(q)' => Owns(q) /\ ident'[q] = ident[q] /\ op'[q] = op[q]
    BY DEF Quiet
  <1>6. OwnInv'
    BY <1>1, <1>5 DEF FileInv, OwnInv
  <1>7. OwnerUnique'
    BY <1>5 DEF FileInv, OwnerUnique
  <1> QED
    BY <1>2, <1>3, <1>4, <1>6, <1>7 DEF FileInv

(* Nobody owns the journal that another process is about to extend: a      *)
(* fresh record was accepted because nothing is open in it, a terminal     *)
(* record because the writer is the owner itself.                          *)
LEMMA WriterAlone ==
    ASSUME TypeOK, LocalInv, FileInv,
           NEW p \in Procs, pc[p] = "append", NEW q \in Procs, q # p, Owns(q)
    PROVE  ident[q] # fd[p]
  <1> SUFFICES ASSUME ident[q] = fd[p] PROVE FALSE
    OBVIOUS
  <1>1. Active(content[fd[p]]) = {op[q]}
    BY DEF FileInv, OwnInv
  <1>2. Accepts(content[fd[p]], op[p], ContextOf[p], want[p])
    BY DEF FileInv, AppendInv, Acceptable
  <1>3. want[p] \in Terminal
    BY <1>1, <1>2 DEF Accepts, FreshAllowed
  <1>4. Owns(p) /\ ident[p] = fd[p]
    BY <1>3 DEF LocalInv, Holding, Owns
  <1> QED
    BY <1>4 DEF FileInv, OwnerUnique

(* What an append does to the variables of the processes: the writer goes  *)
(* on to synchronise, or is gone; the others stand still.                  *)
WriterMoves(p) ==
    /\ pc[p] = "append"
    /\ UNCHANGED <<op, ident, want, seen, acked>>
    /\ \A q \in Procs \ {p} : pc'[q] = pc[q] /\ fd'[q] = fd[q]
    /\ \/ pc'[p] = "sync" /\ fd'[p] = fd[p]
       \/ pc'[p] \in Gone

(* Appending the accepted record keeps the file invariant.                 *)
LEMMA WrittenStep ==
    ASSUME TypeOK, LocalInv, LockInv, FileInv,
           NEW p \in Procs, WriterMoves(p), Written(p), torn' = torn
    PROVE  FileInv'
  <1> DEFINE s == content[fd[p]]
             r == RecordOf(p)
             c == ContextOf[p]
  <1>1. pc[p] = "append" /\ fd[p] \in Files /\ ident[p] = fd[p]
    BY DEF WriterMoves, LocalInv, Holding
  <1>2. Accepts(s, op[p], c, want[p]) /\ seen[p] = Len(s) /\ ~torn[fd[p]]
    BY <1>1 DEF FileInv, AppendInv, Acceptable
  <1>3. s \in Seq(Record) /\ r \in Record /\ Len(s) \in Nat
    BY <1>1, RecordType, LenProperties DEF TypeOK
  <1>4. r.op = op[p] /\ r.ctx = c /\ r.status = want[p] /\ r.prev = Len(s) /\ want[p] \in Statuses
    BY <1>2 DEF RecordOf, TypeOK
  <1>5. /\ ChainOk(Append(s, r)) /\ LifecycleOk(Append(s, r)) /\ LimitsOk(Append(s, r))
        /\ Active(Append(s, r)) = IF want[p] = "en_cours" THEN {op[p]} ELSE {}
    <2>1. Accepts(s, r.op, r.ctx, r.status) /\ r.status \in Statuses /\ r.prev = Len(s)
      BY <1>2, <1>4
    <2> QED
      BY <1>3, <1>4, <2>1, AcceptedExtends
  <1>6. /\ Len(Append(s, r)) = Len(s) + 1
        /\ Append(s, r)[Len(s) + 1] = r
        /\ \A i \in 1..Len(s) : Append(s, r)[i] = s[i]
    BY <1>3, AppendProperties
  <1>7. content'[fd[p]] = Append(s, r) /\ \A f \in Files \ {fd[p]} : content'[f] = content[f]
    BY <1>1 DEF Written, TypeOK
  <1> HIDE DEF s, r, c
  <1>8. ASSUME NEW q \in Procs, q # p, pc[q] \in Holding PROVE fd[q] # fd[p] /\ fd[q] \in Files
    BY <1>1, <1>8 DEF LockInv, LocalInv, Holding
  <1>9. ASSUME NEW q \in Procs, q # p, Owns(q)'
        PROVE  Owns(q) /\ ident[q] # fd[p] /\ ident[q] \in Files
    <2>1. Owns(q)
      BY <1>9 DEF WriterMoves, Owns
    <2> QED
      BY <1>1, <1>9, <2>1, WriterAlone DEF FileInv, OwnInv
  <1>10. ASSUME Owns(p)' PROVE want[p] = "en_cours"
    BY <1>10 DEF WriterMoves, Owns, Gone
  <1>11. JournalValid'
    BY <1>5, <1>7 DEF FileInv, JournalValid
  <1>12. AppendInv'
    <2> SUFFICES ASSUME NEW q \in Procs, pc'[q] = "append"
                 PROVE  seen'[q] = Len(content'[fd'[q]]) /\ Acceptable(q)'
      BY DEF AppendInv
    <2>1. q # p /\ pc[q] = "append" /\ fd'[q] = fd[q]
      BY DEF WriterMoves, Gone
    <2>2. content'[fd[q]] = content[fd[q]]
      BY <1>7, <1>8, <2>1 DEF Holding
    <2> QED
      BY <2>1, <2>2 DEF FileInv, AppendInv, Acceptable, WriterMoves
  <1>13. EndedInv'
    <2> SUFFICES ASSUME NEW q \in Procs, pc'[q] \in {"sync", "close"}, want'[q] \in Terminal
                 PROVE  Active(content'[fd'[q]]) = {}
      BY DEF EndedInv
    <2>1. CASE q = p
      BY <1>5, <1>7, <2>1 DEF WriterMoves, Gone, Terminal
    <2>2. CASE q # p
      <3>1. pc[q] \in {"sync", "close"} /\ fd'[q] = fd[q] /\ want[q] \in Terminal
        BY <2>2 DEF WriterMoves
      <3>2. content'[fd[q]] = content[fd[q]]
        BY <1>7, <1>8, <2>2, <3>1 DEF Holding
      <3> QED
        BY <3>1, <3>2 DEF FileInv, EndedInv
    <2> QED
      BY <2>1, <2>2
  <1>14. OwnInv'
    <2> SUFFICES ASSUME NEW q \in Procs, Owns(q)'
                 PROVE  (/\ ident[q] \in Files
                         /\ Active(content[ident[q]]) = {op[q]}
                         /\ ~torn[ident[q]]
                         /\ Len(content[ident[q]]) <= MaxRecords - 1
                         /\ \A i \in 1..Len(content[ident[q]]) :
                              content[ident[q]][i].op = op[q]
                                => content[ident[q]][i].ctx = ContextOf[q])'
      BY DEF OwnInv
    <2>1. ident'[q] = ident[q] /\ op'[q] = op[q]
      BY DEF WriterMoves
    <2>2. CASE q # p
      BY <1>7, <1>9, <2>1, <2>2 DEF FileInv, OwnInv
    <2>3. CASE q = p
      <3>1. want[p] = "en_cours"
        BY <1>10, <2>3
      <3>2. op[p] \notin OperationsOf(s) /\ Len(s) <= MaxRecords - 2
        BY <1>2, <3>1 DEF Accepts, FreshAllowed, HasRoom, Terminal
      <3>3. \A i \in 1..(Len(s) + 1) : Append(s, r)[i].op = op[p] => Append(s, r)[i].ctx = c
        BY <1>3, <1>4, <1>6, <3>2 DEF OperationsOf
      <3>4. Len(Append(s, r)) <= MaxRecords - 1
        BY <1>3, <1>6, <3>2, LimitsAssumption
      <3>5. content'[ident'[q]] = Append(s, r) /\ ident'[q] = fd[p] /\ op'[q] = op[p]
        BY <1>1, <1>7, <2>1, <2>3
      <3>6. ~torn'[ident'[q]]
        BY <1>2, <3>5
      <3>7. Active(content'[ident'[q]]) = {op'[q]}
        BY <1>5, <3>1, <3>5
      <3>8. \A i \in 1..Len(content'[ident'[q]]) :
              content'[ident'[q]][i].op = op'[q] => content'[ident'[q]][i].ctx = ContextOf[q]
        BY <1>6, <2>3, <3>3, <3>5 DEF c
      <3> QED
        BY <1>1, <3>4, <3>5, <3>6, <3>7, <3>8
    <2> QED
      BY <2>2, <2>3
  <1>15. OwnerUnique'
    <2> SUFFICES ASSUME NEW q1 \in Procs, NEW q2 \in Procs, Owns(q1)', Owns(q2)',
                        ident[q1] = ident[q2]
                 PROVE  q1 = q2
      BY DEF OwnerUnique, WriterMoves
    <2> QED
      BY <1>1, <1>9 DEF FileInv, OwnerUnique
  <1> QED
    BY <1>11, <1>12, <1>13, <1>14, <1>15 DEF FileInv

(* A half-written line leaves a file that nobody owns.                     *)
LEMMA TornStep ==
    ASSUME TypeOK, LocalInv, LockInv, FileInv,
           NEW p \in Procs, WriterMoves(p), pc'[p] \in Gone, content' = content,
           torn' = [torn EXCEPT ![fd[p]] = TRUE]
    PROVE  FileInv'
  <1>1. pc[p] = "append" /\ fd[p] \in Files
    BY DEF WriterMoves, LocalInv, Holding
  <1>2. \A f : f # fd[p] => torn'[f] = torn[f]
    BY DEF TypeOK
  <1>3. \A q \in Procs : Owns(q)' => Owns(q) /\ q # p
    BY DEF WriterMoves, Owns, Gone
  <1>4. JournalValid'
    BY DEF FileInv, JournalValid
  <1>5. AppendInv'
    <2> SUFFICES ASSUME NEW q \in Procs, pc'[q] = "append"
                 PROVE  seen'[q] = Len(content'[fd'[q]]) /\ Acceptable(q)'
      BY DEF AppendInv
    <2>1. q # p /\ pc[q] = "append" /\ fd'[q] = fd[q]
      BY DEF WriterMoves, Gone
    <2>2. torn'[fd[q]] = torn[fd[q]]
      BY <1>1, <1>2, <2>1 DEF LockInv, Holding
    <2> QED
      BY <2>1, <2>2 DEF FileInv, AppendInv, Acceptable, WriterMoves
  <1>6. EndedInv'
    BY DEF FileInv, EndedInv, WriterMoves, Gone
  <1>7. OwnInv'
    <2>1. ASSUME NEW q \in Procs, Owns(q)' PROVE ~torn'[ident[q]]
      <3>1. Owns(q) /\ ident[q] # fd[p]
        BY <1>1, <1>3, <2>1, WriterAlone
      <3>2. ~torn[ident[q]]
        BY <3>1 DEF FileInv, OwnInv
      <3> QED
        BY <1>2, <3>1, <3>2
    <2>2. ident' = ident /\ op' = op
      BY DEF WriterMoves
    <2> QED
      BY <1>3, <2>1, <2>2 DEF FileInv, OwnInv
  <1>8. OwnerUnique'
    BY <1>3 DEF FileInv, OwnerUnique, WriterMoves
  <1> QED
    BY <1>4, <1>5, <1>6, <1>7, <1>8 DEF FileInv

(* A power loss ends every process and shortens the files.                 *)
LEMMA PowerLossStep == TypeOK /\ FileInv /\ PowerLoss => FileInv'
  <1> SUFFICES ASSUME TypeOK, FileInv, PowerLoss PROVE FileInv'
    OBVIOUS
  <1>1. PICK kept \in [Files -> 0..MaxRecords], broken \in [Files -> BOOLEAN] :
           /\ \A f \in Files : SurvivesPowerLoss(f, kept[f], broken[f])
           /\ content' = [f \in Files |-> SubSeq(content[f], 1, kept[f])]
    BY DEF PowerLoss
  <1>2. ASSUME NEW f \in Files
        PROVE  ChainOk(content'[f]) /\ LifecycleOk(content'[f]) /\ LimitsOk(content'[f])
    <2>1. content[f] \in Seq(Record) /\ Len(content[f]) \in Nat /\ synced[f] \in Nat
      BY LenProperties DEF TypeOK
    <2>2. kept[f] \in 0..Len(content[f])
      BY <1>1, <2>1 DEF SurvivesPowerLoss
    <2>3. ChainOk(content[f]) /\ LifecycleOk(content[f]) /\ LimitsOk(content[f])
      BY DEF FileInv, JournalValid
    <2> QED
      BY <1>1, <2>1, <2>2, <2>3, PrefixWellFormed
  <1>3. \A q \in Procs : pc'[q] \in {"start"} \cup Gone
    BY DEF PowerLoss, Gone
  <1>4. \A q \in Procs : ~Owns(q)'
    BY <1>3 DEF Owns, Gone
  <1> QED
    BY <1>2, <1>3, <1>4 DEF FileInv, JournalValid, AppendInv, EndedInv, OwnInv, OwnerUnique, Gone

(* Every step keeps the file invariant.                                    *)
LEMMA FileStep == TypeOK /\ LocalInv /\ LockInv /\ FileInv /\ [Next]_vars => FileInv'
  <1> SUFFICES ASSUME TypeOK, LocalInv, LockInv, FileInv, [Next]_vars PROVE FileInv'
    OBVIOUS
  <1>1. ASSUME NEW p \in Procs, PrepareAudit(p) PROVE Quiet
    BY <1>1 DEF PrepareAudit, Quiet, Owns, TypeOK, LocalInv, Holding, Terminal, files
  <1>2. ASSUME NEW p \in Procs, PrepareFails(p) PROVE Quiet
    BY <1>2 DEF PrepareFails, Quiet, Owns, TypeOK, LocalInv, Holding, Terminal, files
  <1>3. ASSUME NEW p \in Procs, RequestWrite(p) PROVE Quiet
    BY <1>3 DEF RequestWrite, Quiet, Owns, TypeOK, LocalInv, Holding, Terminal, files
  <1>4. ASSUME NEW p \in Procs, OpenAudit(p) PROVE Quiet
    BY <1>4 DEF OpenAudit, SameJournal, Quiet, Owns, TypeOK, LocalInv, Holding, Terminal, files
  <1>5. ASSUME NEW p \in Procs, OpenAuditFails(p) PROVE Quiet
    <2>1. /\ pc' = [pc EXCEPT ![p] = "exit"] /\ fd' = [fd EXCEPT ![p] = NoFile]
          /\ UNCHANGED <<content, torn, op, ident, want, seen, acked>>
      BY <1>5, ReturnsCases DEF OpenAuditFails, files
    <2> QED
      BY <2>1 DEF Quiet, Owns, TypeOK
  <1>6. ASSUME NEW p \in Procs, LockAudit(p) PROVE Quiet
    <2>1. "en_cours" \in acked[p] => ident[p] = fd[p]
      BY <1>6, JournalAssumption, OperationAssumption DEF LockAudit, LocalInv
    <2> QED
      BY <1>6, <2>1 DEF LockAudit, Quiet, Owns, TypeOK, Terminal, files
  <1>7. ASSUME NEW p \in Procs, LockAuditFails(p) PROVE Quiet
    <2>1. /\ pc' = [pc EXCEPT ![p] = "exit"] /\ fd' = [fd EXCEPT ![p] = NoFile]
          /\ UNCHANGED <<content, torn, op, ident, want, seen, acked>>
      BY <1>7, ReturnsCases DEF LockAuditFails, files
    <2> QED
      BY <2>1 DEF Quiet, Owns, TypeOK
  <1>8. ASSUME NEW p \in Procs, Validate(p) PROVE Quiet
    BY <1>8 DEF Validate, Acceptable, Quiet, Owns, TypeOK, LocalInv, Holding, Terminal, files
  <1>9. ASSUME NEW p \in Procs, ValidateFails(p) PROVE Quiet
    <2>1. /\ pc' = [pc EXCEPT ![p] = "exit"] /\ fd' = [fd EXCEPT ![p] = NoFile]
          /\ UNCHANGED <<content, torn, op, ident, want, seen, acked>>
      BY <1>9, ReturnsCases DEF ValidateFails, files
    <2> QED
      BY <2>1 DEF Quiet, Owns, TypeOK
  <1>10. ASSUME NEW p \in Procs, SyncRecord(p) PROVE Quiet
    BY <1>10 DEF SyncRecord, Quiet, Owns, TypeOK, LocalInv, Holding, Terminal, files
  <1>11. ASSUME NEW p \in Procs, SyncFails(p) PROVE Quiet
    <2>1. /\ pc' = [pc EXCEPT ![p] = "exit"] /\ fd' = [fd EXCEPT ![p] = NoFile]
          /\ UNCHANGED <<content, torn, op, ident, want, seen, acked>>
      BY <1>11, ReturnsCases DEF SyncFails, files
    <2> QED
      BY <2>1 DEF Quiet, Owns, TypeOK
  <1>12. ASSUME NEW p \in Procs, CloseAudit(p) PROVE Quiet
    <2>1. CASE Returns(p, TRUE)
      <3>1. /\ acked' = [acked EXCEPT ![p] = acked[p] \cup {want[p]}]
            /\ fd' = [fd EXCEPT ![p] = NoFile]
            /\ pc' = [pc EXCEPT ![p] = IF want[p] = "en_cours" THEN "work" ELSE "exit"]
        BY <2>1, ReturnsCases, Zenon
      <3> QED
        BY <1>12, <3>1 DEF CloseAudit, Quiet, Owns, TypeOK, files
    <2>2. CASE Returns(p, FALSE)
      <3>1. pc' = [pc EXCEPT ![p] = "exit"] /\ acked' = acked /\ fd' = [fd EXCEPT ![p] = NoFile]
        BY <2>2, ReturnsCases
      <3> QED
        BY <1>12, <3>1 DEF CloseAudit, Quiet, Owns, TypeOK, files
    <2> QED
      BY <1>12, <2>1, <2>2 DEF CloseAudit
  <1>13. ASSUME NEW p \in Procs, AppendRecord(p) PROVE FileInv'
    <2>1. WriterMoves(p) /\ Written(p) /\ torn' = torn
      BY <1>13 DEF AppendRecord, WriterMoves, TypeOK
    <2> QED
      BY <2>1, WrittenStep
  <1>14. ASSUME NEW p \in Procs, WriterMoves(p), AppendOutcome(p), pc'[p] \in Gone PROVE FileInv'
    <2>1. CASE UNCHANGED <<content, torn>>
      <3>1. Quiet
        BY <1>14, <2>1 DEF Quiet, WriterMoves, Owns, Gone
      <3> QED
        BY <3>1, QuietStep
    <2>2. CASE torn' = [torn EXCEPT ![fd[p]] = TRUE] /\ UNCHANGED content
      BY <1>14, <2>2, TornStep
    <2>3. CASE Written(p) /\ UNCHANGED torn
      BY <1>14, <2>3, WrittenStep
    <2> QED
      BY <1>14, <2>1, <2>2, <2>3 DEF AppendOutcome
  <1>15. ASSUME NEW p \in Procs, AppendFails(p) PROVE FileInv'
    <2>1. /\ pc' = [pc EXCEPT ![p] = "exit"] /\ acked' = acked /\ fd' = [fd EXCEPT ![p] = NoFile]
      BY <1>15, ReturnsCases DEF AppendFails
    <2>2. WriterMoves(p) /\ pc'[p] \in Gone
      BY <1>15, <2>1 DEF AppendFails, WriterMoves, Gone, TypeOK
    <2> QED
      BY <1>14, <1>15, <2>2 DEF AppendFails
  <1>16. ASSUME NEW p \in Procs, Kill(p) PROVE FileInv'
    <2>1. pc' = [pc EXCEPT ![p] = "dead"] /\ fd' = [fd EXCEPT ![p] = NoFile]
          /\ UNCHANGED <<op, ident, want, seen, acked>>
      BY <1>16 DEF Kill
    <2>2. CASE pc[p] = "append"
      <3>1. WriterMoves(p) /\ pc'[p] \in Gone
        BY <2>1, <2>2 DEF WriterMoves, Gone, TypeOK
      <3>2. AppendOutcome(p)
        BY <1>16, <2>2 DEF Kill
      <3> QED
        BY <1>14, <3>1, <3>2
    <2>3. CASE pc[p] # "append"
      <3>1. content' = content /\ torn' = torn
        BY <1>16, <2>3 DEF Kill
      <3>2. Quiet
        BY <2>1, <3>1 DEF Quiet, Owns, TypeOK
      <3> QED
        BY <3>2, QuietStep
    <2> QED
      BY <2>2, <2>3
  <1>17. ASSUME NEW v \in Verifiers, VerifyStep(v) PROVE Quiet
    BY <1>17 DEF VerifyStep, VerifyOpen, VerifyLock, VerifyCheck, Quiet, Owns, files, procs
  <1>18. CASE ReplaceJournal
    BY <1>18, QuietStep DEF ReplaceJournal, Quiet, Owns, files, procs
  <1>19. CASE PowerLoss
    BY <1>19, PowerLossStep
  <1>20. CASE UNCHANGED vars
    BY <1>20, QuietStep DEF vars, Quiet, Owns, files, procs
  <1> QED
    BY QuietStep, <1>1, <1>2, <1>3, <1>4, <1>5, <1>6, <1>7, <1>8, <1>9, <1>10, <1>11, <1>12, <1>13, <1>14, <1>15, <1>16, <1>17, <1>18, <1>19, <1>20 DEF Next, Step

-----------------------------------------------------------------------------
(* The invariant, and what it gives.                                       *)

(* JournalInv holds in every reachable state: it is inductive.             *)
THEOREM JournalInvariant == Spec => []JournalInv
  <1>1. Init => JournalInv
    BY TypeInit, LocalInit, FileInit DEF JournalInv
  <1>2. JournalInv /\ [Next]_vars => JournalInv'
    BY TypeStep, LocalStep, LockStep, FileStep DEF JournalInv
  <1> QED
    BY <1>1, <1>2, PTL DEF Spec

(* Every variable of the journal protocol keeps its type.                  *)
THEOREM JournalTypeOK == Spec => []TypeOK
  <1>1. JournalInv => TypeOK
    BY DEF JournalInv
  <1> QED
    BY <1>1, JournalInvariant, PTL

(* The complete lines of a journal always form a valid journal, whatever   *)
(* runs interleave, fail, are killed or lose power: the promise of the     *)
(* lock that dfx_write_audit holds from its validation to its append.      *)
THEOREM JournalAlwaysValid == Spec => []JournalValid
  <1>1. JournalInv => JournalValid
    BY DEF JournalInv, FileInv
  <1> QED
    BY <1>1, JournalInvariant, PTL

(* Two runs that share a journal file are never at work together, although *)
(* nobody holds the lock while a run works.                                *)
THEOREM WorkAlwaysExclusive == Spec => []WorkExclusive
  <1>1. JournalInv => WorkExclusive
    <2> SUFFICES ASSUME JournalInv, NEW p \in Procs, NEW q \in Procs,
                        InOperation(p), InOperation(q), ident[p] = ident[q], p # q
                 PROVE  FALSE
      BY DEF WorkExclusive
    <2> USE DEF JournalInv
    (* A run in operation owns its file, or holds the lock on it behind its *)
    (* terminal record.                                                    *)
    <2>1. ASSUME NEW r \in Procs, InOperation(r)
          PROVE  \/ Owns(r)
                 \/ pc[r] \in Holding /\ fd[r] = ident[r] /\ Active(content[ident[r]]) = {}
      <3>1. "en_cours" \in acked[r] /\ pc[r] \in PcValues \ Gone
        BY <2>1 DEF InOperation, TypeOK
      <3>2. CASE pc[r] \in {"work", "open", "lock", "validate", "append"}
        BY <3>1, <3>2 DEF Owns
      <3>3. CASE pc[r] \in {"sync", "close"}
        <4>1. want[r] \in Terminal /\ fd[r] = ident[r]
          BY <3>1, <3>3 DEF LocalInv, Holding
        <4> QED
          BY <3>3, <4>1 DEF FileInv, EndedInv, Holding
      <3> QED
        BY <3>1, <3>2, <3>3 DEF PcValues, Gone, LocalInv
    <2>2. ASSUME NEW r \in Procs, Owns(r) PROVE Active(content[ident[r]]) # {}
      BY <2>2 DEF FileInv, OwnInv
    <2>3. CASE Owns(p) /\ Owns(q)
      BY <2>3 DEF FileInv, OwnerUnique
    <2>4. CASE ~Owns(p) /\ ~Owns(q)
      BY <2>1, <2>4 DEF LockInv
    <2> QED
      BY <2>1, <2>2, <2>3, <2>4
  <1> QED
    BY <1>1, JournalInvariant, PTL

(* A run whose start was accepted finds its journal ready for whatever     *)
(* outcome it has to record.                                               *)
THEOREM TerminalAlwaysReserved == Spec => []TerminalReserved
  <1>1. JournalInv => TerminalReserved
    <2> SUFFICES ASSUME JournalInv, NEW p \in Procs, InOperation(p), Owns(p)
                 PROVE  /\ ~torn[ident[p]]
                        /\ \A w \in Terminal :
                             Accepts(content[ident[p]], op[p], ContextOf[p], w)
      BY DEF TerminalReserved
    <2> DEFINE s == content[ident[p]]
    <2>1. /\ ident[p] \in Files /\ Active(s) = {op[p]} /\ ~torn[ident[p]]
          /\ Len(s) <= MaxRecords - 1
          /\ \A i \in 1..Len(s) : s[i].op = op[p] => s[i].ctx = ContextOf[p]
      BY DEF JournalInv, FileInv, OwnInv
    <2>2. ChainOk(s) /\ LifecycleOk(s) /\ LimitsOk(s)
      BY <2>1 DEF JournalInv, FileInv, JournalValid
    <2> HIDE DEF s
    <2>3. ASSUME NEW w \in Terminal PROVE Accepts(s, op[p], ContextOf[p], w)
      BY <2>1, <2>2 DEF Accepts, TerminalAllowed, HasRoom, Terminal
    <2> QED
      BY <2>1, <2>3 DEF s
  <1> QED
    BY <1>1, JournalInvariant, PTL

-----------------------------------------------------------------------------
(* The history.  The argument is in two lemmas about one step: FilesStep   *)
(* says what it can do to a file (keep it, add the line of a process that  *)
(* holds the lock, or cut lines that were not synchronised), ProcsStep     *)
(* what it can do to a process.                                            *)

(* Line i of f is the record of status w that process p wrote.             *)
RecordAt(f, i, p, w) ==
    content[f][i].by = p /\ content[f][i].op = op[p] /\ content[f][i].status = w

SyncedInv == \A f \in Files : synced[f] <= Len(content[f])

(* Where the line a process has written, or was told of, is to be found.   *)
PlacedInv == \A p \in Procs :
    /\ pc[p] = "sync" => \E i \in 1..Len(content[fd[p]]) : RecordAt(fd[p], i, p, want[p])
    /\ pc[p] = "close" => \E i \in 1..synced[fd[p]] : RecordAt(fd[p], i, p, want[p])
    /\ \A w \in acked[p] :
         ident[p] \in Files /\ \E i \in 1..synced[ident[p]] : RecordAt(ident[p], i, p, w)

(* A line's writer remembers the line's file.                              *)
OriginInv ==
    \A f \in Files : \A i \in 1..Len(content[f]) : ident[content[f][i].by] = f

(* What a process was told, by its place, and what it says when it ends.   *)
AckInv == \A p \in Procs :
    /\ pc[p] \in {"start", "decide"} => acked[p] = {}
    /\ pc[p] \in {"open", "lock"} \cup Holding =>
         acked[p] = IF want[p] \in Terminal THEN {"en_cours"} ELSE {}
    /\ pc[p] = "work" => acked[p] = {"en_cours"}
    /\ pc[p] # "exit" => code[p] = -1

(* Behind the lines a verifier vouched for, nothing belongs to one of them.*)
VouchedInv == \A v \in Verifiers : verdict[v] > 0 =>
    /\ vpc[v] = "exit" /\ vfd[v] \in Files
    /\ losses = 0 =>
         /\ verdict[v] <= Len(content[vfd[v]])
         /\ ActiveAt(content[vfd[v]], verdict[v] + 1) = {}
         /\ \A i \in 1..verdict[v], j \in (verdict[v] + 1)..Len(content[vfd[v]]) :
              content[vfd[v]][i].op # content[vfd[v]][j].op

HistoryInv ==
    /\ JournalInv /\ SyncedInv /\ PlacedInv /\ OriginInv
    /\ AckInv /\ ExitCodeBacked /\ VouchedInv

-----------------------------------------------------------------------------
(* What one step can do to file f: keep its lines (and synchronise them),  *)
(* add the line of the process that holds its lock, or lose lines.         *)
Kept(f) ==
    /\ content'[f] = content[f]
    /\ synced'[f] \in {synced[f], Len(content[f])}

Grown(f) ==
    /\ \E p \in Procs : /\ pc[p] = "append" /\ fd[p] = f
                        /\ content'[f] = Append(content[f], RecordOf(p))
    /\ synced'[f] = synced[f]

Cut(f) ==
    /\ losses' = losses + 1
    /\ \E k \in synced[f]..Len(content[f]) : content'[f] = SubSeq(content[f], 1, k)
    /\ synced'[f] = synced[f]

(* What one step can do to process p.                                      *)
Still(p) == fd'[p] = fd[p] /\ op'[p] = op[p] /\ want'[p] = want[p] /\ losses' = losses

ProcMoves(p) ==
    /\ ident'[p] # ident[p] => ident[p] = NoFile
    /\ op'[p] # op[p] => pc[p] = "start"
    /\ pc'[p] = "sync" => AppendRecord(p) \/ (pc[p] = "sync" /\ Still(p))
    /\ pc'[p] = "close" => SyncRecord(p) \/ (pc[p] = "close" /\ Still(p))
    /\ acked'[p] # acked[p] =>
         /\ pc[p] = "close" /\ acked'[p] = acked[p] \cup {want[p]}
         /\ ident'[p] = ident[p] /\ op'[p] = op[p] /\ UNCHANGED files

-----------------------------------------------------------------------------
(* An append by p, whole, in part or not at all.                           *)
LEMMA OutcomeFiles ==
    ASSUME TypeOK, LocalInv, NEW p \in Procs,
           (pc[p] = "append" /\ AppendOutcome(p)) \/ UNCHANGED <<content, torn>>,
           synced' = synced
    PROVE  \A f \in Files : Kept(f) \/ Grown(f)
  <1>1. CASE UNCHANGED <<content, torn>>
    BY <1>1 DEF Kept
  <1>2. CASE pc[p] = "append" /\ UNCHANGED content
    BY <1>2 DEF Kept
  <1>3. CASE pc[p] = "append" /\ Written(p)
    <2>1. content' = [content EXCEPT ![fd[p]] = Append(content[fd[p]], RecordOf(p))]
      BY <1>3 DEF Written
    <2> QED
      BY <1>3, <2>1 DEF TypeOK, Kept, Grown
  <1> QED
    BY <1>1, <1>2, <1>3 DEF AppendOutcome

(* A power loss cuts files behind what was synchronised.                   *)
LEMMA PowerLossFiles == ASSUME TypeOK, PowerLoss PROVE \A f \in Files : Cut(f)
  <1>1. PICK kept \in [Files -> 0..MaxRecords], broken \in [Files -> BOOLEAN] :
           /\ \A f \in Files : SurvivesPowerLoss(f, kept[f], broken[f])
           /\ content' = [f \in Files |-> SubSeq(content[f], 1, kept[f])]
    BY DEF PowerLoss
  <1> QED
    BY <1>1 DEF PowerLoss, SurvivesPowerLoss, Cut

(* What any step does to the files.                                        *)
LEMMA FilesStep ==
    ASSUME TypeOK, LocalInv, [Next]_vars
    PROVE  (\A f \in Files : Kept(f) \/ Grown(f)) \/ (\A f \in Files : Cut(f))
  <1> DEFINE Added == \A f \in Files : Kept(f) \/ Grown(f)
  <1>1. ASSUME NEW p \in Procs, PrepareAudit(p) PROVE Added
    BY <1>1 DEF PrepareAudit, Kept, files
  <1>2. ASSUME NEW p \in Procs, PrepareFails(p) PROVE Added
    BY <1>2 DEF PrepareFails, Kept, files
  <1>3. ASSUME NEW p \in Procs, RequestWrite(p) PROVE Added
    BY <1>3 DEF RequestWrite, Kept, files
  <1>4. ASSUME NEW p \in Procs, OpenAudit(p) \/ OpenAuditFails(p) PROVE Added
    BY <1>4 DEF OpenAudit, OpenAuditFails, Kept, files
  <1>5. ASSUME NEW p \in Procs, LockAudit(p) \/ LockAuditFails(p) PROVE Added
    BY <1>5 DEF LockAudit, LockAuditFails, Kept, files
  <1>6. ASSUME NEW p \in Procs, Validate(p) \/ ValidateFails(p) PROVE Added
    BY <1>6 DEF Validate, ValidateFails, Kept, files
  <1>7. ASSUME NEW p \in Procs, AppendRecord(p) PROVE Added
    BY <1>7, OutcomeFiles DEF AppendRecord, AppendOutcome
  <1>8. ASSUME NEW p \in Procs, AppendFails(p) PROVE Added
    BY <1>8, OutcomeFiles DEF AppendFails
  <1>9. ASSUME NEW p \in Procs, SyncRecord(p) PROVE Added
    BY <1>9 DEF SyncRecord, Synchronised, TypeOK, Kept
  <1>10. ASSUME NEW p \in Procs, SyncFails(p) \/ CloseAudit(p) PROVE Added
    BY <1>10 DEF SyncFails, CloseAudit, Kept, files
  <1>11. ASSUME NEW p \in Procs, Kill(p) PROVE Added
    BY <1>11, OutcomeFiles DEF Kill
  <1>12. ASSUME NEW v \in Verifiers, VerifyStep(v) PROVE Added
    BY <1>12 DEF VerifyStep, VerifyOpen, VerifyLock, VerifyCheck, Kept, files
  <1>13. CASE ReplaceJournal \/ UNCHANGED vars
    BY <1>13 DEF ReplaceJournal, Kept, files, vars
  <1>14. CASE PowerLoss
    BY <1>14, PowerLossFiles
  <1> QED
    BY <1>1, <1>2, <1>3, <1>4, <1>5, <1>6, <1>7, <1>8, <1>9, <1>10, <1>11, <1>12, <1>13, <1>14 DEF Next, Step

(* A step that leaves p's place in the journal alone.                      *)
LEMMA ProcStill ==
    ASSUME NEW p \in Procs, op'[p] = op[p] \/ pc[p] = "start", ident'[p] = ident[p], acked'[p] = acked[p],
           \/ pc'[p] \notin {"sync", "close"}
           \/ pc'[p] = pc[p] /\ Still(p)
    PROVE  ProcMoves(p)
  BY DEF ProcMoves

(* What any step does to each process.                                     *)
LEMMA ProcsStep ==
    ASSUME TypeOK, LocalInv, [Next]_vars, NEW q \in Procs
    PROVE  ProcMoves(q)
  <1> USE DEF files, procs, checks, budget
  <1>1. ASSUME NEW p \in Procs, PrepareAudit(p) PROVE ProcMoves(q)
    BY <1>1, ProcStill DEF PrepareAudit, Still, TypeOK
  <1>2. ASSUME NEW p \in Procs, PrepareFails(p) PROVE ProcMoves(q)
    BY <1>2, ProcStill DEF PrepareFails, Still, TypeOK
  <1>3. ASSUME NEW p \in Procs, RequestWrite(p) PROVE ProcMoves(q)
    BY <1>3, ProcStill DEF RequestWrite, Still, TypeOK
  <1>4. ASSUME NEW p \in Procs, OpenAudit(p) PROVE ProcMoves(q)
    BY <1>4, ProcStill DEF OpenAudit, Still, TypeOK
  <1>5. ASSUME NEW p \in Procs, LockAudit(p) PROVE ProcMoves(q)
    BY <1>5 DEF LockAudit, ProcMoves, Still, TypeOK, LocalInv
  <1>6. ASSUME NEW p \in Procs, Validate(p) PROVE ProcMoves(q)
    BY <1>6, ProcStill DEF Validate, Still, TypeOK
  <1>7. ASSUME NEW p \in Procs, UNCHANGED <<op, ident, want, losses>>, Returns(p, FALSE)
        PROVE  ProcMoves(q)
    <2>1. pc' = [pc EXCEPT ![p] = "exit"] /\ acked' = acked /\ fd' = [fd EXCEPT ![p] = NoFile]
      BY <1>7, ReturnsCases
    <2> QED
      BY <1>7, <2>1, ProcStill DEF Still, TypeOK
  <1>8. ASSUME NEW p \in Procs,
               \/ OpenAuditFails(p) \/ LockAuditFails(p) \/ ValidateFails(p)
               \/ AppendFails(p) \/ SyncFails(p)
        PROVE  ProcMoves(q)
    BY <1>7, <1>8 DEF OpenAuditFails, LockAuditFails, ValidateFails, AppendFails, SyncFails
  <1>9. ASSUME NEW p \in Procs, AppendRecord(p) PROVE ProcMoves(q)
    <2>1. CASE q = p
      BY <1>9, <2>1 DEF AppendRecord, ProcMoves, TypeOK
    <2>2. CASE q # p
      BY <1>9, <2>2, ProcStill DEF AppendRecord, Still, TypeOK
    <2> QED
      BY <2>1, <2>2
  <1>10. ASSUME NEW p \in Procs, SyncRecord(p) PROVE ProcMoves(q)
    <2>1. CASE q = p
      BY <1>10, <2>1 DEF SyncRecord, ProcMoves, TypeOK
    <2>2. CASE q # p
      BY <1>10, <2>2, ProcStill DEF SyncRecord, Still, TypeOK
    <2> QED
      BY <2>1, <2>2
  <1>11. ASSUME NEW p \in Procs, CloseAudit(p) PROVE ProcMoves(q)
    <2>1. CASE Returns(p, TRUE)
      <3>1. /\ acked' = [acked EXCEPT ![p] = acked[p] \cup {want[p]}]
            /\ fd' = [fd EXCEPT ![p] = NoFile]
            /\ pc' = [pc EXCEPT ![p] = IF want[p] = "en_cours" THEN "work" ELSE "exit"]
        BY <2>1, ReturnsCases, Zenon
      <3> QED
        BY <1>11, <3>1 DEF CloseAudit, ProcMoves, Still, TypeOK
    <2>2. CASE Returns(p, FALSE)
      BY <1>7, <1>11, <2>2 DEF CloseAudit
    <2> QED
      BY <1>11, <2>1, <2>2 DEF CloseAudit
  <1>12. ASSUME NEW p \in Procs, Kill(p) PROVE ProcMoves(q)
    BY <1>12, ProcStill DEF Kill, Still, TypeOK
  <1>13. ASSUME NEW v \in Verifiers, VerifyStep(v) PROVE ProcMoves(q)
    BY <1>13, ProcStill DEF VerifyStep, VerifyOpen, VerifyLock, VerifyCheck, Still
  <1>14. CASE ReplaceJournal \/ UNCHANGED vars
    BY <1>14, ProcStill DEF ReplaceJournal, vars, Still
  <1>15. CASE PowerLoss
    BY <1>15, ProcStill DEF PowerLoss, Still, Gone, TypeOK
  <1> QED
    BY <1>1, <1>2, <1>3, <1>4, <1>5, <1>6, <1>8, <1>9, <1>10, <1>11, <1>12, <1>13, <1>14, <1>15 DEF Next, Step

(* What any step does to each verifier.                                    *)
LEMMA VerifiersStep ==
    ASSUME TypeOK, [Next]_vars, NEW v \in Verifiers
    PROVE  /\ verdict'[v] = verdict[v] \/ VerifyCheck(v)
           /\ vpc[v] = "exit" => vpc'[v] = "exit" /\ vfd'[v] = vfd[v]
  <1> DEFINE Goal == /\ verdict'[v] = verdict[v] \/ VerifyCheck(v)
                     /\ vpc[v] = "exit" => vpc'[v] = "exit" /\ vfd'[v] = vfd[v]
  <1>1. CASE UNCHANGED checks
    BY <1>1 DEF checks
  <1>2. ASSUME NEW p \in Procs, Step(p) \/ Kill(p) PROVE Goal
    BY <1>1, <1>2 DEF Step, Kill, PrepareAudit, PrepareFails, RequestWrite, OpenAudit,
       OpenAuditFails, LockAudit, LockAuditFails, Validate, ValidateFails, AppendRecord,
       AppendFails, SyncRecord, SyncFails, CloseAudit
  <1>3. ASSUME NEW u \in Verifiers, VerifyStep(u) PROVE Goal
    BY <1>3 DEF VerifyStep, VerifyOpen, VerifyLock, VerifyCheck, TypeOK
  <1>4. CASE ReplaceJournal \/ UNCHANGED vars
    BY <1>1, <1>4 DEF ReplaceJournal, vars
  <1>5. CASE PowerLoss
    BY <1>5 DEF PowerLoss, TypeOK
  <1> QED
    BY <1>2, <1>3, <1>4, <1>5 DEF Next

(* Only a power loss is a power loss.                                      *)
LEMMA LossesStep ==
    ASSUME TypeOK, [Next]_vars
    PROVE  losses' = losses \/ losses' = losses + 1
  BY DEF Next, Step, VerifyStep, PrepareAudit, PrepareFails, RequestWrite, OpenAudit,
     OpenAuditFails, LockAudit, LockAuditFails, Validate, ValidateFails, AppendRecord,
     AppendFails, SyncRecord, SyncFails, CloseAudit, Kill, VerifyOpen, VerifyLock, VerifyCheck,
     ReplaceJournal, PowerLoss, vars, budget

-----------------------------------------------------------------------------
(* A line of a file is a record.                                           *)
LEMMA LineType ==
    ASSUME TypeOK, NEW f \in Files, NEW i \in 1..Len(content[f])
    PROVE  /\ content[f][i].by \in Procs /\ content[f][i].op \in Ops
           /\ content[f][i].status \in Statuses
  <1>1. content[f][i] \in Record
    BY ElementOfSeq DEF TypeOK
  <1> QED
    BY <1>1 DEF Record

(* Lines stay where they are: all of them unless the machine loses power,  *)
(* and then those that were synchronised.  A line that was not there is    *)
(* the last one, written by the process that validated the journal.        *)
LEMMA LinesStep ==
    ASSUME TypeOK, LocalInv, SyncedInv, [Next]_vars, NEW f \in Files
    PROVE  /\ synced[f] <= synced'[f] /\ synced'[f] <= Len(content'[f])
           /\ \A i \in 1..Len(content[f]) : i <= synced[f] \/ losses' = losses =>
                i <= Len(content'[f]) /\ content'[f][i] = content[f][i]
           /\ \A i \in 1..Len(content'[f]) :
                \/ i <= Len(content[f]) /\ content'[f][i] = content[f][i]
                \/ \E p \in Procs : /\ pc[p] = "append" /\ fd[p] = f
                                    /\ content'[f][i] = RecordOf(p)
  <1>1. /\ content[f] \in Seq(Record) /\ Len(content[f]) \in Nat /\ synced[f] \in Nat
        /\ synced[f] <= Len(content[f]) /\ losses \in Nat
    BY LenProperties DEF TypeOK, SyncedInv
  <1>2. CASE Kept(f)
    BY <1>1, <1>2 DEF Kept
  <1>3. CASE Grown(f)
    <2>1. PICK p \in Procs : /\ pc[p] = "append" /\ fd[p] = f
                             /\ content'[f] = Append(content[f], RecordOf(p))
      BY <1>3 DEF Grown
    <2>2. RecordOf(p) \in Record
      BY <2>1, RecordType
    <2>3. /\ Len(content'[f]) = Len(content[f]) + 1
          /\ content'[f][Len(content[f]) + 1] = RecordOf(p)
          /\ \A i \in 1..Len(content[f]) : content'[f][i] = content[f][i]
      BY <1>1, <2>1, <2>2, AppendProperties
    <2>4. synced'[f] = synced[f]
      BY <1>3 DEF Grown
    <2>5. ASSUME NEW i \in 1..Len(content'[f])
          PROVE  \/ i <= Len(content[f]) /\ content'[f][i] = content[f][i]
                 \/ content'[f][i] = RecordOf(p)
      BY <1>1, <2>3, <2>5
    <2> QED
      BY <1>1, <2>1, <2>3, <2>4, <2>5
  <1>4. CASE Cut(f)
    <2>1. PICK k \in synced[f]..Len(content[f]) : content'[f] = SubSeq(content[f], 1, k)
      BY <1>4 DEF Cut
    <2>2. k \in Nat /\ k <= Len(content[f]) /\ synced[f] <= k
      BY <1>1, <2>1
    <2>3. \A i \in 1..k : content[f][i] \in Record
      BY <1>1, <2>2, ElementOfSeq
    <2>4. Len(content'[f]) = k /\ \A i \in 1..k : content'[f][i] = content[f][i]
      BY <1>1, <2>1, <2>2, <2>3, SubSeqProperties
    <2>5. synced'[f] = synced[f] /\ losses' # losses
      BY <1>1, <1>4 DEF Cut
    <2> QED
      BY <1>1, <2>2, <2>4, <2>5
  <1> QED
    BY <1>2, <1>3, <1>4, FilesStep

(* What was synchronised is in the file.                                   *)
LEMMA SyncedStep == TypeOK /\ LocalInv /\ SyncedInv /\ [Next]_vars => SyncedInv'
  <1> SUFFICES ASSUME TypeOK, LocalInv, SyncedInv, [Next]_vars PROVE SyncedInv'
    OBVIOUS
  <1> QED
    BY LinesStep DEF SyncedInv

(* A line keeps its writer's file.                                         *)
LEMMA OriginStep ==
    ASSUME TypeOK, LocalInv, SyncedInv, OriginInv, [Next]_vars
    PROVE  OriginInv'
  <1> SUFFICES ASSUME NEW f \in Files, NEW i \in 1..Len(content'[f])
               PROVE  ident'[content'[f][i].by] = f
    BY DEF OriginInv
  <1>1. ASSUME NEW p \in Procs, ident[p] = f PROVE ident'[p] = f
    BY <1>1, ProcsStep, JournalAssumption, OperationAssumption DEF ProcMoves
  <1>2. CASE i <= Len(content[f]) /\ content'[f][i] = content[f][i]
    <2>1. i \in 1..Len(content[f])
      BY <1>2
    <2>2. content[f][i].by \in Procs
      BY <2>1, LineType
    <2> QED
      BY <1>1, <1>2, <2>1, <2>2 DEF OriginInv
  <1>3. ASSUME NEW p \in Procs, pc[p] = "append", fd[p] = f, content'[f][i] = RecordOf(p)
        PROVE  ident'[content'[f][i].by] = f
    BY <1>1, <1>3 DEF LocalInv, Holding, RecordOf
  <1> QED
    BY <1>2, <1>3, LinesStep

-----------------------------------------------------------------------------
(* What a process was told.                                                *)

(* The exit code of a write that returned.                                 *)
LEMMA ReturnsCode ==
    ASSUME TypeOK, NEW p \in Procs
    PROVE  /\ Returns(p, FALSE) =>
                code' = [code EXCEPT ![p] = IF want[p] \in Terminal THEN 4 ELSE 1]
           /\ Returns(p, TRUE) =>
                code' = [code EXCEPT ![p] = CASE want[p] = "en_cours" -> code[p]
                                              [] want[p] = "reussi" -> 0
                                              [] want[p] = "indetermine" -> 4
                                              [] OTHER -> 1]
  <1>1. want[p] \in {"reussi", "echoue", "indetermine", "refuse", "en_cours"}
    BY DEF TypeOK, Statuses, Terminal
  <1>2. [code EXCEPT ![p] = code[p]] = code
    BY DEF TypeOK
  <1>3. /\ ExitCode(want[p], FALSE) =
             IF want[p] \in Terminal THEN 4
             ELSE CASE want[p] = "reussi" -> 0 [] want[p] = "indetermine" -> 4 [] OTHER -> 1
        /\ ExitCode(want[p], TRUE) =
             CASE want[p] = "reussi" -> 0 [] want[p] = "indetermine" -> 4 [] OTHER -> 1
    BY DEF ExitCode
  <1>4. ExitCode(want[p], FALSE) = IF want[p] \in Terminal THEN 4 ELSE 1
    BY <1>1, <1>3 DEF Terminal
  <1>5. want[p] # "en_cours" =>
          ExitCode(want[p], TRUE) =
             CASE want[p] = "en_cours" -> code[p]
               [] want[p] = "reussi" -> 0
               [] want[p] = "indetermine" -> 4
               [] OTHER -> 1
    BY <1>1, <1>3
  <1>6. CASE want[p] = "en_cours"
    BY <1>2, <1>4, <1>6 DEF Returns
  <1>7. CASE want[p] # "en_cours"
    BY <1>4, <1>5, <1>7 DEF Returns
  <1> QED
    BY <1>6, <1>7

(* Every step keeps what a process was told, and what its exit code says.  *)
LEMMA AckStep ==
    ASSUME TypeOK, LocalInv, AckInv, ExitCodeBacked, [Next]_vars
    PROVE  AckInv' /\ ExitCodeBacked'
  <1> USE DEF TypeOK, AckInv, ExitCodeBacked, files, procs, checks, budget, Holding, Gone,
              Terminal, Statuses
  <1>1. ASSUME NEW p \in Procs, PrepareAudit(p) PROVE AckInv' /\ ExitCodeBacked'
    BY <1>1 DEF PrepareAudit
  <1>2. ASSUME NEW p \in Procs, PrepareFails(p) PROVE AckInv' /\ ExitCodeBacked'
    BY <1>2 DEF PrepareFails
  <1>3. ASSUME NEW p \in Procs, RequestWrite(p) PROVE AckInv' /\ ExitCodeBacked'
    BY <1>3 DEF RequestWrite
  <1>4. ASSUME NEW p \in Procs, OpenAudit(p) PROVE AckInv' /\ ExitCodeBacked'
    BY <1>4 DEF OpenAudit
  <1>5. ASSUME NEW p \in Procs, LockAudit(p) PROVE AckInv' /\ ExitCodeBacked'
    BY <1>5 DEF LockAudit
  <1>6. ASSUME NEW p \in Procs, Validate(p) PROVE AckInv' /\ ExitCodeBacked'
    BY <1>6 DEF Validate
  <1>7. ASSUME NEW p \in Procs, AppendRecord(p) PROVE AckInv' /\ ExitCodeBacked'
    BY <1>7 DEF AppendRecord
  <1>8. ASSUME NEW p \in Procs, SyncRecord(p) PROVE AckInv' /\ ExitCodeBacked'
    BY <1>8 DEF SyncRecord
  <1>9. ASSUME NEW p \in Procs, pc[p] \in {"open", "lock"} \cup Holding, want' = want,
               Returns(p, FALSE)
        PROVE  AckInv' /\ ExitCodeBacked'
    <2>1. /\ pc' = [pc EXCEPT ![p] = "exit"] /\ acked' = acked
          /\ code' = [code EXCEPT ![p] = IF want[p] \in Terminal THEN 4 ELSE 1]
      BY <1>9, ReturnsCases, ReturnsCode, Zenon
    <2> QED
      BY <1>9, <2>1
  <1>10. ASSUME NEW p \in Procs,
                \/ OpenAuditFails(p) \/ LockAuditFails(p) \/ ValidateFails(p)
                \/ AppendFails(p) \/ SyncFails(p)
         PROVE  AckInv' /\ ExitCodeBacked'
    BY <1>9, <1>10 DEF OpenAuditFails, LockAuditFails, ValidateFails, AppendFails, SyncFails
  <1>11. ASSUME NEW p \in Procs, CloseAudit(p) PROVE AckInv' /\ ExitCodeBacked'
    <2>1. CASE Returns(p, TRUE)
      <3>1. /\ acked' = [acked EXCEPT ![p] = acked[p] \cup {want[p]}]
            /\ pc' = [pc EXCEPT ![p] = IF want[p] = "en_cours" THEN "work" ELSE "exit"]
            /\ code' = [code EXCEPT ![p] = CASE want[p] = "en_cours" -> code[p]
                                              [] want[p] = "reussi" -> 0
                                              [] want[p] = "indetermine" -> 4
                                              [] OTHER -> 1]
        BY <2>1, ReturnsCases, ReturnsCode, Zenon
      <3> QED
        BY <1>11, <3>1 DEF CloseAudit
    <2>2. CASE Returns(p, FALSE)
      BY <1>9, <1>11, <2>2 DEF CloseAudit
    <2> QED
      BY <1>11, <2>1, <2>2 DEF CloseAudit
  <1>12. ASSUME NEW p \in Procs, Kill(p) PROVE AckInv' /\ ExitCodeBacked'
    BY <1>12 DEF Kill
  <1>13. ASSUME NEW v \in Verifiers, VerifyStep(v) PROVE AckInv' /\ ExitCodeBacked'
    BY <1>13 DEF VerifyStep, VerifyOpen, VerifyLock, VerifyCheck
  <1>14. CASE ReplaceJournal \/ UNCHANGED vars
    BY <1>14 DEF ReplaceJournal, vars
  <1>15. CASE PowerLoss
    BY <1>15 DEF PowerLoss
  <1> QED
    BY <1>1, <1>2, <1>3, <1>4, <1>5, <1>6, <1>7, <1>8, <1>10, <1>11, <1>12, <1>13, <1>14, <1>15 DEF Next, Step

(* A record that p wrote stays at its line while p remembers the operation *)
(* and the line is synchronised or the machine keeps its power.            *)
LEMMA RecordStays ==
    ASSUME TypeOK, LocalInv, SyncedInv, [Next]_vars,
           NEW f \in Files, NEW i \in 1..Len(content[f]), NEW p \in Procs, NEW w,
           RecordAt(f, i, p, w), op'[p] = op[p], i <= synced[f] \/ losses' = losses
    PROVE  /\ i \in 1..Len(content'[f])
           /\ i <= synced[f] => i \in 1..synced'[f]
           /\ RecordAt(f, i, p, w)'
  <1>1. synced[f] \in Nat /\ synced[f] <= synced'[f] /\ synced'[f] <= Len(content'[f])
        /\ i <= Len(content'[f]) /\ content'[f][i] = content[f][i]
    BY LinesStep DEF TypeOK
  <1>2. TypeOK'
    BY TypeStep
  <1>3. synced'[f] \in Nat /\ Len(content'[f]) \in Nat /\ Len(content[f]) \in Nat
    BY <1>2, LenProperties DEF TypeOK
  <1> QED
    BY <1>1, <1>3 DEF RecordAt

(* Every step keeps the lines where their writers left them.               *)
LEMMA PlacedStep ==
    ASSUME TypeOK, LocalInv, SyncedInv, AckInv, PlacedInv, [Next]_vars
    PROVE  PlacedInv'
  <1> SUFFICES ASSUME NEW p \in Procs
               PROVE  (/\ pc[p] = "sync" => \E i \in 1..Len(content[fd[p]]) : RecordAt(fd[p], i, p, want[p])
                       /\ pc[p] = "close" => \E i \in 1..synced[fd[p]] : RecordAt(fd[p], i, p, want[p])
                       /\ \A w \in acked[p] :
                            ident[p] \in Files /\ \E i \in 1..synced[ident[p]] : RecordAt(ident[p], i, p, w))'
    BY DEF PlacedInv
  <1>1. ProcMoves(p)
    BY ProcsStep
  <1>2. ASSUME NEW f \in Files
        PROVE  content[f] \in Seq(Record) /\ Len(content[f]) \in Nat /\ synced[f] \in Nat
               /\ synced[f] <= Len(content[f])
    BY LenProperties DEF TypeOK, SyncedInv
  <1>3. pc[p] \in Holding => fd[p] \in Files /\ ident[p] = fd[p]
    BY DEF LocalInv, Holding
  <1>4. ASSUME pc'[p] = "sync"
        PROVE  \E i \in 1..Len(content'[fd'[p]]) : RecordAt(fd[p], i, p, want[p])'
    <2>1. CASE AppendRecord(p)
      <3>1. /\ fd'[p] = fd[p] /\ op'[p] = op[p] /\ want'[p] = want[p]
            /\ content'[fd[p]] = Append(content[fd[p]], RecordOf(p))
        BY <1>3, <2>1 DEF AppendRecord, Written, TypeOK, Holding
      <3>2. RecordOf(p) \in Record /\ pc[p] = "append"
        BY <2>1, RecordType DEF AppendRecord
      <3>3. PICK i \in Nat : i = Len(content[fd[p]]) + 1
        BY <1>2, <1>3, <3>2 DEF Holding
      <3>4. i \in 1..Len(content'[fd[p]]) /\ content'[fd[p]][i] = RecordOf(p)
        BY <1>2, <1>3, <3>1, <3>2, <3>3, AppendProperties DEF Holding
      <3>5. RecordAt(fd[p], i, p, want[p])'
        BY <3>1, <3>4 DEF RecordAt, RecordOf
      <3> QED
        BY <3>1, <3>4, <3>5
    <2>2. CASE pc[p] = "sync" /\ Still(p)
      <3>1. PICK i \in 1..Len(content[fd[p]]) : RecordAt(fd[p], i, p, want[p])
        BY <2>2 DEF PlacedInv
      <3>2. i \in 1..Len(content'[fd[p]]) /\ RecordAt(fd[p], i, p, want[p])'
        BY <1>3, <2>2, <3>1, RecordStays DEF Still, RecordAt, Holding
      <3> QED
        BY <2>2, <3>2 DEF Still
    <2> QED
      BY <1>1, <1>4, <2>1, <2>2 DEF ProcMoves
  <1>5. ASSUME pc'[p] = "close"
        PROVE  \E i \in 1..synced'[fd'[p]] : RecordAt(fd[p], i, p, want[p])'
    <2>1. CASE SyncRecord(p)
      <3>1. pc[p] = "sync" /\ UNCHANGED <<content, fd, op, want>>
        BY <2>1 DEF SyncRecord
      <3>2. synced'[fd[p]] = Len(content[fd[p]])
        BY <1>3, <2>1 DEF SyncRecord, Synchronised, TypeOK, Holding
      <3>3. PICK i \in 1..Len(content[fd[p]]) : RecordAt(fd[p], i, p, want[p])
        BY <3>1 DEF PlacedInv
      <3> QED
        BY <3>1, <3>2, <3>3 DEF RecordAt
    <2>2. CASE pc[p] = "close" /\ Still(p)
      <3>1. PICK i \in 1..synced[fd[p]] : RecordAt(fd[p], i, p, want[p])
        BY <2>2 DEF PlacedInv
      <3>2. i \in 1..Len(content[fd[p]]) /\ i <= synced[fd[p]] /\ fd[p] \in Files
        BY <1>2, <1>3, <2>2 DEF Holding
      <3>3. i \in 1..synced'[fd[p]] /\ RecordAt(fd[p], i, p, want[p])'
        BY <2>2, <3>1, <3>2, RecordStays DEF Still, RecordAt
      <3> QED
        BY <2>2, <3>3 DEF Still
    <2> QED
      BY <1>1, <1>5, <2>1, <2>2 DEF ProcMoves
  <1>6. ASSUME NEW w \in acked'[p]
        PROVE  ident'[p] \in Files /\ \E i \in 1..synced'[ident'[p]] : RecordAt(ident[p], i, p, w)'
    <2>1. CASE w \in acked[p]
      <3>1. PICK i \in 1..synced[ident[p]] : RecordAt(ident[p], i, p, w)
        BY <2>1 DEF PlacedInv
      <3>2. ident[p] \in Files
        BY <2>1 DEF PlacedInv
      <3>3. i \in 1..Len(content[ident[p]]) /\ i <= synced[ident[p]]
        BY <1>2, <3>2
      <3>4. ident'[p] = ident[p]
        BY <1>1, <3>2, JournalAssumption, OperationAssumption DEF ProcMoves
      <3>5. op'[p] = op[p]
        BY <1>1, <2>1 DEF ProcMoves, AckInv
      <3>6. i \in 1..synced'[ident[p]] /\ RecordAt(ident[p], i, p, w)'
        BY <3>1, <3>2, <3>3, <3>4, <3>5, RecordStays DEF RecordAt
      <3> QED
        BY <3>2, <3>4, <3>6
    <2>2. CASE w \notin acked[p]
      <3>1. /\ pc[p] = "close" /\ w = want[p] /\ ident'[p] = ident[p] /\ op'[p] = op[p]
            /\ UNCHANGED files
        BY <1>1, <1>6, <2>2 DEF ProcMoves
      <3>2. PICK i \in 1..synced[fd[p]] : RecordAt(fd[p], i, p, want[p])
        BY <3>1 DEF PlacedInv
      <3> QED
        BY <1>3, <3>1, <3>2 DEF RecordAt, files, Holding
    <2> QED
      BY <2>1, <2>2
  <1> QED
    BY <1>4, <1>5, <1>6

-----------------------------------------------------------------------------
(* A verdict.                                                              *)

(* When nothing was open at line n and the lines behind it name other      *)
(* operations than those before it, an accepted record does too.           *)
LEMMA NewOperation ==
    ASSUME NEW s, Len(s) \in Nat, NEW n \in 0..Len(s), ActiveAt(s, n + 1) = {},
           \A i \in 1..n, j \in (n + 1)..Len(s) : s[i].op # s[j].op,
           NEW o, NEW c, NEW w, Accepts(s, o, c, w)
    PROVE  \A i \in 1..n : s[i].op # o
  <1>1. CASE w \notin Terminal
    BY <1>1 DEF Accepts, FreshAllowed, OperationsOf
  <1>2. CASE w \in Terminal
    <2>1. o \in ActiveAt(s, Len(s) + 1)
      BY <1>2 DEF Accepts, TerminalAllowed, Active
    <2>2. PICK k \in 1..Len(s) :
             /\ s[k].op = o /\ s[k].status = "en_cours"
             /\ \A m \in (k + 1)..Len(s) : s[m].op # o
      BY <2>1 DEF ActiveAt
    <2>3. k \notin 1..n
      <3> SUFFICES ASSUME k \in 1..n PROVE FALSE
        OBVIOUS
      <3>1. \A m \in (k + 1)..n : s[m].op # s[k].op
        BY <2>2
      <3>2. s[k].op \in ActiveAt(s, n + 1)
        BY <2>2, <3>1 DEF ActiveAt
      <3> QED
        BY <3>2
    <2>4. k \in (n + 1)..Len(s)
      BY <2>3
    <2> QED
      BY <2>2, <2>4
  <1> QED
    BY <1>1, <1>2

(* Every step keeps a verdict true.                                        *)
LEMMA VouchedStep ==
    ASSUME TypeOK, LocalInv, FileInv, SyncedInv, VouchedInv, [Next]_vars
    PROVE  VouchedInv'
  <1> SUFFICES ASSUME NEW v \in Verifiers, verdict'[v] > 0
               PROVE  (/\ vpc[v] = "exit" /\ vfd[v] \in Files
                       /\ losses = 0 =>
                            /\ verdict[v] <= Len(content[vfd[v]])
                            /\ ActiveAt(content[vfd[v]], verdict[v] + 1) = {}
                            /\ \A i \in 1..verdict[v], j \in (verdict[v] + 1)..Len(content[vfd[v]]) :
                                 content[vfd[v]][i].op # content[vfd[v]][j].op)'
    BY DEF VouchedInv
  <1>1. CASE VerifyCheck(v)
    <2>1. vpc[v] = "check" /\ vfd[v] \in Files
      BY <1>1 DEF VerifyCheck, LocalInv
    <2>2. Len(content[vfd[v]]) \in Nat
      BY <2>1, LenProperties DEF TypeOK
    <2>3. Vouches(vfd[v]) /\ verdict'[v] = Len(content[vfd[v]])
      BY <1>1 DEF VerifyCheck, TypeOK
    <2>4. vpc'[v] = "exit" /\ vfd' = vfd /\ content' = content
      BY <1>1 DEF VerifyCheck, TypeOK, files
    <2>5. ActiveAt(content[vfd[v]], Len(content[vfd[v]]) + 1) = {}
      BY <2>3 DEF Vouches, ClosedJournal, Active
    <2> QED
      BY <2>1, <2>2, <2>3, <2>4, <2>5
  <1>2. CASE verdict'[v] = verdict[v]
    <2>1. vpc'[v] = "exit" /\ vfd'[v] = vfd[v] /\ vfd[v] \in Files
      BY <1>2, VerifiersStep DEF VouchedInv
    <2> SUFFICES ASSUME losses' = 0
                 PROVE  (/\ verdict[v] <= Len(content[vfd[v]])
                         /\ ActiveAt(content[vfd[v]], verdict[v] + 1) = {}
                         /\ \A i \in 1..verdict[v], j \in (verdict[v] + 1)..Len(content[vfd[v]]) :
                              content[vfd[v]][i].op # content[vfd[v]][j].op)'
      BY <2>1
    <2> DEFINE s == content[vfd[v]]
               t == content'[vfd[v]]
               n == verdict[v]
    <2>2. losses = 0 /\ losses' = losses
      BY LossesStep DEF TypeOK
    <2>3. /\ n \in Nat /\ s \in Seq(Record) /\ Len(s) \in Nat /\ Len(t) \in Nat
      BY <2>1, TypeStep, LenProperties DEF TypeOK
    <2>4. /\ n <= Len(s) /\ ActiveAt(s, n + 1) = {}
          /\ \A i \in 1..n, j \in (n + 1)..Len(s) : s[i].op # s[j].op
      BY <1>2, <2>2 DEF VouchedInv
    <2>5. \A i \in 1..Len(s) : i <= Len(t) /\ t[i] = s[i]
      BY <2>1, <2>2, LinesStep
    <2>6. \A j \in 1..Len(t) :
             \/ j <= Len(s) /\ t[j] = s[j]
             \/ \E p \in Procs : pc[p] = "append" /\ fd[p] = vfd[v] /\ t[j] = RecordOf(p)
      BY <2>1, LinesStep
    <2>7. ASSUME NEW p \in Procs, pc[p] = "append", fd[p] = vfd[v]
          PROVE  \A i \in 1..n : s[i].op # RecordOf(p).op
      <3>1. Accepts(s, op[p], ContextOf[p], want[p])
        BY <2>7 DEF FileInv, AppendInv, Acceptable
      <3> HIDE DEF s, n
      <3>2. \A i \in 1..n : s[i].op # op[p]
        BY <2>3, <2>4, <3>1, NewOperation
      <3> QED
        BY <3>2 DEF RecordOf
    <2> HIDE DEF s, t, n
    <2>8. n <= Len(t)
      BY <2>3, <2>4, <2>5
    <2>9. ActiveAt(t, n + 1) = {}
      <3>1. \A j \in 1..((n + 1) - 1) : s[j] = t[j]
        BY <2>3, <2>4, <2>5
      <3> QED
        BY <2>3, <2>4, <3>1, ActiveAgrees
    <2>10. \A i \in 1..n, j \in (n + 1)..Len(t) : t[i].op # t[j].op
      <3> SUFFICES ASSUME NEW i \in 1..n, NEW j \in (n + 1)..Len(t) PROVE t[i].op # t[j].op
        OBVIOUS
      <3>1. t[i] = s[i] /\ j \in 1..Len(t)
        BY <2>3, <2>4, <2>5
      <3>2. CASE j <= Len(s) /\ t[j] = s[j]
        BY <2>3, <2>4, <3>1, <3>2
      <3>3. ASSUME NEW p \in Procs, pc[p] = "append", fd[p] = vfd[v], t[j] = RecordOf(p)
            PROVE  t[i].op # t[j].op
        BY <2>7, <3>1, <3>3
      <3> QED
        BY <2>6, <3>1, <3>2, <3>3
    <2> QED
      BY <1>2, <2>1, <2>8, <2>9, <2>10 DEF t, n
  <1> QED
    BY <1>1, <1>2, VerifiersStep

-----------------------------------------------------------------------------
(* The invariant, and what it gives.                                       *)

(* At first there is nothing to remember.                                  *)
LEMMA HistoryInit == Init => HistoryInv
  <1> SUFFICES ASSUME Init PROVE HistoryInv
    OBVIOUS
  <1>1. JournalInv
    BY TypeInit, LocalInit, FileInit DEF JournalInv
  <1>2. \A f \in Files : content[f] = <<>> /\ Len(content[f]) = 0 /\ synced[f] = 0
    BY DEF Init
  <1>3. SyncedInv /\ OriginInv
    BY <1>2 DEF SyncedInv, OriginInv
  <1>4. PlacedInv /\ AckInv /\ ExitCodeBacked /\ VouchedInv
    BY DEF Init, PlacedInv, AckInv, ExitCodeBacked, VouchedInv, Holding
  <1> QED
    BY <1>1, <1>3, <1>4 DEF HistoryInv

(* HistoryInv holds in every reachable state: it is inductive.             *)
THEOREM HistoryInvariant == Spec => []HistoryInv
  <1>1. HistoryInv /\ [Next]_vars => HistoryInv'
    <2> SUFFICES ASSUME HistoryInv, [Next]_vars PROVE HistoryInv'
      OBVIOUS
    <2> USE DEF HistoryInv, JournalInv
    <2>1. JournalInv'
      BY TypeStep, LocalStep, LockStep, FileStep
    <2>2. SyncedInv' /\ OriginInv'
      BY SyncedStep, OriginStep
    <2>3. PlacedInv'
      BY PlacedStep
    <2>4. AckInv' /\ ExitCodeBacked'
      BY AckStep
    <2>5. VouchedInv'
      BY VouchedStep
    <2> QED
      BY <2>1, <2>2, <2>3, <2>4, <2>5
  <1> QED
    BY <1>1, HistoryInit, PTL DEF Spec

(* A status whose write returned success is on the disk for good, in the   *)
(* file the run observed first: main starts the work only behind a start   *)
(* that a power loss cannot take back.                                     *)
THEOREM AckedAlwaysDurable == Spec => []AckedDurable
  <1>1. HistoryInv => AckedDurable
    <2> SUFFICES ASSUME HistoryInv, NEW p \in Procs, NEW w \in acked[p]
                 PROVE  /\ ident[p] \in Files
                        /\ \E i \in 1..synced[ident[p]] :
                             /\ i <= Len(content[ident[p]])
                             /\ content[ident[p]][i].by = p
                             /\ content[ident[p]][i].status = w
      BY DEF AckedDurable
    <2>1. ident[p] \in Files /\ \E i \in 1..synced[ident[p]] : RecordAt(ident[p], i, p, w)
      BY DEF HistoryInv, PlacedInv
    <2>2. /\ synced[ident[p]] \in Nat /\ Len(content[ident[p]]) \in Nat
          /\ synced[ident[p]] <= Len(content[ident[p]])
      BY <2>1, LenProperties DEF HistoryInv, JournalInv, TypeOK, SyncedInv
    <2> QED
      BY <2>1, <2>2 DEF RecordAt
  <1> QED
    BY <1>1, HistoryInvariant, PTL

(* The exit code never says more than the journal: 0 is a success that was *)
(* acknowledged, 1 behind an accepted start a failure that was.            *)
THEOREM ExitCodeAlwaysBacked == Spec => []ExitCodeBacked
  <1>1. HistoryInv => ExitCodeBacked
    BY DEF HistoryInv
  <1> QED
    BY <1>1, HistoryInvariant, PTL

(* The records of a run are in one file, however often the path is given   *)
(* to another one.                                                         *)
THEOREM AlwaysOneFilePerRun == Spec => []OneFilePerRun
  <1>1. HistoryInv => OneFilePerRun
    BY DEF HistoryInv, OriginInv, OneFilePerRun, WrittenBy
  <1> QED
    BY <1>1, HistoryInvariant, PTL

(* What verify-audit vouched for is final: unless the machine loses power, *)
(* no later line names an operation it read.                               *)
THEOREM VerdictAlwaysFinal == Spec => []VerdictFinal
  <1>1. HistoryInv => VerdictFinal
    BY DEF HistoryInv, VouchedInv, VerdictFinal
  <1> QED
    BY <1>1, HistoryInvariant, PTL

(* No step rewrites the history of a file: it adds a line at the end, or a *)
(* power loss takes lines that were never synchronised.                    *)
THEOREM AlwaysAppendOnly == Spec => AppendOnly
  <1> DEFINE OnlyAppends == \A f \in Files :
                 /\ synced[f] <= synced'[f]
                 /\ IsPrefixOf(SubSeq(content[f], 1, synced[f]), content'[f])
                 /\ losses' = losses => IsPrefixOf(content[f], content'[f])
  <1>1. HistoryInv /\ [Next]_vars => OnlyAppends
    <2> SUFFICES ASSUME HistoryInv, [Next]_vars, NEW f \in Files
                 PROVE  /\ synced[f] <= synced'[f]
                        /\ IsPrefixOf(SubSeq(content[f], 1, synced[f]), content'[f])
                        /\ losses' = losses => IsPrefixOf(content[f], content'[f])
      OBVIOUS
    <2> USE DEF HistoryInv, JournalInv
    <2>1. /\ content[f] \in Seq(Record) /\ Len(content[f]) \in Nat /\ synced[f] \in Nat
          /\ synced[f] <= Len(content[f]) /\ Len(content'[f]) \in Nat
          /\ synced'[f] \in Nat
      BY TypeStep, LenProperties DEF TypeOK, SyncedInv
    <2>2. /\ synced[f] <= synced'[f] /\ synced'[f] <= Len(content'[f])
          /\ \A i \in 1..Len(content[f]) : i <= synced[f] \/ losses' = losses =>
               i <= Len(content'[f]) /\ content'[f][i] = content[f][i]
      BY LinesStep
    <2>3. \A i \in 1..synced[f] : content[f][i] \in Record
      BY <2>1, ElementOfSeq
    <2>4. Len(SubSeq(content[f], 1, synced[f])) = synced[f]
          /\ \A i \in 1..synced[f] : SubSeq(content[f], 1, synced[f])[i] = content[f][i]
      BY <2>1, <2>3, SubSeqProperties
    <2>5. IsPrefixOf(SubSeq(content[f], 1, synced[f]), content'[f])
      BY <2>1, <2>2, <2>4 DEF IsPrefixOf
    <2>6. ASSUME losses' = losses PROVE IsPrefixOf(content[f], content'[f])
      <3>1. Len(content[f]) <= Len(content'[f])
        BY <2>1, <2>2, <2>6
      <3> QED
        BY <2>2, <2>6, <3>1 DEF IsPrefixOf
    <2> QED
      BY <2>2, <2>5, <2>6
  <1>2. HistoryInv /\ [Next]_vars => [OnlyAppends]_vars
    BY <1>1
  <1> QED
    BY <1>2, HistoryInvariant, PTL DEF Spec, AppendOnly

-----------------------------------------------------------------------------
(* The promise.  What is not PowerLoss adds one fact to one journal's log, *)
(* or to what was told of it, or changes neither.                          *)

logBar == [f \in Files |-> LogOf(f)]
toldBar == [f \in Files |-> ToldOf(f)]

(* The four kinds of steps the promise tells apart.                        *)
LEMMA PromiseCases ==
    ASSUME TypeOK, [Next]_vars
    PROVE  \/ content' = content /\ acked' = acked
           \/ \E p \in Procs : pc[p] = "append" /\ Written(p) /\ acked' = acked
           \/ \E p \in Procs : CloseAudit(p) /\ Returns(p, TRUE)
           \/ PowerLoss
  <1> DEFINE Nothing == content' = content /\ acked' = acked
             Writes == \E p \in Procs : pc[p] = "append" /\ Written(p) /\ acked' = acked
             Told == \E p \in Procs : CloseAudit(p) /\ Returns(p, TRUE)
  <1>1. ASSUME NEW p \in Procs,
               \/ PrepareAudit(p) \/ PrepareFails(p) \/ RequestWrite(p) \/ OpenAudit(p)
               \/ LockAudit(p) \/ Validate(p) \/ SyncRecord(p)
        PROVE  Nothing
    BY <1>1 DEF PrepareAudit, PrepareFails, RequestWrite, OpenAudit, LockAudit, Validate, SyncRecord, files
  <1>2. ASSUME NEW p \in Procs,
               OpenAuditFails(p) \/ LockAuditFails(p) \/ ValidateFails(p) \/ SyncFails(p)
        PROVE  Nothing
    <2>1. Returns(p, FALSE) /\ content' = content
      BY <1>2 DEF OpenAuditFails, LockAuditFails, ValidateFails, SyncFails, files
    <2> QED
      BY <2>1, ReturnsCases
  <1>3. ASSUME NEW p \in Procs, AppendRecord(p) PROVE Writes
    BY <1>3 DEF AppendRecord
  <1>4. ASSUME NEW p \in Procs, AppendFails(p) PROVE Nothing \/ Writes
    <2>1. acked' = acked
      BY <1>4, ReturnsCases DEF AppendFails
    <2> QED
      BY <1>4, <2>1 DEF AppendFails, AppendOutcome
  <1>5. ASSUME NEW p \in Procs, CloseAudit(p) PROVE Nothing \/ Told
    <2>1. CASE Returns(p, FALSE)
      BY <1>5, <2>1, ReturnsCases DEF CloseAudit, files
    <2> QED
      BY <1>5, <2>1 DEF CloseAudit
  <1>6. ASSUME NEW p \in Procs, Kill(p) PROVE Nothing \/ Writes
    BY <1>6 DEF Kill, AppendOutcome
  <1>7. ASSUME NEW v \in Verifiers, VerifyStep(v) PROVE Nothing
    BY <1>7 DEF VerifyStep, VerifyOpen, VerifyLock, VerifyCheck, files, procs
  <1>8. CASE ReplaceJournal \/ UNCHANGED vars
    BY <1>8 DEF ReplaceJournal, vars, files, procs
  <1>9. ASSUME NEW p \in Procs, Step(p) \/ Kill(p) PROVE Nothing \/ Writes \/ Told
    BY <1>1, <1>2, <1>3, <1>4, <1>5, <1>6, <1>9 DEF Step
  <1> QED
    BY <1>7, <1>8, <1>9 DEF Next

(* What was told does not depend on what a process goes on to do.          *)
LEMMA ToldStays ==
    ASSUME HistoryInv, [Next]_vars, acked' = acked
    PROVE  toldBar' = toldBar
  <1> USE DEF HistoryInv, JournalInv
  <1>1. ASSUME NEW q \in Procs, NEW w \in acked[q]
        PROVE  ident'[q] = ident[q] /\ op'[q] = op[q]
    BY <1>1, ProcsStep, JournalAssumption, OperationAssumption DEF ProcMoves, AckInv, PlacedInv
  <1>2. ASSUME NEW f \in Files, NEW fact
        PROVE  fact \in ToldOf(f)' <=> fact \in ToldOf(f)
    <2>1. fact \in ToldOf(f) <=>
            \E q \in Procs : ident[q] = f /\ \E w \in acked[q] : fact = <<op[q], w>>
      BY DEF ToldOf
    <2>2. fact \in ToldOf(f)' <=>
            \E q \in Procs : ident'[q] = f /\ \E w \in acked[q] : fact = <<op'[q], w>>
      BY DEF ToldOf
    <2> QED
      BY <1>1, <2>1, <2>2
  <1>3. \A f \in Files : ToldOf(f)' = ToldOf(f)
    BY <1>2
  <1> QED
    BY <1>3 DEF toldBar

(* In a valid journal, the running operation of the promise is the open    *)
(* one, and what has ended was started.                                    *)
LEMMA RunningIsActive ==
    ASSUME TypeOK, NEW f \in Files, LifecycleOk(content[f])
    PROVE  /\ Promise!Running(LogOf(f)) = Active(content[f])
           /\ \A o : Promise!Ended(LogOf(f), o) => <<o, "en_cours">> \in LogOf(f)
           /\ \A o : Promise!Known(LogOf(f), o) => o \in OperationsOf(content[f])
  <1> DEFINE s == content[f]
  <1>1. /\ Len(s) \in Nat
        /\ \A i \in 1..Len(s) : s[i].status \in Statuses /\ s[i].op \in Ops
    BY LineType, LenProperties DEF TypeOK
  <1>2. \A o, w : <<o, w>> \in LogOf(f) <=> \E k \in 1..Len(s) : s[k].op = o /\ s[k].status = w
    BY DEF LogOf
  <1> HIDE DEF s
  <1>3. \A o : Promise!Ended(LogOf(f), o) <=>
                 \E k \in 1..Len(s) : s[k].op = o /\ s[k].status \in Terminal
    BY <1>2 DEF Promise!Ended, Promise!Ending, Terminal
  <1>4. ASSUME NEW o PROVE o \in Promise!Running(LogOf(f)) <=> o \in Active(s)
    <2>1. o \in Promise!Running(LogOf(f)) <=>
            o \in Ops /\ <<o, "en_cours">> \in LogOf(f) /\ ~Promise!Ended(LogOf(f), o)
      BY DEF Promise!Running
    <2>2. o \in Active(s) <=>
             /\ \E k \in 1..Len(s) : s[k].op = o /\ s[k].status = "en_cours"
             /\ ~\E k \in 1..Len(s) : s[k].op = o /\ s[k].status \in Terminal
      BY <1>1, ActiveIsUnended DEF s
    <2> QED
      BY <1>1, <1>2, <1>3, <2>1, <2>2
  <1>5. ASSUME NEW o, Promise!Ended(LogOf(f), o) PROVE <<o, "en_cours">> \in LogOf(f)
    BY <1>1, <1>2, <1>3, <1>5, EndHasStart DEF s
  <1>6. ASSUME NEW o, Promise!Known(LogOf(f), o) PROVE o \in OperationsOf(s)
    BY <1>2, <1>6 DEF Promise!Known, OperationsOf
  <1> QED
    BY <1>4, <1>5, <1>6 DEF s

(* An accepted record is a refusal, a start or an end that the promise     *)
(* allows in that journal.                                                 *)
LEMMA WrittenPromises ==
    ASSUME HistoryInv, NEW p \in Procs, pc[p] = "append", Written(p), toldBar' = toldBar
    PROVE  Promise!Next
  <1> USE DEF HistoryInv, JournalInv
  <1>0. PICK f \in Files : f = fd[p]
    BY DEF LocalInv, Holding
  <1> DEFINE o == op[p]
             w == want[p]
  <1>1. o \in Ops /\ w \in Statuses
    BY DEF LocalInv, Holding, TypeOK
  <1>2. Accepts(content[f], o, ContextOf[p], w) /\ LifecycleOk(content[f])
    BY <1>0 DEF FileInv, AppendInv, Acceptable, JournalValid
  <1>3. /\ content[f] \in Seq(Record) /\ Len(content[f]) \in Nat /\ RecordOf(p) \in Record
        /\ content' = [content EXCEPT ![f] = Append(content[f], RecordOf(p))]
    BY <1>0, RecordType, LenProperties DEF Written, TypeOK
  <1>4. content'[f] = Append(content[f], RecordOf(p))
    BY <1>1, <1>3 DEF TypeOK
  <1>5. /\ Len(content'[f]) = Len(content[f]) + 1
        /\ content'[f][Len(content[f]) + 1] = RecordOf(p)
        /\ \A i \in 1..Len(content[f]) : content'[f][i] = content[f][i]
    BY <1>3, <1>4, AppendProperties
  <1>6. RecordOf(p).op = o /\ RecordOf(p).status = w
    BY DEF RecordOf
  <1>7. LogOf(f)' = LogOf(f) \cup {<<o, w>>}
    <2>1. LogOf(f)' = {<<content'[f][i].op, content'[f][i].status>> : i \in 1..Len(content'[f])}
      BY <1>1, <1>3, <1>4, <1>5 DEF LogOf
    <2>2. 1..(Len(content[f]) + 1) = 1..Len(content[f]) \cup {Len(content[f]) + 1}
      BY <1>3
    <2> QED
      BY <1>5, <1>6, <2>1, <2>2 DEF LogOf
  <1>8. \A g \in Files : g # f => LogOf(g)' = LogOf(g)
    BY <1>3 DEF LogOf, TypeOK
  <1>9. logBar' = [logBar EXCEPT ![f] = logBar[f] \cup {<<o, w>>}]
    BY <1>1, <1>7, <1>8 DEF logBar
  <1>10. Promise!Add(f, <<o, w>>)
    BY <1>9 DEF Promise!Add, logBar, toldBar
  <1>11. CASE w \in Terminal
    <2>1. Promise!Running(LogOf(f)) = {o}
      BY <1>1, <1>2, <1>11, RunningIsActive DEF Accepts, TerminalAllowed
    <2>2. Promise!End(f, o, w)
      BY <1>1, <1>10, <2>1 DEF Promise!End
    <2> QED
      BY <1>1, <1>11, <2>2 DEF Promise!Next, Promise!Ending, Terminal
  <1>12. CASE w \notin Terminal
    <2>1. Active(content[f]) = {} /\ o \notin OperationsOf(content[f])
      BY <1>2, <1>12 DEF Accepts, FreshAllowed
    <2>2. Promise!Running(LogOf(f)) = {} /\ ~Promise!Known(LogOf(f), o)
      BY <1>1, <1>2, <2>1, RunningIsActive
    <2>3. w = "refuse" \/ w = "en_cours"
      BY <1>1, <1>12 DEF Statuses
    <2>4. Promise!Refuse(f, o) \/ Promise!Start(f, o)
      BY <1>1, <1>10, <2>2, <2>3 DEF Promise!Refuse, Promise!Start
    <2> QED
      BY <1>1, <2>4 DEF Promise!Next
  <1> QED
    BY <1>11, <1>12

(* A write that returns success tells a fact that the journal holds.       *)
LEMMA ClosePromises ==
    ASSUME HistoryInv, NEW p \in Procs, CloseAudit(p), Returns(p, TRUE)
    PROVE  Promise!Next
  <1> USE DEF HistoryInv, JournalInv
  <1>1. /\ pc[p] = "close" /\ UNCHANGED <<content, synced, op, ident>>
        /\ acked' = [acked EXCEPT ![p] = acked[p] \cup {want[p]}]
    BY ReturnsCases DEF CloseAudit, files
  <1>2. op[p] \in Ops /\ want[p] \in Statuses
    BY <1>1 DEF LocalInv, Holding, TypeOK
  <1>0. PICK f \in Files : f = fd[p] /\ ident[p] = f
    BY <1>1 DEF LocalInv, Holding
  <1> DEFINE fact == <<op[p], want[p]>>
  <1>3. fact \in LogOf(f)
    <2>1. PICK i \in 1..synced[f] : RecordAt(f, i, p, want[p])
      BY <1>0, <1>1 DEF PlacedInv
    <2>2. i \in 1..Len(content[f])
      BY LenProperties DEF TypeOK, SyncedInv
    <2> QED
      BY <2>1, <2>2 DEF LogOf, RecordAt
  <1>4. ToldOf(f)' = ToldOf(f) \cup {fact}
    <2>1. \A x : x \in ToldOf(f) <=>
                   \E q \in Procs : ident[q] = f /\ \E w \in acked[q] : x = <<op[q], w>>
      BY DEF ToldOf
    <2>2. \A x : x \in ToldOf(f)' <=>
                   \E q \in Procs : ident[q] = f /\ \E w \in acked'[q] : x = <<op[q], w>>
      BY <1>1 DEF ToldOf
    <2> QED
      BY <1>0, <1>1, <2>1, <2>2 DEF TypeOK
  <1>5. \A g \in Files : g # f => ToldOf(g)' = ToldOf(g)
    BY <1>0, <1>1 DEF ToldOf, TypeOK
  <1>6. toldBar' = [toldBar EXCEPT ![f] = toldBar[f] \cup {fact}]
    BY <1>2, <1>4, <1>5 DEF toldBar
  <1>7. logBar' = logBar
    BY <1>1 DEF logBar, LogOf
  <1>8. Promise!Tell(f, fact)
    BY <1>2, <1>3, <1>6, <1>7 DEF Promise!Tell, logBar, toldBar
  <1>9. fact \in Promise!Fact
    BY <1>2 DEF Promise!Fact, Promise!Ending, Statuses, Terminal
  <1> QED
    BY <1>2, <1>8, <1>9 DEF Promise!Next

(* A power loss forgets facts that were not told.                          *)
LEMMA PowerLossPromises ==
    ASSUME HistoryInv, HistoryInv', PowerLoss, toldBar' = toldBar
    PROVE  Promise!Next
  <1>1. ASSUME NEW f \in Files
        PROVE  /\ ToldOf(f) \subseteq LogOf(f)' /\ LogOf(f)' \subseteq LogOf(f)
               /\ \A o : Promise!Ended(LogOf(f)', o) => <<o, "en_cours">> \in LogOf(f)'
               /\ \A o, q \in Promise!Running(LogOf(f)') : o = q
    <2>1. /\ TypeOK /\ TypeOK' /\ SyncedInv' /\ PlacedInv' /\ LifecycleOk(content'[f])
      BY DEF HistoryInv, JournalInv, FileInv, JournalValid
    <2>2. Len(content'[f]) \in Nat /\ synced'[f] \in Nat /\ synced'[f] <= Len(content'[f])
      BY <2>1, LenProperties DEF TypeOK, SyncedInv
    <2>3. ToldOf(f) \subseteq LogOf(f)'
      <3> SUFFICES ASSUME NEW p \in Procs, ident[p] = f, NEW w \in acked[p]
                   PROVE  <<op[p], w>> \in LogOf(f)'
        BY DEF ToldOf
      <3>1. UNCHANGED <<op, ident, acked>>
        BY DEF PowerLoss
      <3>2. PICK i \in 1..synced'[f] : RecordAt(f, i, p, w)'
        BY <2>1, <3>1 DEF PlacedInv
      <3>3. i \in 1..Len(content'[f])
        BY <2>2
      <3> QED
        BY <3>1, <3>2, <3>3 DEF LogOf, RecordAt
    <2>4. LogOf(f)' \subseteq LogOf(f)
      <3>1. /\ content[f] \in Seq(Record) /\ Len(content[f]) \in Nat /\ synced[f] \in Nat
        BY <2>1, LenProperties DEF TypeOK
      <3>2. PICK k \in synced[f]..Len(content[f]) : content'[f] = SubSeq(content[f], 1, k)
        BY <2>1, PowerLossFiles DEF Cut
      <3>3. k \in Nat /\ k <= Len(content[f]) /\ \A i \in 1..k : content[f][i] \in Record
        BY <3>1, <3>2, ElementOfSeq
      <3>4. Len(content'[f]) = k /\ \A i \in 1..k : content'[f][i] = content[f][i]
        BY <3>1, <3>2, <3>3, SubSeqProperties
      <3> QED
        BY <3>1, <3>3, <3>4 DEF LogOf
    <2>5. /\ Promise!Running(LogOf(f)') = Active(content'[f])
          /\ \A o : Promise!Ended(LogOf(f)', o) => <<o, "en_cours">> \in LogOf(f)'
      <3>1. (TypeOK /\ LifecycleOk(content[f]) =>
               /\ Promise!Running(LogOf(f)) = Active(content[f])
               /\ \A o : Promise!Ended(LogOf(f), o) => <<o, "en_cours">> \in LogOf(f))'
        BY RunningIsActive, PTL
      <3> QED
        BY <2>1, <3>1
    <2>6. \A o, q \in Active(content'[f]) : o = q
      BY <2>1, <2>2, ActiveUnique
    <2> QED
      BY <2>3, <2>4, <2>5, <2>6
  <1>2. Promise!Forget
    BY <1>1 DEF Promise!Forget, logBar, toldBar
  <1> QED
    BY <1>2 DEF Promise!Next

(* The journal protocol implements AuditPromise: whatever runs, files,     *)
(* crashes and I/O errors there are, a reader of the files and the callers *)
(* of dfx_write_audit together see a journal that keeps its promise.       *)
THEOREM JournalKeepsPromise == Spec => KeepsPromise
  <1>1. Init => Promise!Init
    <2> SUFFICES ASSUME Init PROVE Promise!Init
      OBVIOUS
    <2>1. \A f \in Files : LogOf(f) = {}
      BY DEF Init, LogOf
    <2>2. \A f \in Files : ToldOf(f) = {}
      BY DEF Init, ToldOf
    <2> QED
      BY <2>1, <2>2 DEF Promise!Init
  <1>2. HistoryInv /\ HistoryInv' /\ [Next]_vars => [Promise!Next]_<<logBar, toldBar>>
    <2> SUFFICES ASSUME HistoryInv, HistoryInv', [Next]_vars
                 PROVE  Promise!Next \/ UNCHANGED <<logBar, toldBar>>
      OBVIOUS
    <2>1. TypeOK
      BY DEF HistoryInv, JournalInv
    <2>2. CASE content' = content /\ acked' = acked
      BY <2>2, ToldStays DEF logBar, LogOf
    <2>3. ASSUME NEW p \in Procs, pc[p] = "append", Written(p), acked' = acked PROVE Promise!Next
      BY <2>3, ToldStays, WrittenPromises
    <2>4. ASSUME NEW p \in Procs, CloseAudit(p), Returns(p, TRUE) PROVE Promise!Next
      BY <2>4, ClosePromises
    <2>5. CASE PowerLoss
      <3>1. acked' = acked
        BY <2>5 DEF PowerLoss
      <3> QED
        BY <2>5, <3>1, ToldStays, PowerLossPromises
    <2> QED
      BY <2>1, <2>2, <2>3, <2>4, <2>5, PromiseCases
  <1>3. HistoryInv /\ HistoryInv' /\ [Next]_vars
          => [Promise!Next]_<<[f \in Files |-> LogOf(f)], [f \in Files |-> ToldOf(f)]>>
    BY <1>2 DEF logBar, toldBar
  <1> QED
    BY <1>1, <1>3, HistoryInvariant, PTL DEF Spec, KeepsPromise, Promise!Spec
=============================================================================
