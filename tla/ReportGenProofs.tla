-------------------------- MODULE ReportGenProofs --------------------------
(***************************************************************************)
(* The report that is published is the journal that was verified, for      *)
(* every number of runs, files, lines and values, while nobody edits a     *)
(* journal in place.                                                       *)
(*                                                                         *)
(* The generator compares the last hash and the number of the lines it     *)
(* read, not the lines.  That this is enough rests on what it read being a *)
(* prefix of a chained journal, although it was read in pieces: ReportInv  *)
(* says so, and Pinned that two chains of one length with one last hash    *)
(* are the same.                                                           *)
(***************************************************************************)
EXTENDS ReportGen, SequenceTheorems, TLAPS

Line == [value : Values, hash : Seq(Values)]
Pdf == [by : Reporters, of : Seq(Line), large : BOOLEAN]
Places == {"verify", "open", "read", "rest", "stat", "parse", "check", "render", "publish",
           "ended", "killed"}
Run == [pc : Places, code : {-1, 0, 2, 3}, count : Nat, last : Seq(Values),
        file : Files \cup {0}, since : Nat, buffer : Seq(Line)]

(* Every line bears the values up to its own.                              *)
Chain(c) ==
    /\ c \in Seq(Line)
    /\ \A i \in 1..Len(c) : c[i].hash = [j \in 1..i |-> c[j].value]

Types ==
    /\ run \in [Reporters -> Run]
    /\ tmp \in [Reporters -> Pdf \cup {None}]
    /\ vouched \in [Reporters -> Seq(Line)]
    /\ name \in Files /\ lines \in [Files -> Seq(Line)] /\ stamp \in [Files -> Nat]

(* What the engine said of the journal it accepted.                        *)
Verified(r) ==
    /\ Chain(vouched[r]) /\ vouched[r] # <<>>
    /\ run[r].count = Len(vouched[r])
    /\ run[r].last = vouched[r][Len(vouched[r])].hash

(* How far a run has come with what it reads and renders.                  *)
RunInv(r) ==
    /\ run[r].pc \notin {"verify", "ended", "killed"} => Verified(r)
    /\ run[r].pc \notin {"verify", "open", "ended", "killed"} => run[r].file \in 1..name
    /\ run[r].pc = "rest" =>
         \E n \in 0..Len(lines[run[r].file]) : run[r].buffer = SubSeq(lines[run[r].file], 1, n)
    /\ run[r].pc \in {"stat", "parse"} => Chain(run[r].buffer)
    /\ run[r].pc \in {"check", "render", "publish"} => run[r].buffer = vouched[r]
    /\ run[r].pc = "publish" => tmp[r] \in Pdf /\ tmp[r].by = r /\ tmp[r].of = vouched[r]

(* The published report is that of a run that has ended.                   *)
OutInv ==
    out \notin {None, Foreign} =>
        out \in Pdf /\ run[out.by].pc = "ended" /\ out.of = vouched[out.by]

ReportInv ==
    /\ Types
    /\ \A f \in Files : Chain(lines[f])
    /\ \A r \in Reporters : RunInv(r)
    /\ OutInv

-----------------------------------------------------------------------------
(* Chains.                                                                 *)

LEMMA SequenceIsItsElements ==
    ASSUME NEW S, NEW s \in Seq(S)
    PROVE  s = [j \in 1..Len(s) |-> s[j]]
  OBVIOUS

(* The values of some lines.                                               *)
LEMMA SaidFacts ==
    ASSUME NEW c \in Seq(Line)
    PROVE  /\ Said(c) \in Seq(Values) /\ Len(Said(c)) = Len(c)
           /\ \A i \in 1..Len(c) : Said(c)[i] = c[i].value /\ c[i].value \in Values
  <1>1. /\ Len(c) \in Nat /\ DOMAIN c = 1..Len(c)
        /\ \A i \in 1..Len(c) : c[i] \in Line
    OBVIOUS
  <1>2. \A i \in 1..Len(c) : c[i].value \in Values
    BY <1>1 DEF Line
  <1> QED
    BY <1>1, <1>2 DEF Said

(* What is made from values is a chain of these values.                    *)
LEMMA ChainedChains ==
    ASSUME NEW v \in Seq(Values)
    PROVE  /\ Chain(Chained(v)) /\ Len(Chained(v)) = Len(v)
           /\ \A i \in 1..Len(v) : Chained(v)[i].value = v[i]
  <1>1. Len(v) \in Nat /\ DOMAIN v = 1..Len(v) /\ \A i \in 1..Len(v) : v[i] \in Values
    OBVIOUS
  <1>2. ASSUME NEW i \in 1..Len(v)
        PROVE  SubSeq(v, 1, i) \in Seq(Values) /\ SubSeq(v, 1, i) = [j \in 1..i |-> v[j]]
    BY <1>1
  <1>3. Chained(v) \in Seq(Line) /\ Len(Chained(v)) = Len(v)
    BY <1>1, <1>2 DEF Chained, Line
  <1>4. ASSUME NEW i \in 1..Len(v)
        PROVE  Chained(v)[i].value = v[i] /\ Chained(v)[i].hash = [j \in 1..i |-> v[j]]
    BY <1>1, <1>2 DEF Chained
  <1>5. ASSUME NEW i \in 1..Len(v)
        PROVE  Chained(v)[i].hash = [j \in 1..i |-> Chained(v)[j].value]
    <2>1. ASSUME NEW j \in 1..i PROVE Chained(v)[j].value = v[j]
      <3>1. j \in 1..Len(v)
        BY <1>1
      <3> QED
        BY <3>1, <1>4
    <2>2. Chained(v)[i].hash = [j \in 1..i |-> v[j]]
      BY <1>4
    <2> QED
      BY <2>1, <2>2
  <1> QED
    BY <1>3, <1>4, <1>5 DEF Chain

(* A journal cut short is a chain.                                         *)
LEMMA ChainPrefix ==
    ASSUME NEW c, Chain(c), NEW n \in 0..Len(c)
    PROVE  Chain(SubSeq(c, 1, n)) /\ Len(SubSeq(c, 1, n)) = n
  <1>1. c \in Seq(Line) /\ Len(c) \in Nat
    BY DEF Chain
  <1>2. /\ SubSeq(c, 1, n) \in Seq(Line) /\ Len(SubSeq(c, 1, n)) = n
        /\ \A i \in 1..n : SubSeq(c, 1, n)[i] = c[i]
    BY <1>1, SubSeqProperties
  <1>3. ASSUME NEW i \in 1..n
        PROVE  SubSeq(c, 1, n)[i].hash = [j \in 1..i |-> SubSeq(c, 1, n)[j].value]
    <2>1. \A j \in 1..i : j \in 1..n /\ SubSeq(c, 1, n)[j] = c[j]
      BY <1>2
    <2>2. c[i].hash = [j \in 1..i |-> c[j].value]
      BY <1>1 DEF Chain
    <2> QED
      BY <1>2, <2>1, <2>2
  <1> QED
    BY <1>2, <1>3 DEF Chain

(* The engine's appended line extends the chain.                           *)
LEMMA ChainAppend ==
    ASSUME NEW c, Chain(c), NEW v \in Values
    PROVE  LET d == Append(c, [value |-> v, hash |-> Append(Said(c), v)])
           IN  Chain(d) /\ Len(d) = Len(c) + 1 /\ \A i \in 1..Len(c) : d[i] = c[i]
  <1> DEFINE l == [value |-> v, hash |-> Append(Said(c), v)]
             d == Append(c, l)
  <1>1. c \in Seq(Line) /\ Len(c) \in Nat
    BY DEF Chain
  <1>2. /\ Said(c) \in Seq(Values) /\ Len(Said(c)) = Len(c)
        /\ \A i \in 1..Len(c) : Said(c)[i] = c[i].value
    BY <1>1, SaidFacts
  <1>3. l \in Line
    BY <1>2 DEF Line
  <1>4. /\ d \in Seq(Line) /\ Len(d) = Len(c) + 1
        /\ \A i \in 1..Len(c) : d[i] = c[i]
        /\ d[Len(c) + 1] = l
    BY <1>1, <1>3
  <1>5. l.value = v /\ l.hash = Append(Said(c), v)
    OBVIOUS
  <1> HIDE DEF d, l
  <1>6. Append(Said(c), v) = [j \in 1..(Len(c) + 1) |-> d[j].value]
    <2>1. /\ Append(Said(c), v) \in Seq(Values) /\ Len(Append(Said(c), v)) = Len(c) + 1
          /\ \A j \in 1..Len(c) : Append(Said(c), v)[j] = c[j].value
          /\ Append(Said(c), v)[Len(c) + 1] = v
      BY <1>1, <1>2
    <2>2. \A j \in 1..(Len(c) + 1) : Append(Said(c), v)[j] = d[j].value
      BY <1>1, <1>4, <1>5, <2>1
    <2>3. Append(Said(c), v) = [j \in 1..(Len(c) + 1) |-> Append(Said(c), v)[j]]
      BY <2>1, SequenceIsItsElements
    <2> QED
      BY <2>2, <2>3, Zenon
  <1>7. ASSUME NEW i \in 1..Len(d) PROVE d[i].hash = [j \in 1..i |-> d[j].value]
    <2>1. CASE i = Len(c) + 1
      BY <1>4, <1>5, <1>6, <2>1
    <2>2. CASE i \in 1..Len(c)
      <3>1. c[i].hash = [j \in 1..i |-> c[j].value]
        BY <2>2 DEF Chain
      <3>2. \A j \in 1..i : d[j] = c[j]
        BY <1>4, <2>2
      <3> QED
        BY <1>4, <2>2, <3>1, <3>2
    <2> QED
      BY <1>1, <1>4, <2>1, <2>2
  <1>8. Chain(d)
    BY <1>4, <1>7 DEF Chain
  <1> QED
    BY <1>4, <1>8 DEF d, l

(* The number of lines and the hash of the last pin a chain down.          *)
LEMMA Pinned ==
    ASSUME NEW c, NEW d, Chain(c), Chain(d), c # <<>>, Len(c) = Len(d),
           c[Len(c)].hash = d[Len(d)].hash
    PROVE  c = d
  <1> DEFINE n == Len(c)
  <1>1. c \in Seq(Line) /\ d \in Seq(Line) /\ n \in Nat \ {0} /\ n = Len(d)
    BY DEF Chain
  <1>2. [j \in 1..n |-> c[j].value] = [j \in 1..n |-> d[j].value]
    <2>1. n \in 1..Len(c) /\ n \in 1..Len(d)
      BY <1>1
    <2>2. /\ c[n].hash = [j \in 1..n |-> c[j].value]
          /\ d[n].hash = [j \in 1..n |-> d[j].value]
      BY <2>1 DEF Chain
    <2> QED
      BY <1>1, <2>2
  <1>3. \A j \in 1..n : c[j].value = d[j].value
    <2> SUFFICES ASSUME NEW j \in 1..n PROVE c[j].value = d[j].value
      OBVIOUS
    <2>1. [k \in 1..n |-> c[k].value][j] = [k \in 1..n |-> d[k].value][j]
      BY <1>2
    <2> QED
      BY <2>1
  <1>4. \A i \in 1..n : c[i] = d[i]
    <2> SUFFICES ASSUME NEW i \in 1..n PROVE c[i] = d[i]
      OBVIOUS
    <2>1. c[i] \in Line /\ d[i] \in Line
      BY <1>1
    <2>2. \A j \in 1..i : c[j].value = d[j].value
      BY <1>1, <1>3
    <2>3. c[i].hash = [j \in 1..i |-> c[j].value] /\ d[i].hash = [j \in 1..i |-> d[j].value]
      BY <1>1 DEF Chain
    <2>4. c[i].hash = d[i].hash
      BY <2>2, <2>3
    <2> QED
      BY <1>3, <2>1, <2>4 DEF Line
  <1> QED
    BY <1>1, <1>4

-----------------------------------------------------------------------------
(* The runs.                                                               *)

(* A run changes nothing of the journals, and nothing of another run.      *)
LEMMA StepFrame ==
    ASSUME Types, NEW r \in Reporters, Step(r)
    PROVE  /\ UNCHANGED <<name, lines, stamp>>
           /\ \A s \in Reporters \ {r} :
                run'[s] = run[s] /\ tmp'[s] = tmp[s] /\ vouched'[s] = vouched[s]
  <1> USE DEF Types, journal, Ends, Goes, Discard
  <1>1. CASE VerifyAudit(r)
    BY <1>1 DEF VerifyAudit
  <1>2. CASE VerifyFails(r)
    BY <1>2 DEF VerifyFails
  <1>3. CASE OpenSource(r)
    BY <1>3 DEF OpenSource
  <1>4. CASE ReadSome(r)
    BY <1>4 DEF ReadSome
  <1>5. CASE ReadRest(r)
    BY <1>5 DEF ReadRest
  <1>6. CASE CompareSource(r)
    BY <1>6 DEF CompareSource
  <1>7. CASE SourceFails(r)
    BY <1>7 DEF SourceFails
  <1>8. CASE Parse(r)
    BY <1>8 DEF Parse
  <1>9. CASE CheckOutput(r)
    BY <1>9 DEF CheckOutput
  <1>10. CASE OutputFails(r)
    BY <1>10 DEF OutputFails
  <1>11. CASE Render(r)
    BY <1>11 DEF Render
  <1>12. CASE RenderFails(r)
    BY <1>12 DEF RenderFails
  <1>13. CASE Publish(r)
    BY <1>13 DEF Publish
  <1>14. CASE PublishFails(r)
    BY <1>14 DEF PublishFails
  <1>15. CASE Kill(r)
    BY <1>15 DEF Kill
  <1> QED
    BY <1>1, <1>2, <1>3, <1>4, <1>5, <1>6, <1>7, <1>8, <1>9, <1>10, <1>11, <1>12, <1>13,
       <1>14, <1>15 DEF Step

(* A run that ends, or goes on to another place, stays well typed.         *)
LEMMA EndsFacts ==
    ASSUME Types, NEW r \in Reporters, NEW code \in {0, 2, 3}, Ends(r, code)
    PROVE  run' \in [Reporters -> Run] /\ run'[r].pc = "ended"
  <1> DEFINE w == [run[r] EXCEPT !.pc = "ended", !.code = code]
  <1>1. run[r] \in Run
    BY DEF Types
  <1>2. w \in Run /\ w.pc = "ended"
    BY <1>1 DEF Run, Places
  <1>3. run' = [run EXCEPT ![r] = w]
    BY DEF Ends, Types
  <1> HIDE DEF w
  <1> QED
    BY <1>2, <1>3 DEF Types

LEMMA GoesFacts ==
    ASSUME Types, NEW r \in Reporters, NEW place \in Places, Goes(r, place)
    PROVE  /\ run' \in [Reporters -> Run] /\ run'[r].pc = place
           /\ run'[r].count = run[r].count /\ run'[r].last = run[r].last
           /\ run'[r].file = run[r].file /\ run'[r].buffer = run[r].buffer
  <1> DEFINE w == [run[r] EXCEPT !.pc = place]
  <1>1. run[r] \in Run
    BY DEF Types
  <1>2. /\ w \in Run /\ w.pc = place /\ w.count = run[r].count /\ w.last = run[r].last
        /\ w.file = run[r].file /\ w.buffer = run[r].buffer
    BY <1>1 DEF Run
  <1>3. run' = [run EXCEPT ![r] = w]
    BY DEF Goes, Types
  <1> HIDE DEF w
  <1> QED
    BY <1>2, <1>3 DEF Types

(* The engine accepts a chain, and says its length and last hash.          *)
LEMMA VerifyFacts ==
    ASSUME Types, NEW r \in Reporters, VerifyAudit(r), \A f \in Files : Chain(lines[f])
    PROVE  /\ run' \in [Reporters -> Run] /\ run'[r].pc = "open"
           /\ vouched' \in [Reporters -> Seq(Line)]
           /\ Verified(r)'
  <1> DEFINE c == lines[name]
             w == [run[r] EXCEPT !.pc = "open", !.count = Len(c), !.last = c[Len(c)].hash]
  <1>1. run[r] \in Run
    BY DEF Types
  <1>2. c \in Seq(Line) /\ Chain(c) /\ c # <<>>
    BY DEF Types, VerifyAudit, Accepted, Complete
  <1>3. Len(c) \in Nat /\ c[Len(c)].hash \in Seq(Values)
    <2>1. Len(c) \in 1..Len(c)
      BY <1>2
    <2>2. c[Len(c)] \in Line
      BY <1>2, <2>1
    <2> QED
      BY <1>2, <2>2 DEF Line
  <1>4. run' = [run EXCEPT ![r] = w] /\ vouched' = [vouched EXCEPT ![r] = c]
    BY DEF VerifyAudit, Types
  <1> HIDE DEF c
  <1>5. w \in Run /\ w.pc = "open" /\ w.count = Len(c) /\ w.last = c[Len(c)].hash
    BY <1>1, <1>3 DEF Run, Places
  <1> HIDE DEF w
  <1>6. run' \in [Reporters -> Run] /\ run'[r] = w
    BY <1>4, <1>5 DEF Types
  <1>7. vouched' \in [Reporters -> Seq(Line)] /\ vouched'[r] = c
    BY <1>2, <1>4 DEF Types
  <1> QED
    BY <1>2, <1>5, <1>6, <1>7 DEF Verified

(* Opening and reading: what is known of the run afterwards.               *)
LEMMA OpenFacts ==
    ASSUME Types, NEW r \in Reporters, OpenSource(r)
    PROVE  /\ run' \in [Reporters -> Run] /\ run'[r].pc = "read"
           /\ run'[r].count = run[r].count /\ run'[r].last = run[r].last
           /\ run'[r].file = name
  <1> DEFINE w == [run[r] EXCEPT !.pc = "read", !.file = name, !.since = stamp[name]]
  <1>1. run[r] \in Run /\ name \in Files /\ stamp[name] \in Nat
    BY DEF Types
  <1>2. /\ w \in Run /\ w.pc = "read" /\ w.file = name
        /\ w.count = run[r].count /\ w.last = run[r].last
    BY <1>1 DEF Run, Places
  <1>3. run' = [run EXCEPT ![r] = w]
    BY DEF OpenSource, Types
  <1> HIDE DEF w
  <1> QED
    BY <1>2, <1>3 DEF Types

LEMMA ReadFacts ==
    ASSUME Types, NEW r \in Reporters, NEW place \in Places, NEW b \in Seq(Line),
           run' = [run EXCEPT ![r].pc = place, ![r].buffer = b]
    PROVE  /\ run' \in [Reporters -> Run] /\ run'[r].pc = place /\ run'[r].buffer = b
           /\ run'[r].count = run[r].count /\ run'[r].last = run[r].last
           /\ run'[r].file = run[r].file
  <1> DEFINE w == [run[r] EXCEPT !.pc = place, !.buffer = b]
  <1>1. run[r] \in Run
    BY DEF Types
  <1>2. /\ w \in Run /\ w.pc = place /\ w.buffer = b
        /\ w.count = run[r].count /\ w.last = run[r].last /\ w.file = run[r].file
    BY <1>1 DEF Run
  <1>3. run' = [run EXCEPT ![r] = w]
    BY DEF Types
  <1> HIDE DEF w
  <1> QED
    BY <1>2, <1>3 DEF Types

(* The pieces that are read make the whole.                                *)
LEMMA Rejoined ==
    ASSUME NEW c \in Seq(Line), NEW n \in 0..Len(c)
    PROVE  /\ Len(SubSeq(c, 1, n)) = n
           /\ SubSeq(c, 1, n) \o SubSeq(c, n + 1, Len(c)) = c
  <1> DEFINE a == SubSeq(c, 1, n)
             b == SubSeq(c, n + 1, Len(c))
  <1>1. a \in Seq(Line) /\ Len(a) = n /\ \A i \in 1..n : a[i] = c[i]
    BY SubSeqProperties
  <1>2. /\ b \in Seq(Line) /\ Len(b) = Len(c) - n
        /\ \A i \in 1..(Len(c) - n) : b[i] = c[n + i]
    BY SubSeqProperties
  <1> HIDE DEF a, b
  <1>3. /\ Len(a) + Len(b) = Len(c) /\ Len(c) \in Nat
        /\ a \o b \in Seq(Line) /\ Len(a \o b) = Len(a) + Len(b)
        /\ \A i \in 1..Len(c) : (a \o b)[i] = IF i <= Len(a) THEN a[i] ELSE b[i - Len(a)]
    BY <1>1, <1>2, ConcatProperties
  <1>4. \A i \in 1..Len(c) : (a \o b)[i] = c[i]
    <2> SUFFICES ASSUME NEW i \in 1..Len(c) PROVE (a \o b)[i] = c[i]
      OBVIOUS
    <2>1. CASE i <= n
      BY <1>1, <1>3, <2>1
    <2>2. CASE ~(i <= n)
      <3>1. i - n \in 1..(Len(c) - n) /\ n + (i - n) = i
        BY <1>3, <2>2
      <3> QED
        BY <1>1, <1>2, <1>3, <2>2, <3>1
    <2> QED
      BY <2>1, <2>2
  <1>5. a \o b = c
    BY <1>3, <1>4, SeqEqual
  <1> QED
    BY <1>1, <1>5 DEF a, b

(* A run keeps its types, and what is said of it.                          *)
LEMMA StepKeeps ==
    ASSUME Types, \A f \in Files : Chain(lines[f]), NEW r \in Reporters, RunInv(r), Step(r)
    PROVE  /\ run' \in [Reporters -> Run] /\ tmp' \in [Reporters -> Pdf \cup {None}]
           /\ vouched' \in [Reporters -> Seq(Line)]
           /\ RunInv(r)'
  <1>1. CASE VerifyAudit(r)
    <2>1. UNCHANGED <<tmp, lines, name>>
      BY <1>1 DEF VerifyAudit, journal
    <2> QED
      BY <1>1, <2>1, VerifyFacts DEF RunInv, Types
  <1>2. CASE VerifyFails(r)
    <2>1. PICK code \in {0, 2, 3} : Ends(r, code)
      BY <1>2 DEF VerifyFails
    <2>2. run' \in [Reporters -> Run] /\ run'[r].pc = "ended"
      BY <2>1, EndsFacts
    <2>3. vouched' = vouched /\ (tmp' = tmp \/ tmp' = [tmp EXCEPT ![r] = None])
      BY <1>2 DEF VerifyFails, Discard
    <2> QED
      BY <2>2, <2>3 DEF RunInv, Types
  <1>3. CASE OpenSource(r)
    <2>1. UNCHANGED <<tmp, vouched, lines, name>> /\ run[r].pc = "open"
      BY <1>3 DEF OpenSource, journal
    <2> QED
      BY <1>3, <2>1, OpenFacts DEF RunInv, Verified, Types, Files
  <1>4. CASE ReadSome(r)
    <2>1. UNCHANGED <<tmp, vouched, lines, name>> /\ run[r].pc = "read"
      BY <1>4 DEF ReadSome, journal
    <2>2. run[r].file \in 1..name /\ lines[run[r].file] \in Seq(Line)
      BY <2>1, ReportAssumption DEF RunInv, Types, Files
    <2>3. PICK n \in 0..Len(lines[run[r].file]) :
             run' = [run EXCEPT ![r].pc = "rest", ![r].buffer = SubSeq(lines[run[r].file], 1, n)]
      BY <1>4 DEF ReadSome
    <2>4. SubSeq(lines[run[r].file], 1, n) \in Seq(Line)
      BY <2>2, SubSeqProperties
    <2>5. /\ run' \in [Reporters -> Run] /\ run'[r].pc = "rest"
          /\ run'[r].buffer = SubSeq(lines[run[r].file], 1, n)
          /\ run'[r].count = run[r].count /\ run'[r].last = run[r].last
          /\ run'[r].file = run[r].file
      BY <2>3, <2>4, ReadFacts DEF Places
    <2> QED
      BY <2>1, <2>2, <2>5 DEF RunInv, Verified, Types
  <1>5. CASE ReadRest(r)
    <2> DEFINE c == lines[run[r].file]
               b == run[r].buffer
    <2>1. UNCHANGED <<tmp, vouched, lines, name>> /\ run[r].pc = "rest"
      BY <1>5 DEF ReadRest, journal
    <2>2. run[r].file \in Files /\ c \in Seq(Line) /\ Chain(c)
      BY <2>1, ReportAssumption DEF RunInv, Types, Files
    <2>3. b \o SubSeq(c, Len(b) + 1, Len(c)) = c
      <3>1. PICK n \in 0..Len(c) : b = SubSeq(c, 1, n)
        BY <2>1 DEF RunInv
      <3>2. Len(b) = n /\ SubSeq(c, 1, n) \o SubSeq(c, n + 1, Len(c)) = c
        BY <2>2, <3>1, Rejoined
      <3> QED
        BY <3>1, <3>2
    <2>4. run' = [run EXCEPT ![r].pc = "stat", ![r].buffer = c]
      BY <1>5, <2>3 DEF ReadRest, Types
    <2>5. /\ run' \in [Reporters -> Run] /\ run'[r].pc = "stat" /\ run'[r].buffer = c
          /\ run'[r].count = run[r].count /\ run'[r].last = run[r].last
          /\ run'[r].file = run[r].file
      BY <2>2, <2>4, ReadFacts DEF Places
    <2> QED
      BY <2>1, <2>2, <2>5 DEF RunInv, Verified, Types
  <1>6. CASE CompareSource(r)
    <2>1. Goes(r, "parse") \/ Ends(r, 2)
      BY <1>6 DEF CompareSource
    <2>2. UNCHANGED <<tmp, vouched, lines, name>> /\ run[r].pc = "stat"
      BY <1>6 DEF CompareSource, journal
    <2>3. CASE Goes(r, "parse")
      BY <2>2, <2>3, GoesFacts DEF RunInv, Verified, Types, Places
    <2>4. CASE Ends(r, 2)
      BY <2>2, <2>4, EndsFacts DEF RunInv, Types
    <2> QED
      BY <2>1, <2>3, <2>4
  <1>7. CASE SourceFails(r)
    <2>1. PICK code \in {0, 2, 3} : Ends(r, code)
      BY <1>7 DEF SourceFails
    <2>2. run' \in [Reporters -> Run] /\ run'[r].pc = "ended"
      BY <2>1, EndsFacts
    <2>3. vouched' = vouched /\ (tmp' = tmp \/ tmp' = [tmp EXCEPT ![r] = None])
      BY <1>7 DEF SourceFails, Discard
    <2> QED
      BY <2>2, <2>3 DEF RunInv, Types
  <1>8. CASE Parse(r)
    <2>1. (Matches(r) /\ Complete(run[r].buffer) /\ Goes(r, "check")) \/ Ends(r, 2)
      BY <1>8 DEF Parse
    <2>2. UNCHANGED <<tmp, vouched, lines, name>> /\ run[r].pc = "parse"
      BY <1>8 DEF Parse, journal
    <2>3. CASE Matches(r) /\ Complete(run[r].buffer) /\ Goes(r, "check")
      <3>1. Verified(r) /\ Chain(run[r].buffer)
        BY <2>2 DEF RunInv
      <3>2. run[r].buffer = vouched[r]
        BY <2>3, <3>1, Pinned DEF Matches, Complete, Verified
      <3> QED
        BY <2>2, <2>3, <3>1, <3>2, GoesFacts DEF RunInv, Verified, Types, Places
    <2>4. CASE Ends(r, 2)
      BY <2>2, <2>4, EndsFacts DEF RunInv, Types
    <2> QED
      BY <2>1, <2>3, <2>4
  <1>9. CASE CheckOutput(r)
    <2>1. UNCHANGED <<vouched, lines, name>> /\ run[r].pc = "check"
      BY <1>9 DEF CheckOutput, journal
    <2>2. CASE Ends(r, 2) /\ UNCHANGED tmp
      BY <2>1, <2>2, EndsFacts DEF RunInv, Types
    <2>3. CASE Goes(r, "render") /\ tmp' = [tmp EXCEPT ![r] = [by |-> r, of |-> <<>>, large |-> FALSE]]
      <3>1. [by |-> r, of |-> <<>>, large |-> FALSE] \in Pdf
        BY DEF Pdf
      <3> QED
        BY <2>1, <2>3, <3>1, GoesFacts DEF RunInv, Verified, Types, Places
    <2> QED
      BY <1>9, <2>2, <2>3 DEF CheckOutput
  <1>10. CASE OutputFails(r)
    <2>1. PICK code \in {0, 2, 3} : Ends(r, code)
      BY <1>10 DEF OutputFails
    <2>2. run' \in [Reporters -> Run] /\ run'[r].pc = "ended"
      BY <2>1, EndsFacts
    <2>3. vouched' = vouched /\ (tmp' = tmp \/ tmp' = [tmp EXCEPT ![r] = None])
      BY <1>10 DEF OutputFails, Discard
    <2> QED
      BY <2>2, <2>3 DEF RunInv, Types
  <1>11. CASE Render(r)
    <2>1. UNCHANGED <<vouched, lines, name>> /\ run[r].pc = "render" /\ Goes(r, "publish")
      BY <1>11 DEF Render, journal
    <2>2. run[r].buffer = vouched[r] /\ vouched[r] \in Seq(Line)
      BY <2>1 DEF RunInv, Types
    <2>3. PICK large \in BOOLEAN :
             tmp' = [tmp EXCEPT ![r] = [by |-> r, of |-> run[r].buffer, large |-> large]]
      BY <1>11 DEF Render
    <2>4. [by |-> r, of |-> run[r].buffer, large |-> large] \in Pdf
      BY <2>2 DEF Pdf
    <2>5. tmp' \in [Reporters -> Pdf \cup {None}] /\ tmp'[r] \in Pdf
          /\ tmp'[r].by = r /\ tmp'[r].of = vouched[r]
      BY <2>2, <2>3, <2>4 DEF Types
    <2> QED
      BY <2>1, <2>2, <2>5, GoesFacts DEF RunInv, Verified, Types, Places
  <1>12. CASE RenderFails(r)
    <2>1. PICK code \in {0, 2, 3} : Ends(r, code)
      BY <1>12 DEF RenderFails
    <2>2. run' \in [Reporters -> Run] /\ run'[r].pc = "ended"
      BY <2>1, EndsFacts
    <2>3. vouched' = vouched /\ (tmp' = tmp \/ tmp' = [tmp EXCEPT ![r] = None])
      BY <1>12 DEF RenderFails, Discard
    <2> QED
      BY <2>2, <2>3 DEF RunInv, Types
  <1>13. CASE Publish(r)
    <2>1. PICK code \in {0, 2, 3} : Ends(r, code)
      BY <1>13 DEF Publish
    <2>2. run' \in [Reporters -> Run] /\ run'[r].pc = "ended"
      BY <2>1, EndsFacts
    <2>3. vouched' = vouched /\ (tmp' = tmp \/ tmp' = [tmp EXCEPT ![r] = None])
      BY <1>13 DEF Publish, Discard
    <2> QED
      BY <2>2, <2>3 DEF RunInv, Types
  <1>14. CASE PublishFails(r)
    <2>1. PICK code \in {0, 2, 3} : Ends(r, code)
      BY <1>14 DEF PublishFails
    <2>2. run' \in [Reporters -> Run] /\ run'[r].pc = "ended"
      BY <2>1, EndsFacts
    <2>3. vouched' = vouched /\ (tmp' = tmp \/ tmp' = [tmp EXCEPT ![r] = None])
      BY <1>14 DEF PublishFails, Discard
    <2> QED
      BY <2>2, <2>3 DEF RunInv, Types
  <1>15. CASE Kill(r)
    <2>1. Goes(r, "killed") /\ UNCHANGED <<tmp, vouched, lines, name>>
      BY <1>15 DEF Kill, journal
    <2> QED
      BY <2>1, GoesFacts DEF RunInv, Types, Places
  <1> QED
    BY <1>1, <1>2, <1>3, <1>4, <1>5, <1>6, <1>7, <1>8, <1>9, <1>10, <1>11, <1>12, <1>13,
       <1>14, <1>15 DEF Step

-----------------------------------------------------------------------------
(* The journals and the output.                                            *)

(* Whoever moves, the journals stay chains, and the ones that had the name *)
(* so far keep the lines they had.                                         *)
LEMMA JournalsStep ==
    ASSUME Types, \A f \in Files : Chain(lines[f]), [Next]_vars
    PROVE  /\ name' \in Files /\ lines' \in [Files -> Seq(Line)]
           /\ stamp' \in [Files -> Nat]
           /\ \A f \in Files : Chain(lines'[f])
           /\ name <= name'
           /\ \A f \in 1..name :
                /\ Len(lines[f]) <= Len(lines'[f])
                /\ \A n \in 0..Len(lines[f]) :
                     SubSeq(lines'[f], 1, n) = SubSeq(lines[f], 1, n)
  <1> USE DEF Types
  <1>1. CASE UNCHANGED <<name, lines, stamp>>
    <2>1. \A f \in 1..name : f \in Files
      BY ReportAssumption DEF Files
    <2>2. \A f \in 1..name : Len(lines[f]) \in Nat
      BY <2>1
    <2> QED
      BY <1>1, <2>2 DEF Files
  <1>2. CASE \E v \in Values : Append1(v)
    <2>1. PICK v \in Values : Append1(v)
      BY <1>2
    <2> DEFINE c == lines[name]
               d == Append(c, [value |-> v, hash |-> Append(Said(c), v)])
    <2>2. /\ Chain(c) /\ Chain(d) /\ Len(d) = Len(c) + 1
          /\ \A i \in 1..Len(c) : d[i] = c[i]
      BY ChainAppend
    <2>3. /\ lines' = [lines EXCEPT ![name] = d] /\ name' = name
          /\ stamp' = [stamp EXCEPT ![name] = stamp[name] + 1]
      BY <2>1 DEF Append1
    <2> HIDE DEF d
    <2>4. c \in Seq(Line) /\ d \in Seq(Line) /\ Len(c) \in Nat
      BY <2>2 DEF Chain
    <2>5. ASSUME NEW n \in 0..Len(c) PROVE SubSeq(d, 1, n) = SubSeq(c, 1, n)
      <3>1. n \in 0..Len(c) /\ n \in 0..Len(d)
        BY <2>2, <2>4
      <3>2. /\ SubSeq(c, 1, n) \in Seq(Line) /\ Len(SubSeq(c, 1, n)) = n
            /\ \A i \in 1..n : SubSeq(c, 1, n)[i] = c[i]
        BY <2>4, <3>1, SubSeqProperties
      <3>3. /\ SubSeq(d, 1, n) \in Seq(Line) /\ Len(SubSeq(d, 1, n)) = n
            /\ \A i \in 1..n : SubSeq(d, 1, n)[i] = d[i]
        BY <2>4, <3>1, SubSeqProperties
      <3>4. \A i \in 1..n : SubSeq(d, 1, n)[i] = SubSeq(c, 1, n)[i]
        BY <2>2, <2>4, <3>2, <3>3
      <3> QED
        BY <3>2, <3>3, <3>4, SeqEqual
    <2>6. /\ \A f \in Files : lines'[f] = IF f = name THEN d ELSE lines[f]
          /\ lines' \in [Files -> Seq(Line)] /\ stamp' \in [Files -> Nat]
      BY <2>3, <2>4
    <2>7. \A f \in 1..name : f \in Files /\ Len(lines[f]) \in Nat
      BY ReportAssumption DEF Files
    <2>8. ASSUME NEW f \in 1..name
          PROVE  /\ Len(lines[f]) <= Len(lines'[f])
                 /\ \A n \in 0..Len(lines[f]) :
                      SubSeq(lines'[f], 1, n) = SubSeq(lines[f], 1, n)
      <3>1. CASE f = name
        BY <2>2, <2>4, <2>5, <2>6, <3>1
      <3>2. CASE f # name
        BY <2>6, <2>7, <3>2
      <3> QED
        BY <3>1, <3>2
    <2>9. name' \in Files /\ name <= name'
      BY <2>3, ReportAssumption DEF Files
    <2>10. \A f \in Files : Chain(lines'[f])
      BY <2>2, <2>6
    <2> QED
      BY <2>6, <2>8, <2>9, <2>10
  <1>3. CASE Rotate
    <2>1. PICK v \in [1..2 -> Values] : lines' = [lines EXCEPT ![name + 1] = Chained(v)]
      BY <1>3 DEF Rotate
    <2> HIDE DEF Types
    <2>2. v \in Seq(Values)
      BY <2>1, SeqDef
    <2>3. Chain(Chained(v)) /\ Chained(v) \in Seq(Line)
      BY <2>2, ChainedChains DEF Chain
    <2> USE DEF Types
    <2>4. name' = name + 1 /\ name + 1 \in Files /\ stamp' = stamp
      BY <1>3, ReportAssumption DEF Rotate, Files
    <2>5. \A f \in 1..name : f \in Files /\ Len(lines[f]) \in Nat /\ f # name + 1
      BY ReportAssumption DEF Files
    <2>6. /\ lines' \in [Files -> Seq(Line)]
          /\ \A f \in Files : lines'[f] = IF f = name + 1 THEN Chained(v) ELSE lines[f]
      BY <2>1, <2>3, <2>4
    <2>7. name <= name'
      BY <2>4 DEF Files
    <2>8. \A f \in Files : Chain(lines'[f])
      BY <2>3, <2>6
    <2>9. \A f \in 1..name : lines'[f] = lines[f]
      BY <2>5, <2>6
    <2> QED
      BY <2>4, <2>5, <2>6, <2>7, <2>8, <2>9
  <1>4. CASE WriteOutput
    BY <1>4, <1>1 DEF WriteOutput, journal
  <1>5. CASE \E r \in Reporters : Step(r)
    BY <1>5, <1>1, StepFrame
  <1>6. CASE UNCHANGED vars
    BY <1>6, <1>1 DEF vars
  <1> QED
    BY <1>2, <1>3, <1>4, <1>5, <1>6 DEF Next

(* A run that does not move stays what it was, while the journals grow.    *)
LEMMA RunStill ==
    ASSUME Types, \A f \in Files : Chain(lines[f]), [Next]_vars,
           NEW s \in Reporters, RunInv(s),
           run'[s] = run[s], tmp'[s] = tmp[s], vouched'[s] = vouched[s]
    PROVE  RunInv(s)'
  <1>1. /\ name <= name' /\ name \in Nat /\ name' \in Nat
        /\ \A f \in 1..name :
             /\ Len(lines[f]) \in Nat /\ Len(lines'[f]) \in Nat
             /\ Len(lines[f]) <= Len(lines'[f])
             /\ \A n \in 0..Len(lines[f]) : SubSeq(lines'[f], 1, n) = SubSeq(lines[f], 1, n)
    <2>1. \A f \in 1..name : f \in Files
      BY ReportAssumption DEF Types, Files
    <2> QED
      BY <2>1, JournalsStep DEF Types, Files
  <1>2. run[s].pc \notin {"verify", "open", "ended", "killed"} => run[s].file \in 1..name
    BY DEF RunInv
  <1>3. run[s].pc = "rest" =>
          \E n \in 0..Len(lines'[run[s].file]) :
            run[s].buffer = SubSeq(lines'[run[s].file], 1, n)
    <2> SUFFICES ASSUME run[s].pc = "rest"
                 PROVE  \E n \in 0..Len(lines'[run[s].file]) :
                          run[s].buffer = SubSeq(lines'[run[s].file], 1, n)
      OBVIOUS
    <2>1. PICK n \in 0..Len(lines[run[s].file]) :
             run[s].buffer = SubSeq(lines[run[s].file], 1, n)
      BY DEF RunInv
    <2>2. run[s].file \in 1..name
      BY <1>2
    <2>3. /\ n \in 0..Len(lines'[run[s].file])
          /\ SubSeq(lines'[run[s].file], 1, n) = SubSeq(lines[run[s].file], 1, n)
      BY <1>1, <2>2
    <2> QED
      BY <2>1, <2>3
  <1> QED
    BY <1>1, <1>2, <1>3 DEF RunInv, Verified

(* Nothing but a run and its renaming makes a report of the output.        *)
LEMMA OutStep ==
    ASSUME ReportInv, [Next]_vars
    PROVE  OutInv'
  <1> USE DEF ReportInv, Types
  <1>1. CASE \E r \in Reporters : Step(r)
    <2>1. PICK r \in Reporters : Step(r)
      BY <1>1
    <2>2. CASE Publish(r)
      <3>1. run[r].pc = "publish" /\ out' = tmp[r] /\ UNCHANGED vouched /\ Ends(r, 0)
        BY <2>2 DEF Publish
      <3>2. tmp[r] \in Pdf /\ tmp[r].by = r /\ tmp[r].of = vouched[r]
        BY <3>1 DEF RunInv
      <3>3. run'[r].pc = "ended"
        BY <3>1, EndsFacts
      <3> QED
        BY <3>1, <3>2, <3>3 DEF OutInv
    <2>3. CASE ~Publish(r)
      <3>1. UNCHANGED out /\ run[r].pc # "ended"
        BY <2>1, <2>3 DEF Step, VerifyAudit, VerifyFails, OpenSource, SourceFails,
           ReadSome,
           ReadRest, CompareSource, Parse, CheckOutput, OutputFails, Render, RenderFails,
           PublishFails, Kill
      <3>2. \A s \in Reporters \ {r} : run'[s] = run[s] /\ vouched'[s] = vouched[s]
        BY <2>1, StepFrame
      <3>3. out \notin {None, Foreign} => out \in Pdf /\ out.by \in Reporters /\ out.by # r
        BY <3>1 DEF OutInv, Pdf
      <3> QED
        BY <3>1, <3>2, <3>3 DEF OutInv
    <2> QED
      BY <2>2, <2>3
  <1>2. CASE WriteOutput
    BY <1>2 DEF WriteOutput, OutInv
  <1>3. CASE (\E v \in Values : Append1(v)) \/ Rotate \/ UNCHANGED vars
    BY <1>3 DEF Append1, Rotate, own, vars, OutInv
  <1> QED
    BY <1>1, <1>2, <1>3 DEF Next

-----------------------------------------------------------------------------
(* The theorems.                                                           *)

(* What is known of every run, journal and report at every moment.         *)
THEOREM ReportInvariant == Spec => []ReportInv
  <1>1. Init => ReportInv
    <2> SUFFICES ASSUME Init PROVE ReportInv
      OBVIOUS
    <2>1. PICK v \in [1..2 -> Values] :
             lines = [f \in Files |-> IF f = 1 THEN Chained(v) ELSE <<>>]
      BY DEF Init
    <2>2. v \in Seq(Values)
      BY SeqDef
    <2>3. Chain(Chained(v)) /\ Chain(<<>>)
      BY <2>2, ChainedChains DEF Chain
    <2>4. \A f \in Files : Chain(lines[f])
      BY <2>1, <2>3
    <2>5. lines \in [Files -> Seq(Line)]
      BY <2>1, <2>3 DEF Chain
    <2>6. Idle \in Run /\ Idle.pc = "verify"
      BY DEF Idle, Run, Places
    <2>7. Types
      <3>1. <<>> \in Seq(Line) /\ 1 \in Files
        BY ReportAssumption DEF Files
      <3> QED
        BY <2>5, <2>6, <3>1 DEF Init, Types
    <2>8. \A r \in Reporters : run[r].pc = "verify"
      BY <2>6 DEF Init
    <2>9. \A r \in Reporters : RunInv(r)
      BY <2>8 DEF RunInv
    <2> QED
      BY <2>4, <2>7, <2>9 DEF Init, ReportInv, OutInv
  <1>2. ASSUME ReportInv, [Next]_vars PROVE ReportInv'
    <2>1. Types /\ (\A f \in Files : Chain(lines[f])) /\ (\A r \in Reporters : RunInv(r))
      BY <1>2 DEF ReportInv
    <2>2. /\ run' \in [Reporters -> Run] /\ tmp' \in [Reporters -> Pdf \cup {None}]
          /\ vouched' \in [Reporters -> Seq(Line)]
          /\ \A s \in Reporters : RunInv(s)'
      <3>1. CASE \E r \in Reporters : Step(r)
        <4>1. PICK r \in Reporters : Step(r)
          BY <3>1
        <4>2. /\ run' \in [Reporters -> Run] /\ tmp' \in [Reporters -> Pdf \cup {None}]
              /\ vouched' \in [Reporters -> Seq(Line)] /\ RunInv(r)'
          BY <2>1, <4>1, StepKeeps
        <4>3. ASSUME NEW s \in Reporters, s # r PROVE RunInv(s)'
          BY <1>2, <2>1, <4>1, <4>3, StepFrame, RunStill
        <4> QED
          BY <4>2, <4>3
      <3>2. CASE UNCHANGED <<run, tmp, vouched>>
        BY <1>2, <2>1, <3>2, RunStill DEF Types
      <3>3. CASE (\E v \in Values : Append1(v)) \/ Rotate \/ WriteOutput \/ UNCHANGED vars
        <4>1. UNCHANGED <<run, tmp, vouched>>
          BY <3>3 DEF Append1, Rotate, WriteOutput, own, vars
        <4> QED
          BY <3>2, <4>1
      <3> QED
        BY <1>2, <3>1, <3>3 DEF Next
    <2> QED
      BY <1>2, <2>1, <2>2, JournalsStep, OutStep DEF ReportInv, Types
  <1> QED
    BY <1>1, <1>2, PTL DEF Spec

(* A published report shows the lines the engine accepted for its run,     *)
(* whatever was appended meanwhile and whichever journal took the name.    *)
THEOREM ReportAlwaysAsVerified == Spec => []PublishedAsVerified
  <1>1. ReportInv => PublishedAsVerified
    BY DEF ReportInv, OutInv, PublishedAsVerified
  <1> QED
    BY <1>1, ReportInvariant, PTL
=============================================================================
