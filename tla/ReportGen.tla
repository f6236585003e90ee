----------------------------- MODULE ReportGen -----------------------------
(***************************************************************************)
(* The report generator (tools/report/generate_report.py): several runs    *)
(* over one journal and one output path.  A run has the engine verify the  *)
(* journal, reads the file afterwards without the lock, compares what it   *)
(* read with what the engine said, renders a temporary file and renames it *)
(* over the output.  Meanwhile the engine appends to the journal, the      *)
(* journal is replaced by another, edited in place, or the output appears. *)
(*                                                                         *)
(* A line is a value and the hash of all values so far, taken to identify  *)
(* them.  Lines are by turns the start and the end of an operation, so a   *)
(* journal is complete when their number is even; which journals are       *)
(* complete in general is the subject of AuditScan.                        *)
(***************************************************************************)
EXTENDS Naturals, Integers, Sequences

CONSTANTS Reporters,  \* runs of the generator
          Values,     \* what a line may say
          None,       \* nothing there
          Foreign,    \* an output somebody else wrote
          MaxLines,   \* bound on the lines of a journal
          MaxFiles,   \* bound on the files the journal's name may have had
          MaxEdits,   \* bound on the lines changed in place
          MaxForeign  \* bound on the outputs written by others

ASSUME ReportAssumption ==
    /\ None # Foreign
    /\ MaxLines \in Nat /\ MaxFiles \in Nat \ {0} /\ MaxEdits \in Nat /\ MaxForeign \in Nat

VARIABLES run,     \* run[r]: where run r stands and what it knows
          force,   \* force[r]: --force
          tmp,     \* tmp[r]: the temporary file of r
          out,     \* the file at the output path
          name,    \* the file the journal's path names
          lines,   \* lines[f]: the lines of file f
          stamp,   \* stamp[f]: its modification time
          vouched, \* vouched[r]: the lines verify-audit accepted for r
          edits, foreign

own == <<run, tmp, vouched>>
journal == <<name, lines, stamp, edits>>
vars == <<run, tmp, vouched, force, out, name, lines, stamp, edits, foreign>>

Files == 1..MaxFiles

IsContent(c) ==
    /\ Len(c) <= MaxLines
    /\ \A i \in DOMAIN c : c[i].value \in Values /\ c[i].hash \in Seq(Values)

IsPdf(pdf) == pdf.by \in Reporters /\ pdf.large \in BOOLEAN /\ IsContent(pdf.of)

Chained(values) ==
    [i \in DOMAIN values |-> [value |-> values[i], hash |-> SubSeq(values, 1, i)]]

Said(c) == [i \in DOMAIN c |-> c[i].value]

Complete(c) == c # <<>> /\ Len(c) % 2 = 0

(* A run that has ended has an exit code, and only such a run; the file it *)
(* has open and what it read are of the journal.                           *)
TypeOK ==
    /\ \A r \in Reporters :
         /\ run[r].pc \in {"verify", "open", "read", "rest", "stat", "parse", "check",
                           "render", "publish", "ended", "killed"}
         /\ run[r].code \in {-1, 0, 2, 3}
         /\ run[r].pc = "ended" <=> run[r].code # -1
         /\ run[r].file \in Files \cup {0} /\ run[r].since \in Nat
         /\ run[r].count \in 0..MaxLines
         /\ vouched[r] = <<>> \/ Complete(vouched[r])
         /\ IsContent(run[r].buffer) /\ (tmp[r] = None \/ IsPdf(tmp[r]))
    /\ force \in [Reporters -> BOOLEAN]
    /\ out \in {None, Foreign} \/ IsPdf(out)
    /\ name \in Files
    /\ \A f \in Files : IsContent(lines[f]) /\ stamp[f] \in Nat

Idle == [pc |-> "verify", code |-> -1, count |-> 0, last |-> <<>>, file |-> 0,
         since |-> 0, buffer |-> <<>>]

Init ==
    /\ run = [r \in Reporters |-> Idle]
    /\ force \in [Reporters -> BOOLEAN]
    /\ tmp = [r \in Reporters |-> None]
    /\ out = None
    /\ name = 1
    /\ \E v \in [1..2 -> Values] :
         lines = [f \in Files |-> IF f = 1 THEN Chained(v) ELSE <<>>]
    /\ stamp = [f \in Files |-> 0]
    /\ vouched = [r \in Reporters |-> <<>>]
    /\ edits = 0 /\ foreign = 0

-----------------------------------------------------------------------------
(* main returns: 0, 2 for a ReportError, 3 for anything else.              *)
Ends(r, code) == run' = [run EXCEPT ![r].pc = "ended", ![r].code = code]

Goes(r, place) == run' = [run EXCEPT ![r].pc = place]

(* ClosedJournal of AuditRecords, for the journals of this module.         *)
Accepted(c) == Complete(c) /\ c = Chained(Said(c))

(* verify_audit: the engine reads the file under its lock; it may also     *)
(* refuse for the lock, a timeout or an error of its own.                  *)
VerifyAudit(r) ==
    /\ run[r].pc = "verify"
    /\ LET c == lines[name] IN
         /\ Accepted(c)
         /\ run' = [run EXCEPT ![r].pc = "open", ![r].count = Len(c),
                               ![r].last = c[Len(c)].hash]
         /\ vouched' = [vouched EXCEPT ![r] = c]
    /\ UNCHANGED <<tmp, force, out, journal, foreign>>

VerifyFails(r) ==
    /\ run[r].pc = "verify"
    /\ Ends(r, 2)
    /\ UNCHANGED <<tmp, vouched, force, out, journal, foreign>>

(* read_source: open, and the signature before.                            *)
OpenSource(r) ==
    /\ run[r].pc = "open"
    /\ run' = [run EXCEPT ![r].pc = "read", ![r].file = name, ![r].since = stamp[name]]
    /\ UNCHANGED <<tmp, vouched, force, out, journal, foreign>>

(* It is no regular file of its own, too long, or cannot be read.          *)
SourceFails(r) ==
    /\ run[r].pc \in {"open", "read", "rest"}
    /\ \E code \in {2, 3} : Ends(r, code)
    /\ UNCHANGED <<tmp, vouched, force, out, journal, foreign>>

(* The reads return what is there at their time, here in two pieces.       *)
ReadSome(r) ==
    /\ run[r].pc = "read"
    /\ \E n \in 0..Len(lines[run[r].file]) :
         run' = [run EXCEPT ![r].pc = "rest", ![r].buffer = SubSeq(lines[run[r].file], 1, n)]
    /\ UNCHANGED <<tmp, vouched, force, out, journal, foreign>>

ReadRest(r) ==
    /\ run[r].pc = "rest"
    /\ LET c == lines[run[r].file] IN
         run' = [run EXCEPT ![r].pc = "stat",
                            ![r].buffer = @ \o SubSeq(c, Len(@) + 1, Len(c))]
    /\ UNCHANGED <<tmp, vouched, force, out, journal, foreign>>

(* The signature after: inode, size and time.                              *)
Unchanged(r) ==
    /\ stamp[run[r].file] = run[r].since
    /\ Len(lines[run[r].file]) = Len(run[r].buffer)

CompareSource(r) ==
    /\ run[r].pc = "stat"
    /\ IF Unchanged(r) THEN Goes(r, "parse") ELSE Ends(r, 2)
    /\ UNCHANGED <<tmp, vouched, force, out, journal, foreign>>

(* Mutant: only the number of records is compared.                         *)
MatchesCount(r) == Len(run[r].buffer) = run[r].count

(* parse_jsonl against the VerificationResult.                             *)
Matches(r) ==
    /\ Len(run[r].buffer) = run[r].count
    /\ run[r].buffer[Len(run[r].buffer)].hash = run[r].last

Parse(r) ==
    /\ run[r].pc = "parse"
    /\ IF Matches(r) /\ Complete(run[r].buffer) THEN Goes(r, "check") ELSE Ends(r, 2)
    /\ UNCHANGED <<tmp, vouched, force, out, journal, foreign>>

(* generate_report: the output is looked for once, then the temporary file *)
(* is made beside it.                                                      *)
CheckOutput(r) ==
    /\ run[r].pc = "check"
    /\ IF out # None /\ ~force[r]
       THEN Ends(r, 2) /\ UNCHANGED tmp
       ELSE /\ Goes(r, "render")
            /\ tmp' = [tmp EXCEPT ![r] = [by |-> r, of |-> <<>>, large |-> FALSE]]
    /\ UNCHANGED <<vouched, force, out, journal, foreign>>

(* The output is the journal itself, or nothing can be made beside it.     *)
OutputFails(r) ==
    /\ run[r].pc = "check"
    /\ \E code \in {2, 3} : Ends(r, code)
    /\ UNCHANGED <<tmp, vouched, force, out, journal, foreign>>

(* except: unlink the temporary file.                                      *)
Discard(r) == tmp' = [tmp EXCEPT ![r] = None]

(* create_pdf writes the temporary file, whatever its size then is.        *)
Render(r) ==
    /\ run[r].pc = "render"
    /\ \E large \in BOOLEAN :
         tmp' = [tmp EXCEPT ![r] = [by |-> r, of |-> run[r].buffer, large |-> large]]
    /\ Goes(r, "publish")
    /\ UNCHANGED <<vouched, force, out, journal, foreign>>

RenderFails(r) ==
    /\ run[r].pc = "render"
    /\ Discard(r)
    /\ \E code \in {2, 3} : Ends(r, code)
    /\ UNCHANGED <<vouched, force, out, journal, foreign>>

(* It has at least 1024 bytes.                                             *)
LargeEnough(pdf) == pdf.large

(* os.replace: atomic, over whatever is there by now.                      *)
Publish(r) ==
    /\ run[r].pc = "publish"
    /\ LargeEnough(tmp[r])
    /\ out' = tmp[r]
    /\ tmp' = [tmp EXCEPT ![r] = None]
    /\ Ends(r, 0)
    /\ UNCHANGED <<vouched, force, journal, foreign>>

PublishFails(r) ==
    /\ run[r].pc = "publish"
    /\ Discard(r)
    /\ Ends(r, IF LargeEnough(tmp[r]) THEN 3 ELSE 2)
    /\ UNCHANGED <<vouched, force, out, journal, foreign>>

Kill(r) ==
    /\ run[r].pc \notin {"ended", "killed"}
    /\ Goes(r, "killed")
    /\ UNCHANGED <<tmp, vouched, force, out, journal, foreign>>

-----------------------------------------------------------------------------
(* The engine appends a line that extends the chain.                       *)
Append1(v) ==
    /\ Len(lines[name]) < MaxLines
    /\ lines' = [lines EXCEPT ![name] =
                   Append(@, [value |-> v, hash |-> Append(Said(@), v)])]
    /\ stamp' = [stamp EXCEPT ![name] = @ + 1]
    /\ UNCHANGED <<own, force, out, name, edits, foreign>>

(* Another journal takes the name.                                         *)
Rotate ==
    /\ name < MaxFiles
    /\ name' = name + 1
    /\ \E v \in [1..2 -> Values] : lines' = [lines EXCEPT ![name + 1] = Chained(v)]
    /\ UNCHANGED <<own, force, out, stamp, edits, foreign>>

(* An editor changes a line in place.                                      *)
EditLine(i, v) ==
    /\ edits < MaxEdits /\ edits' = edits + 1
    /\ i \in DOMAIN lines[name] /\ v # lines[name][i].value
    /\ lines' = [lines EXCEPT ![name][i].value = v]
    /\ stamp' = [stamp EXCEPT ![name] = @ + 1]
    /\ UNCHANGED <<own, force, out, name, foreign>>

(* Someone else puts a file at the output path.                            *)
WriteOutput ==
    /\ foreign < MaxForeign /\ foreign' = foreign + 1
    /\ out' = Foreign
    /\ UNCHANGED <<own, force, journal>>

Step(r) ==
    \/ VerifyAudit(r) \/ VerifyFails(r)
    \/ OpenSource(r) \/ ReadSome(r) \/ ReadRest(r) \/ CompareSource(r) \/ SourceFails(r)
    \/ Parse(r) \/ CheckOutput(r) \/ OutputFails(r)
    \/ Render(r) \/ RenderFails(r)
    \/ Publish(r) \/ PublishFails(r)
    \/ Kill(r)

Next ==
    \/ \E r \in Reporters : Step(r)
    \/ \E v \in Values : Append1(v)
    \/ Rotate
    \/ WriteOutput

Spec == Init /\ [][Next]_vars

(* With an editor that changes the journal in place.                       *)
EditNext == Next \/ \E i \in 1..MaxLines, v \in Values : EditLine(i, v)

EditSpec == Init /\ [][EditNext]_vars

-----------------------------------------------------------------------------
(* "Aucun PDF n'est conservé lorsqu'un journal est ... modifié pendant sa  *)
(* lecture ou différent de la source acceptée par le vérificateur"         *)
(* (docs/CLIENT_REPORT.md): a published report shows the very lines the    *)
(* engine accepted for that run, although the file is read later and in    *)
(* pieces, while it grows and while its name is given to another journal.  *)
PublishedAsVerified ==
    out \notin {None, Foreign} => out.of = vouched[out.by]

(* "Une sortie existante n'est jamais remplacée silencieusement"           *)
(* (docs/CLIENT_REPORT.md): without --force no run replaces a file that is *)
(* at the output path when it publishes.                                   *)
KeepsExisting ==
    [][\A r \in Reporters :
         run[r].pc = "publish" /\ run'[r].code = 0 /\ ~force[r] => out = None]_vars
=============================================================================
