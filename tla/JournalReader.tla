---------------------------- MODULE JournalReader ----------------------------
(***************************************************************************)
(* A journal as its readers meet it: the text of a line (AuditText), then  *)
(* the lines one behind the other (AuditScan).                             *)
(***************************************************************************)
EXTENDS AuditScan, AuditText

ReaderInit == LinesInit /\ TextInit

ReaderNext ==
    \/ /\ length = 0 /\ line = <<>> /\ fields[3] = 0 /\ LinesNext
       /\ UNCHANGED textVars
    \/ /\ journal = <<>> /\ TextNext
       /\ UNCHANGED scanVars

ReaderSpec == ReaderInit /\ [][ReaderNext]_<<scanVars, textVars>>
=============================================================================
