---------------------------- MODULE Fingerprint ----------------------------
(***************************************************************************)
(* The identity of a regular file on Linux and macOS: dfx_inspect_device   *)
(* takes its number and size with lstat, hash_regular_file opens it, reads *)
(* it in pieces (hash_stream) and looks whether it changed meanwhile       *)
(* (src/src/platform.c); dfx_run_job opens it again and                    *)
(* dfx_validate_open_target reads it again (src/src/erase.c).  Between any *)
(* two calls other programs write to the file, shorten it or put another   *)
(* one in its place.                                                       *)
(*                                                                         *)
(* Every write changes the times of the file (its stamp), and a piece is   *)
(* read at one moment.                                                     *)
(***************************************************************************)
EXTENDS Sha256, SequencesExt

CONSTANTS Files,     \* files (inodes)
          Contents,  \* the contents a file may begin with
          Byte,      \* what other programs write
          Piece,     \* the size of one fread, 64 KiB in the source
          MaxWrites  \* bound on what other programs do

ASSUME FileAssumption ==
    /\ Contents \subseteq Seq(AnyByte)
    /\ Byte \in AnyByte /\ Piece \in Nat \ {0} /\ MaxWrites \in Nat

VARIABLES step,    \* the call that comes next
          files,   \* the content and the stamp of each file
          named,   \* the file the path names
          writes,
          seen,    \* what lstat said, then fstat of the opened file
          open,    \* the open file, the position and the context in it
          device,  \* what the inspection reports: file, size, digest
          moments  \* observation: the contents of the open file since it was opened

reading == <<seen, open, device>>
fileVars == <<step, files, named, writes, seen, open, device, moments>>

Stat(f) == [file |-> f, size |-> Len(files[f].bytes), stamp |-> files[f].stamp]
Closed(f) == [file |-> f, position |-> 0, context |-> Start]

IdleAt(first) ==
    /\ step = first /\ writes = 0
    /\ named \in Files
    /\ seen = Stat(named) /\ open = Closed(named)
    /\ device = [file |-> named, size |-> 0, digest |-> <<>>]
    /\ moments = {}

HashInit ==
    /\ files \in [Files -> [bytes : Contents, stamp : {0}]]
    /\ IdleAt("lstat")

Fail == /\ step' = "failed"
        /\ UNCHANGED <<files, named, writes, reading, moments>>

-----------------------------------------------------------------------------
(* dfx_inspect_device.                                                     *)
Lstat ==
    /\ step = "lstat"
    /\ seen' = Stat(named)
    /\ step' = "open"
    /\ UNCHANGED <<files, named, writes, open, device, moments>>

(* open and fstat: the object and the size lstat saw, or an error.         *)
OpenForHash ==
    /\ step = "open"
    /\ \/ Fail
       \/ /\ named = seen.file /\ Len(files[named].bytes) = seen.size
          /\ seen' = Stat(named) /\ open' = Closed(named)
          /\ moments' = {files[named].bytes}
          /\ step' = "hash"
          /\ UNCHANGED <<files, named, writes, device>>

(* One fread; a short piece is the end of the file, or an error.           *)
ReadPiece(now, next) ==
    /\ step = now
    /\ \/ Fail
       \/ LET bytes == files[open.file].bytes
              last == IF open.position + Piece < Len(bytes) THEN open.position + Piece
                      ELSE Len(bytes)
              piece == SubSeq(bytes, open.position + 1, last)
          IN  /\ open' = [open EXCEPT !.position = @ + Len(piece),
                                      !.context = Update(open.context, piece)]
              /\ step' = IF Len(piece) < Piece THEN next ELSE now
              /\ UNCHANGED <<files, named, writes, seen, device, moments>>

(* Mutant: only the size is compared again.                                *)
UnchangedSize(f) == Stat(f).size = seen.size

(* The second fstat: size and times.                                       *)
UnchangedSince(f) == Stat(f) = seen

EndHash ==
    /\ step = "compare"
    /\ \/ Fail
       \/ /\ UnchangedSince(open.file)
          /\ device' = [file |-> seen.file, size |-> seen.size, digest |-> Final(open.context)]
          /\ step' = "inspected"
          /\ UNCHANGED <<files, named, writes, seen, open, moments>>

(* open_target and the object and size of dfx_validate_open_target, which  *)
(* looks at the path again.                                                *)
OpenForErase ==
    /\ step = "inspected"
    /\ \/ Fail
       \/ /\ named = device.file /\ Len(files[named].bytes) = device.size
          /\ open' = Closed(named)
          /\ moments' = {files[named].bytes}
          /\ step' = "check"
          /\ UNCHANGED <<files, named, writes, seen, device>>

(* validate_regular_content: the digest must be the confirmed one.         *)
EndCheck ==
    /\ step = "match"
    /\ \/ Fail
       \/ /\ Final(open.context) = device.digest
          /\ step' = "confirmed"
          /\ UNCHANGED <<files, named, writes, reading, moments>>

-----------------------------------------------------------------------------
(* Other programs.                                                         *)
Busy == step \notin {"idle", "failed", "confirmed"} /\ writes < MaxWrites

SetBytes(f, bytes) ==
    /\ files' = [files EXCEPT ![f] = [bytes |-> bytes, stamp |-> @.stamp + 1]]
    /\ moments' = IF f = open.file /\ moments # {} THEN moments \cup {bytes} ELSE moments
    /\ writes' = writes + 1
    /\ UNCHANGED <<step, named, reading>>

Overwrite(f) ==
    /\ Busy
    /\ \E i \in 1..(Len(files[f].bytes) + 1) :
         SetBytes(f, [j \in 1..(IF i > Len(files[f].bytes) THEN i ELSE Len(files[f].bytes)) |->
                        IF j = i THEN Byte ELSE files[f].bytes[j]])

Shorten(f) == Busy /\ files[f].bytes # <<>> /\ SetBytes(f, Front(files[f].bytes))

Rename == /\ Busy
          /\ \E f \in Files \ {named} : named' = f
          /\ writes' = writes + 1
          /\ UNCHANGED <<step, files, reading, moments>>

HashNext ==
    \/ Lstat \/ OpenForHash \/ ReadPiece("hash", "compare") \/ EndHash
    \/ OpenForErase \/ ReadPiece("check", "match") \/ EndCheck
    \/ \E f \in Files : Overwrite(f) \/ Shorten(f)
    \/ Rename

-----------------------------------------------------------------------------
(* An inspection that succeeds reports the digest, as FIPS 180-4 defines   *)
(* it, and the size of one content that the file had as a whole at one     *)
(* moment between its opening and its closing: no mixture of two, whatever *)
(* was written, and at every length around the padding's boundaries        *)
(* (hash_regular_file, dfx_sha256_final).                                  *)
OneMoment ==
    step = "inspected" =>
        \E m \in moments : device.size = Len(m) /\ device.digest = Digest(m)

(* What the erasure confirms is weaker: it compares no times, so each byte *)
(* of the confirmed content was in the open file at a moment of the        *)
(* reading, but only without a write was it there as a whole               *)
(* (dfx_validate_open_target).                                             *)
ConfirmedByteByByte ==
    step = "confirmed" =>
        LET confirmed == [i \in 1..device.size |-> DigestByte(device.digest, i)]
        IN  /\ \A i \in 1..device.size : \E m \in moments : i <= Len(m) /\ m[i] = confirmed[i]
            /\ Cardinality(moments) = 1 => confirmed \in moments
=============================================================================
