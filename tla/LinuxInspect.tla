---------------------------- MODULE LinuxInspect ----------------------------
(***************************************************************************)
(* One inspection on Linux against everything else that happens on the     *)
(* machine (dfx_inspect_device, src/src/platform.c): what lstat says       *)
(* decides whether the fingerprint of a regular file is taken, or the uses *)
(* of a block device are searched for.  The other half stays idle.         *)
(***************************************************************************)
EXTENDS MountState, Fingerprint

(* A regular file, or a block device.                                      *)
InspectInit ==
    \/ /\ Init
       /\ files = [f \in Files |-> [bytes |-> <<>>, stamp |-> 0]]
       /\ named = CHOOSE f \in Files : TRUE
       /\ IdleAt("idle")
    \/ /\ pc = "done" /\ todo = {} /\ marks = {} /\ uses = {} /\ faults = {}
       /\ lasting = {} /\ calm = FALSE /\ changes = 0
       /\ HashInit

InspectNext ==
    \/ Next /\ UNCHANGED fileVars
    \/ HashNext /\ UNCHANGED vars

InspectSpec == InspectInit /\ [][InspectNext]_<<vars, fileVars>>

-----------------------------------------------------------------------------
(* The fingerprint of a regular file is the digest of one content that the *)
(* file had as a whole while it was read, whatever was written meanwhile   *)
(* and at every length around the padding's boundaries; what the erasure   *)
(* then confirms was in the open file byte by byte                         *)
(* (hash_regular_file, validate_regular_content, dfx_sha256_final).        *)
FingerprintOfOneMoment == OneMoment /\ ConfirmedByteByByte
=============================================================================
