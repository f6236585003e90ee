----------------------------- MODULE Inspection -----------------------------
(***************************************************************************)
(* dfx_inspect_device and dfx_list_devices (src/src/platform.c) in their   *)
(* three builds: what an inspection says of a target when some of its      *)
(* attributes cannot be read.                                              *)
(*                                                                         *)
(* A target is what the path names.  Its defects are the facts for which a *)
(* disk must not be touched; an inspection sees a defect only through the  *)
(* attribute that shows it.  Reading an attribute fails or tells the truth *)
(* and existence tests (access, readdir) do not fail; a device node bears  *)
(* the name of its own device.                                             *)
(***************************************************************************)
EXTENDS FiniteSets, Integers

CONSTANT MaxOdd  \* bound on the defects and unreadable attributes together

ASSUME OddAssumption == MaxOdd \in Nat

Platforms == {"linux", "macos", "windows"}
Objects == {"disk", "partition", "mapped", "file"}
Media == {"hdd", "ssd", "nvme"}
Defects == {"read-only", "in use", "system disk", "no serial", "filler serial", "misaligned"}

(* Each is one or several files of /sys, ioctls, or registry keys; the     *)
(* first stands for every step that makes the inspection fail: lstat, a    *)
(* symbolic link, the open, the geometry.  A device link that can be read  *)
(* may still have a text that cannot be shown ("link text"), which only    *)
(* Linux holds against the disk; the others replace or drop such a text.   *)
Attributes == {"geometry", "writable", "entry", "link", "link text", "medium", "serial", "mounts"}

Kinds == {"hdd", "ssd", "nvme", "flash", "unknown", "file"}

(* Only Windows asks whether the medium is removable.                      *)
Target ==
    {t \in [platform : Platforms, object : Objects, medium : Media, external : BOOLEAN,
            removable : BOOLEAN, defects : SUBSET Defects] :
       /\ t.removable => t.platform = "windows" /\ t.external
       /\ t.object = "file" =>
            t.medium = "hdd" /\ t.external /\ ~t.removable /\ t.defects \subseteq {"read-only"}}

Device == [kind : Kinds, known : BOOLEAN, used : BOOLEAN, readOnly : BOOLEAN,
           internal : BOOLEAN, whole : BOOLEAN, aligned : BOOLEAN, unique : BOOLEAN]

-----------------------------------------------------------------------------
Has(t, defect) == defect \in t.defects

(* A regular file, its fingerprint apart (see Fingerprint): whole, known,  *)
(* unique and not internal; only Windows looks at its read-only attribute. *)
FileDevice(t) ==
    [kind |-> "file", known |-> TRUE, used |-> FALSE,
     readOnly |-> t.platform = "windows" /\ Has(t, "read-only"),
     internal |-> FALSE, whole |-> TRUE, aligned |-> TRUE, unique |-> TRUE]

InUse(t) == t.defects \cap {"in use", "system disk"} # {}

(* dfx_hardware_id_is_credible: a placeholder is as good as no serial.     *)
Credible(t) == t.defects \cap {"no serial", "filler serial"} = {}

(* read_device_text: the attribute of the device, and for an NVMe name the *)
(* one of its controller, which a partition has as well.  A SATA partition *)
(* and a mapped device have no device directory.                           *)
HasDeviceText(t) == t.object = "disk" \/ (t.object = "partition" /\ t.medium = "nvme")

-----------------------------------------------------------------------------
(* Linux.  The name decides for NVMe, then queue/rotational, which a       *)
(* partition does not have.                                                *)
(* Mutant: a medium that cannot be determined is a hard disk.              *)
LinuxKindAssumed(t, unread) ==
    IF t.medium = "nvme" /\ t.object # "mapped" THEN "nvme"
    ELSE IF t.object = "partition" \/ "medium" \in unread THEN "hdd"
    ELSE IF t.medium = "hdd" THEN "hdd" ELSE "ssd"

LinuxKind(t, unread) ==
    IF t.medium = "nvme" /\ t.object # "mapped" THEN "nvme"
    ELSE IF t.object = "partition" \/ "medium" \in unread THEN "unknown"
    ELSE IF t.medium = "hdd" THEN "hdd" ELSE "ssd"

(* Only a disk has a device link: the transport and whether the disk is    *)
(* external are taken from its text.                                       *)
LinkShown(t, unread) == t.object = "disk" /\ {"link", "link text"} \cap unread = {}

OddLink(t, unread) == t.object = "disk" /\ "link" \notin unread /\ "link text" \in unread

(* safety_state_known: BLKROGET, the entry in /sys/class/block, the text   *)
(* of the device link, and mount_state (see MountState).                   *)
(* Mutant: BLKROGET failing leaves read_only at its initial 0, and known.  *)
LinuxKnownUnlessMounts(t, unread) == unread \cap {"entry", "mounts"} = {} /\ ~OddLink(t, unread)

LinuxKnown(t, unread) == unread \cap {"writable", "entry", "mounts"} = {} /\ ~OddLink(t, unread)

LinuxDevice(t, unread) ==
    [kind |-> LinuxKind(t, unread),
     known |-> LinuxKnown(t, unread),
     used |-> InUse(t) /\ "mounts" \notin unread,
     readOnly |-> Has(t, "read-only") /\ "writable" \notin unread,
     internal |-> ~(t.external /\ LinkShown(t, unread)),
     whole |-> t.object # "partition" /\ "entry" \notin unread,
     aligned |-> ~Has(t, "misaligned"),
     unique |-> HasDeviceText(t) /\ "serial" \notin unread /\ Credible(t)]

(* macOS: the state of use is never declared known; without a service in   *)
(* the registry (link) the other details keep their first values.          *)
MacDevice(t, unread) ==
    [kind |-> IF "link" \in unread THEN "unknown"
              ELSE IF t.medium = "nvme" THEN "nvme"
              ELSE IF "medium" \in unread THEN "unknown" ELSE t.medium,
     known |-> FALSE,
     used |-> InUse(t) /\ "mounts" \notin unread,
     readOnly |-> Has(t, "read-only") \/ "writable" \in unread,
     internal |-> "link" \notin unread /\ ~t.external,
     whole |-> t.object # "partition",
     aligned |-> ~Has(t, "misaligned"),
     unique |-> {"link", "serial"} \cap unread = {} /\ Credible(t)]

(* Windows: the bus (link) and the serial come from one descriptor.  No    *)
(* volume is looked for: only the first disk is known to be in use.        *)
WindowsDevice(t, unread) ==
    [kind |-> IF t.medium = "nvme" /\ "link" \notin unread THEN "nvme"
              ELSE IF "medium" \notin unread THEN IF t.medium = "hdd" THEN "hdd" ELSE "ssd"
              ELSE IF t.removable THEN "flash" ELSE "unknown",
     known |-> FALSE,
     used |-> Has(t, "system disk") /\ t.object = "disk" /\ "entry" \notin unread,
     readOnly |-> FALSE,
     internal |-> ~t.removable /\ ~(t.external /\ "link" \notin unread),
     whole |-> t.object = "disk" /\ "entry" \notin unread,
     aligned |-> ~Has(t, "misaligned"),
     unique |-> {"link", "serial"} \cap unread = {} /\ Credible(t)]

(* The inspection fails, or yields a device.                               *)
Inspectable(t, unread) == "geometry" \notin unread

Inspected(t, unread) ==
    IF t.object = "file" THEN FileDevice(t)
    ELSE CASE t.platform = "linux"   -> LinuxDevice(t, unread)
           [] t.platform = "macos"   -> MacDevice(t, unread)
           [] t.platform = "windows" -> WindowsDevice(t, unread)

(* dfx_list_devices: whole disks by number on two platforms, every block   *)
(* device that is no partition (nor loop or ram) on Linux, if its          *)
(* inspection succeeds.                                                    *)
Listed(t, unread) ==
    /\ Inspectable(t, unread)
    /\ IF t.platform = "linux" THEN t.object # "partition" ELSE t.object = "disk"

(* The targets and failing reads compared, up to the bound.                *)
Odd(t, unread) == Cardinality(t.defects) + Cardinality(unread) <= MaxOdd
=============================================================================
