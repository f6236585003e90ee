\* Any stack, a mount or swap area and an unreadable entry; one change.
SPECIFICATION InspectSpec
CONSTANTS
    nvme = nvme
    part = part
    lookalike = lookalike
    raid = raid
    mapping = mapping
    volume = volume
    Blocks = {nvme, part, lookalike, raid, mapping, volume}
    Disk = nvme
    Family <- MCFamily
    Partitions <- MCPartitions
    Stackable <- MCStackable
    Anonymous = Anonymous
    MaxDepth = 1
    MaxUses = 1
    MaxFaults = 1
    MaxChanges = 1
    f1 = f1
    f2 = f2
    Files = {f1, f2}
    Contents <- MCContents
    Byte = 9
    Piece = 2
    MaxWrites = 2
    BlockBytes = 4
    LengthBytes = 2
    Radix = 256
INVARIANTS
    FingerprintOfOneMoment
    SystemDiskSeen
    UnusedIsFree
    FreeMeansUnused
CHECK_DEADLOCK FALSE
