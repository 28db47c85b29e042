----------------------------- MODULE NvmeExtents -----------------------------
(***************************************************************************)
(* Where the bytes of a container file lie on its NVMe device: the walk    *)
(* over the file system's extent map that registers a container, and the   *)
(* search for the extent a read starts in.  An extent is an                *)
(* FPhysicalExtent: LogicalOffset in the file, PhysicalOffset in the       *)
(* partition, Length, all in bytes.  Sequences count from 1, so INDEX_NONE *)
(* is 0 and PhysicalExtents.Num() is one past the last index.              *)
(***************************************************************************)
EXTENDS Integers, Sequences, FiniteSets

CONSTANTS
    MaxExtents,     \* extents one FIEMAP call can return: 1024 in the code
    LinearLimit,    \* above this many extents the search is binary: 24
    BlockSize,      \* LogicalBlockSize of the device
    SectorSize,     \* unit of the partition's start: 512
    PartitionStart, \* first sector of the partition
    NlbModulus      \* 2^16: the count of blocks in a command is cut to this

ASSUME ExtentConstants ==
    /\ MaxExtents \in Nat \ {0} /\ LinearLimit \in Nat /\ BlockSize \in Nat \ {0}
    /\ SectorSize \in Nat \ {0} /\ PartitionStart \in Nat /\ NlbModulus \in Nat \ {0}
ASSUME PartitionAligned == (PartitionStart * SectorSize) % BlockSize = 0

ExtentEnd(e) == e.LogicalOffset + e.Length

\* The engine's AlignDown and Align.
AlignDown(n, a) == n - (n % a)
Align(n, a) == AlignDown(n + a - 1, a)

-----------------------------------------------------------------------------
(* FNvmeDevice::RegisterContainer                                            *)

\* The map of a file as the file system gives it: extents of whole blocks, in the
\* order of the file, none of which overlap.
Layout(file) ==
    /\ file \in Seq([LogicalOffset : Nat, PhysicalOffset : Nat, Length : Nat \ {0}])
    /\ \A i \in DOMAIN file :
          \A n \in {file[i].LogicalOffset, file[i].PhysicalOffset, file[i].Length} :
             n % BlockSize = 0
    /\ \A i, j \in DOMAIN file : i < j => ExtentEnd(file[i]) <= file[j].LogicalOffset

\* One FS_IOC_FIEMAP call: the extents of the file that end after `start`, in
\* the order of the file, as many as the caller has room for.
Fiemap(file, start) ==
    LET before == Cardinality({i \in DOMAIN file : ExtentEnd(file[i]) <= start})
        upto == IF before + MaxExtents < Len(file) THEN before + MaxExtents ELSE Len(file)
    IN  SubSeq(file, before + 1, upto)

\* The offset the next call starts from.  Mutant: the start of the last extent.
NextStart_OfLast(batch) == batch[Len(batch)].LogicalOffset
NextStart(batch) == ExtentEnd(batch[Len(batch)])

\* bLastExtentFound: the last extent of a file is flagged.
LastExtentFound(extents, file) ==
    extents # <<>> /\ extents[Len(extents)] = file[Len(file)]

\* The loop, which ends at the last extent or when a call returns nothing: its
\* locals after n turns.  A turn behind the end changes nothing.
WalkExtents(file) ==
    LET Walk[n \in Nat] ==
            IF n = 0 THEN [PhysicalExtents |-> <<>>, LogicalOffset |-> 0]
            ELSE LET last == Walk[n - 1]
                     batch == Fiemap(file, last.LogicalOffset)
                 IN  IF LastExtentFound(last.PhysicalExtents, file) \/ batch = <<>> THEN last
                     ELSE [PhysicalExtents |-> last.PhysicalExtents \o batch,
                           LogicalOffset |-> NextStart(batch)]
    IN  Walk[Len(file)].PhysicalExtents

-----------------------------------------------------------------------------
(* FRegisteredContainer::FindStartExtent                                     *)

\* "Ends after the offset".  Mutant: an extent that ends at the offset is taken.
Reaches_AtEnd(e, offset) == ExtentEnd(e) >= offset
Reaches(e, offset) == ExtentEnd(e) > offset

\* Linear up to LinearLimit extents, else Algo::LowerBound, which presumes that
\* the ends ascend.  Only the answer for "no such extent" differs.
FindStartExtent(extents, offset) ==
    IF \E i \in DOMAIN extents : Reaches(extents[i], offset)
      THEN CHOOSE i \in DOMAIN extents :
             Reaches(extents[i], offset) /\ \A j \in 1 .. i - 1 : ~Reaches(extents[j], offset)
    ELSE IF Len(extents) > LinearLimit THEN Len(extents) + 1
    ELSE 0

StartMissing(extents, offset) ==
    FindStartExtent(extents, offset) \in {0, Len(extents) + 1}

-----------------------------------------------------------------------------
(* The aligned range of a read and the commands it is split into.            *)

AlignedOffset(rd) == AlignDown(rd.Offset, BlockSize)
AlignedSize(rd) == Align(rd.Offset + rd.Size, BlockSize) - AlignedOffset(rd)
FixupOf(rd) == rd.Offset - AlignedOffset(rd)

PartitionStartLBA == (PartitionStart * SectorSize) \div BlockSize

\* Blocks there are in extent `e` for a read that starts at offset `from`.
BlocksFrom(e, from) == (ExtentEnd(e) - from) \div BlockSize

\* StartLb and NumLbs of the part of a read that lies in `e`.  The part the read
\* starts with begins inside the extent, every other one at its beginning.
PartFrom(e, from) == IF from # -1 THEN from ELSE e.LogicalOffset
StartLb(e, from) ==
    (PartFrom(e, from) - e.LogicalOffset + e.PhysicalOffset) \div BlockSize
      + PartitionStartLBA
NumLbs(e, from, remaining) ==
    LET available == BlocksFrom(e, PartFrom(e, from))
    IN  IF available < remaining THEN available ELSE remaining

\* The count as the device finds it in cdw12, one less than the number of blocks
\* in 16 bits.  Mutant: the number itself.
BlocksRead_NotLessOne(num) == (num % NlbModulus) + 1
BlocksRead(num) == ((num - 1) % NlbModulus) + 1

-----------------------------------------------------------------------------
(* What the above should amount to.                                          *)

\* The device byte that byte `i` of the file is stored in, or -1 in a hole.
DeviceByte(file, i) ==
    IF \E k \in DOMAIN file : i \in file[k].LogicalOffset .. ExtentEnd(file[k]) - 1
      THEN LET e == file[CHOOSE k \in DOMAIN file :
                           i \in file[k].LogicalOffset .. ExtentEnd(file[k]) - 1]
           IN  PartitionStart * SectorSize + e.PhysicalOffset + i - e.LogicalOffset
      ELSE -1

\* No hole in the range of the read, and no more blocks than a command can count.
WhollyMapped(file, rd) ==
    /\ \A i \in AlignedOffset(rd) .. AlignedOffset(rd) + AlignedSize(rd) - 1 :
          DeviceByte(file, i) # -1
    /\ AlignedSize(rd) \div BlockSize <= NlbModulus
=============================================================================
