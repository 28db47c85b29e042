----------------------------- MODULE BufferMemory -----------------------------
(***************************************************************************)
(* The memory behind the engine's read buffers, which the dispatcher       *)
(* replaces by its own when reads must be aligned (DirectIO or NVMe), and  *)
(* replaces again whenever a file turns out to need a larger alignment.    *)
(* The engine may be using a buffer, or the kernel filling it, just then:  *)
(* such a buffer keeps its old memory until it is next acquired, and that  *)
(* memory is released when no buffer refers to it any more.                *)
(*                                                                         *)
(* An allocation is named by its alignment, which grows from one to the    *)
(* next, so that DirectIOBuffer is BufferAlignment too; the engine's own   *)
(* is EngineMemory.  An address is an allocation and the index of a block  *)
(* of ActualBufferSize in it.                                              *)
(***************************************************************************)
EXTENDS Integers, FiniteSets

CONSTANTS
    Buffers,            \* FFileIoStoreBuffer objects
    None,
    Reads,              \* what requests ask for: Offset and Size
    BlockSizes,         \* alignments files ask for; 0 if they are not direct
    GIODefaultBufferAlignment,
    BufferSize,         \* BufferAllocator->GetBufferSize()
    MaxBufferSize,      \* most a registered buffer can hold: 1 GiB
    MaxMissed           \* bound of the model, on how far from its place refused
                        \* reads may leave a buffer

EngineMemory == 0
NumAllocatedBuffers == Cardinality(Buffers)
Indices == 0 .. NumAllocatedBuffers - 1
AlignUp(n, a) == ((n + a - 1) \div a) * a
ActualBufferSize(alignment) ==
    IF alignment = EngineMemory THEN BufferSize
    ELSE AlignUp(BufferSize + 2 * alignment, alignment)

Alignments == BlockSizes \cup {GIODefaultBufferAlignment}
Addresses == [alloc : Alignments \cup {EngineMemory}, index : Indices]

ASSUME BufferConstants ==
    /\ IsFiniteSet(Buffers) /\ None \notin Buffers \cup Addresses
    /\ BlockSizes \subseteq Nat /\ GIODefaultBufferAlignment \in Nat \ {0}
    /\ BufferSize \in Nat \ {0} /\ MaxBufferSize \in Nat
    /\ MaxMissed \in Nat /\ Reads \subseteq [Offset : Nat, Size : 1 .. BufferSize]
ASSUME ABufferFits ==
    \A a \in Alignments :
        a > 0 => ActualBufferSize(a) <= MaxBufferSize
\* Alignments are powers of two: a larger one is at least twice a smaller one.
ASSUME PowersOfTwo == \A a, s \in Alignments : s < a => 2 * s <= a

VARIABLES
    use,                \* each buffer: free, acquired, prepared for a read that is
                        \* not submitted, in flight, done, or held by the engine
    Memory, NewBuffer,  \* block it stands for, and the one it is to move to
    moved, FixupOffset, \* Memory's distance from the start of that block
    missed,             \* buffers that a read without a start extent has left out
                        \* of place; a history, which no guard reads
    target,             \* the memory and registered buffer its read was given:
                        \* `length` bytes, from `first` on, of the block `address`
    live,               \* allocations that have not been freed
    DirectIOBuffer,
    DirectIOPendingReleases,    \* [References, Memory] each
    RegisterBuffers, NvmeDirect,    \* the flags of that name
    BufferIndex, RegisteredBuffers,
    pc, AcquiredBuffer,
    blockSize           \* of the file that is read next

bufferVars == <<use, Memory, NewBuffer, moved, FixupOffset, missed, target>>
allocVars == <<live, DirectIOBuffer, DirectIOPendingReleases>>
flagVars == <<RegisterBuffers, NvmeDirect>>
registeredVars == <<flagVars, BufferIndex, RegisteredBuffers>>
vars == <<bufferVars, allocVars, registeredVars, pc, AcquiredBuffer, blockSize>>

Init ==
    /\ use = [b \in Buffers |-> "free"]
    /\ \E order \in [Buffers -> Indices] :
         /\ \A b, c \in Buffers : order[b] = order[c] => b = c
         /\ Memory = [b \in Buffers |-> [alloc |-> EngineMemory, index |-> order[b]]]
    /\ NewBuffer = [b \in Buffers |-> None]
    /\ moved = [b \in Buffers |-> 0] /\ FixupOffset = [b \in Buffers |-> 0]
    /\ missed = {} /\ target = [b \in Buffers |-> None]
    /\ live = {EngineMemory} /\ DirectIOBuffer = EngineMemory
    /\ DirectIOPendingReleases = {}
    /\ RegisterBuffers \in BOOLEAN /\ NvmeDirect \in BOOLEAN
    /\ BufferIndex = [b \in Buffers |-> 0] /\ RegisteredBuffers = {}
    /\ pc = "finalize" /\ AcquiredBuffer = None /\ blockSize = 0

-----------------------------------------------------------------------------
(* Registered buffers.                                                       *)

\* Blocks that one registered buffer holds.
PerAlloc(alignment) == MaxBufferSize \div ActualBufferSize(alignment)

\* UpdateRegisteredBuffers: the iovecs an allocation is registered in, by number.
ChunkOf(alignment, index) ==
    IF ActualBufferSize(alignment) * NumAllocatedBuffers > MaxBufferSize
      THEN index \div PerAlloc(alignment) ELSE 0
Chunks(alignment) ==
    {[number |-> ChunkOf(alignment, i), alloc |-> alignment,
      indices |-> {j \in Indices : ChunkOf(alignment, j) = ChunkOf(alignment, i)}] :
     i \in Indices}

\* UpdateRegisteredBuffersOffset goes by where a buffer is going to be.
\* Mutant: by where it is.
Placed_Now(b) == Memory[b]
Placed(b) == IF NewBuffer[b] # None THEN NewBuffer[b] ELSE Memory[b]
NumberAt(address) ==
    IF \E c \in RegisteredBuffers' : c.alloc = address.alloc /\ address.index \in c.indices
      THEN (CHOOSE c \in RegisteredBuffers' :
              c.alloc = address.alloc /\ address.index \in c.indices).number
      ELSE -1

-----------------------------------------------------------------------------
(* Set-up, and the engine.                                                   *)

\* Blocks are dealt out in the order of the buffers' addresses, where that of two
\* allocations is anybody's guess.
Offset(b) == Memory[b].index * ActualBufferSize(Memory[b].alloc) + moved[b]
InOrder(index) ==
    \A b, c \in Buffers :
        /\ b # c => index[b] # index[c]
        /\ Memory[b].alloc = Memory[c].alloc /\ Offset(b) < Offset(c)
             => index[b] < index[c]

\* The engine's memory is exchanged for an aligned allocation.
Finalize(index) ==
    /\ pc = "finalize" /\ InOrder(index)
    /\ DirectIOBuffer' = GIODefaultBufferAlignment
    /\ live' = {GIODefaultBufferAlignment}
    /\ Memory' = [b \in Buffers |->
                    [alloc |-> GIODefaultBufferAlignment, index |-> index[b]]]
    /\ RegisteredBuffers' =
         IF RegisterBuffers THEN Chunks(GIODefaultBufferAlignment) ELSE {}
    /\ BufferIndex' = IF RegisterBuffers
                        THEN [b \in Buffers |-> NumberAt(Memory'[b])] ELSE BufferIndex
    /\ pc' = "next"
    /\ UNCHANGED <<use, NewBuffer, moved, FixupOffset, missed, target, flagVars,
                   DirectIOPendingReleases, AcquiredBuffer, blockSize>>

\* The engine is done with the data.
FreeBuffer(b) ==
    /\ use[b] = "held"
    /\ use' = [use EXCEPT ![b] = "free"]
    /\ UNCHANGED <<Memory, NewBuffer, moved, FixupOffset, missed, target, allocVars,
                   registeredVars, pc, AcquiredBuffer, blockSize>>

-----------------------------------------------------------------------------
(* The service thread: AllocateMemory and UpdateMemory for the next read.    *)

\* BlockSize > BufferAlignment.  Mutant: the alignment is raised only once.
MustGrow_Once(bs) ==
    bs > DirectIOBuffer /\ DirectIOBuffer = GIODefaultBufferAlignment
MustGrow(bs) == bs > DirectIOBuffer

\* The block size is that of the NVMe device, or of the file if it is direct.
AllocateMemory(b, bs) ==
    /\ pc = "next" /\ use[b] = "free" /\ (NvmeDirect => bs > 0)
    /\ AcquiredBuffer' = b /\ blockSize' = bs
    /\ use' = [use EXCEPT ![b] = "acquired"]
    /\ pc' = IF MustGrow(bs) THEN "grow" ELSE "switch"
    /\ UNCHANGED <<Memory, NewBuffer, moved, FixupOffset, missed, target, allocVars,
                   registeredVars>>

\* Buffers whose memory is in use, so that it must not be freed yet.
\* Mutant: one the kernel is filling is taken for free.
Active_NotInFlight == {b \in Buffers : use[b] \notin {"free", "prepared", "inflight"}}
Active == {b \in Buffers : use[b] # "free"}

\* The block of the allocation that a buffer gets.  Mutant: the acquired one gets
\* the first.
BlockAt_First(index, b) == IF b = AcquiredBuffer THEN 0 ELSE index[b]
BlockAt(index, b) == index[b]

\* A larger allocation.  The old one is freed, or is left to the buffers that are
\* in use; SubmitRequest(nullptr) follows if buffers are to be registered anew.
Reallocate(index) ==
    LET refs == Active \ {AcquiredBuffer}
    IN  /\ pc = "grow" /\ InOrder(index)
        /\ DirectIOBuffer' = blockSize
        /\ live' = (IF refs = {} THEN live \ {DirectIOBuffer} ELSE live) \cup {blockSize}
        /\ DirectIOPendingReleases' = DirectIOPendingReleases \cup
             (IF refs = {} THEN {} ELSE {[References |-> refs, Memory |-> DirectIOBuffer]})
        /\ Memory' = [Memory EXCEPT ![AcquiredBuffer] =
                        [alloc |-> blockSize, index |-> BlockAt(index, AcquiredBuffer)]]
        /\ NewBuffer' = [b \in Buffers |-> IF b = AcquiredBuffer THEN None
                            ELSE [alloc |-> blockSize, index |-> BlockAt(index, b)]]
        /\ FixupOffset' = [FixupOffset EXCEPT ![AcquiredBuffer] = 0]
        /\ moved' = [moved EXCEPT ![AcquiredBuffer] = 0]
        /\ missed' = missed \ {AcquiredBuffer}
        /\ use' = [b \in Buffers |-> IF RegisterBuffers /\ use[b] = "prepared"
                                       THEN "inflight" ELSE use[b]]
        /\ pc' = IF RegisterBuffers THEN "register" ELSE "release"
        /\ UNCHANGED <<target, registeredVars, AcquiredBuffer, blockSize>>

\* WaitAndProcessCompletionRequests(true).  Mutant: no drain before registering.
Drained_NoWait == TRUE
Drained == \A b \in Buffers : use[b] \notin {"inflight", "done"}

UpdateRegisteredBuffers ==
    /\ pc = "register" /\ Drained
    /\ RegisteredBuffers' = Chunks(DirectIOBuffer)
    /\ BufferIndex' = [b \in Buffers |-> NumberAt(Placed(b))]
    /\ pc' = "release"
    /\ UNCHANGED <<bufferVars, allocVars, flagVars, AcquiredBuffer, blockSize>>

\* Mutant: the distance of the block it leaves is kept.
FixupAfterSwitch_Kept(b) == FixupOffset[b]
FixupAfterSwitch(b) == 0

\* No larger alignment is needed, but one may have been since the last read.
SwitchBuffer ==
    LET b == AcquiredBuffer IN
    /\ pc = "switch"
    /\ IF NewBuffer[b] # None
         THEN /\ Memory' = [Memory EXCEPT ![b] = NewBuffer[b]]
              /\ NewBuffer' = [NewBuffer EXCEPT ![b] = None]
              /\ FixupOffset' = [FixupOffset EXCEPT ![b] = FixupAfterSwitch(b)]
              /\ moved' = [moved EXCEPT ![b] = 0]
              /\ missed' = missed \ {b}
         ELSE UNCHANGED <<Memory, NewBuffer, FixupOffset, moved, missed>>
    /\ pc' = "release"
    /\ UNCHANGED <<use, target, allocVars, registeredVars, AcquiredBuffer, blockSize>>

\* The acquired buffer has left all old memory.
Left(release) == release.References \ {AcquiredBuffer}

\* Mutant: looked at before the buffer is taken off the list.
StillReferred_Before == {r \in DirectIOPendingReleases : r.References # {}}
StillReferred == {r \in DirectIOPendingReleases : Left(r) # {}}

ReleaseMemory ==
    /\ pc = "release"
    /\ DirectIOPendingReleases' =
         {[References |-> Left(r), Memory |-> r.Memory] : r \in StillReferred}
    /\ live' = live \ {r.Memory : r \in DirectIOPendingReleases \ StillReferred}
    /\ pc' = "issue"
    /\ UNCHANGED <<bufferVars, DirectIOBuffer, registeredVars, AcquiredBuffer, blockSize>>

-----------------------------------------------------------------------------
(* The service thread and the kernel: the read itself.                       *)

\* One request has been dealt with; the buffer is its own from now on.
Leave(u) ==
    /\ pc = "issue" /\ pc' = "next"
    /\ use' = [use EXCEPT ![AcquiredBuffer] = u]
    /\ AcquiredBuffer' = None /\ blockSize' = 0
    /\ UNCHANGED <<Memory, NewBuffer, allocVars, registeredVars>>

\* BlockCache->Read had the data.
ReadFromCache ==
    /\ Leave("held")
    /\ UNCHANGED <<moved, FixupOffset, missed, target>>

\* How far behind the start of its block a read starts, and the size it is rounded up
\* to, if the file is direct.
Misalignment(rd) == IF blockSize = 0 THEN 0 ELSE rd.Offset % blockSize
AlignedSize(rd) ==
    IF blockSize = 0 THEN rd.Size ELSE AlignUp(Misalignment(rd) + rd.Size, blockSize)

\* Memory is taken back by the distance that it is thought to have been moved, and
\* the one that the new read is to move it by is noted.
TakeBack(b, distance) ==
    /\ moved' = [moved EXCEPT ![b] = @ - FixupOffset[b]]
    /\ FixupOffset' = [FixupOffset EXCEPT ![b] = distance]

\* PrepareRequestNormal, which also adds FixupOffset to the address; or
\* PrepareRequestNvme, whose commands lie one behind the other in the block.
IssueRequest(rd) ==
    LET b == AcquiredBuffer IN
    /\ Leave("prepared") /\ TakeBack(b, Misalignment(rd))
    /\ target' = [target EXCEPT ![b] =
                    [address |-> Memory[b], number |-> BufferIndex[b],
                     first |-> moved'[b] + (IF NvmeDirect THEN 0 ELSE Misalignment(rd)),
                     length |-> AlignedSize(rd)]]
    /\ UNCHANGED missed

\* PrepareRequestNvme completes the request at once: it finds no container (and has set
\* no FixupOffset yet), or no extent to start in.  Memory is not moved by the distance.
RefuseRequest(distance) ==
    LET b == AcquiredBuffer IN
    /\ NvmeDirect /\ Leave("held")
    /\ TakeBack(b, distance) /\ distance - moved'[b] <= MaxMissed
    /\ missed' = IF distance = 0 THEN missed ELSE missed \cup {b}
    /\ UNCHANGED target

SubmitRequest ==
    /\ pc = "next" /\ \E b \in Buffers : use[b] = "prepared"
    /\ use' = [b \in Buffers |-> IF use[b] = "prepared" THEN "inflight" ELSE use[b]]
    /\ UNCHANGED <<Memory, NewBuffer, moved, FixupOffset, missed, target, allocVars,
                   registeredVars, pc, AcquiredBuffer, blockSize>>

Complete(b) ==
    /\ use[b] = "inflight"
    /\ use' = [use EXCEPT ![b] = "done"]
    /\ UNCHANGED <<Memory, NewBuffer, moved, FixupOffset, missed, target, allocVars,
                   registeredVars, pc, AcquiredBuffer, blockSize>>

ProcessCompletionEvent(b) ==
    /\ pc \in {"next", "register"} /\ use[b] = "done"
    /\ use' = [use EXCEPT ![b] = "held"]
    /\ moved' = [moved EXCEPT ![b] = @ + FixupOffset[b]]
    /\ target' = [target EXCEPT ![b] = None]
    /\ UNCHANGED <<Memory, NewBuffer, FixupOffset, missed, allocVars, registeredVars, pc,
                   AcquiredBuffer, blockSize>>

-----------------------------------------------------------------------------
Next ==
    \/ \E index \in [Buffers -> Indices] : Finalize(index) \/ Reallocate(index)
    \/ \E b \in Buffers : FreeBuffer(b) \/ Complete(b) \/ ProcessCompletionEvent(b)
    \/ \E b \in Buffers, bs \in BlockSizes : AllocateMemory(b, bs)
    \/ UpdateRegisteredBuffers \/ SwitchBuffer \/ ReleaseMemory
    \/ \E rd \in Reads : IssueRequest(rd) \/ RefuseRequest(Misalignment(rd))
    \/ RefuseRequest(0) \/ ReadFromCache \/ SubmitRequest

Spec == Init /\ [][Next]_vars

-----------------------------------------------------------------------------
Pending == {r.Memory : r \in DirectIOPendingReleases}

TypeOK ==
    /\ use \in [Buffers -> {"free", "acquired", "prepared", "inflight", "done", "held"}]
    /\ Memory \in [Buffers -> Addresses] /\ NewBuffer \in [Buffers -> Addresses \cup {None}]
    /\ moved \in [Buffers -> Int] /\ FixupOffset \in [Buffers -> Nat]
    /\ missed \subseteq Buffers
    /\ target \in [Buffers -> [address : Addresses, number : Int, first : Int, length : Nat]
                               \cup {None}]
    /\ live \subseteq Alignments \cup {EngineMemory}
    /\ DirectIOBuffer \in Alignments \cup {EngineMemory}
    /\ DirectIOPendingReleases \subseteq
         [References : SUBSET Buffers, Memory : Alignments \cup {EngineMemory}]
    /\ RegisterBuffers \in BOOLEAN /\ NvmeDirect \in BOOLEAN
    /\ BufferIndex \in [Buffers -> Nat]
    /\ pc \in {"finalize", "next", "grow", "switch", "register", "release", "issue"}
    /\ AcquiredBuffer \in Buffers \cup {None}
    /\ (AcquiredBuffer = None) <=> (pc \in {"finalize", "next"})
    /\ blockSize \in BlockSizes \cup {0}

\* Memory that the kernel may yet write to, that the engine is reading, or that
\* the next read is given, has not been freed.
NoUseAfterFree ==
    /\ \A b \in Buffers :
         /\ use[b] \in {"prepared", "inflight"} => target[b].address.alloc \in live
         /\ use[b] \in {"prepared", "inflight", "done", "held"} => Memory[b].alloc \in live
    /\ pc \in {"release", "issue"} => Memory[AcquiredBuffer].alloc \in live

\* What is allocated is the current allocation and what is still to be released,
\* each to be released once, at the latest with the last buffer that refers to it.
MemoryAccounted ==
    /\ live = {DirectIOBuffer} \cup Pending
    /\ DirectIOBuffer \notin Pending
    /\ \A r, s \in DirectIOPendingReleases : r.Memory = s.Memory => r = s
    /\ \A r \in DirectIOPendingReleases : r.References # {}

\* Two buffers in use never stand for the same memory.
BlocksDisjoint ==
    \A b, c \in {d \in Buffers : use[d] # "free"} :
        b # c /\ pc \notin {"grow", "switch"} => Memory[b] # Memory[c]

\* A read is given a block of the alignment its file needs.  That is a statement about
\* the block: a DirectIO read writes to it from FixupOffset on, aligned or not.
BlockSizeHonoured == pc \in {"release", "issue"} => Memory[AcquiredBuffer].alloc >= blockSize

\* A fixed read names the registered buffer that holds the block it writes to,
\* for as long as it may be on its way, whatever is registered anew meanwhile; and
\* no registered buffer is larger than the kernel allows.
FixedReadsInChunk ==
    RegisterBuffers =>
      /\ \A c \in RegisteredBuffers :
            Cardinality(c.indices) * ActualBufferSize(c.alloc) <= MaxBufferSize
      /\ \A b \in Buffers : use[b] \in {"prepared", "inflight"} =>
            \E c \in RegisteredBuffers :
                /\ c.number = target[b].number /\ c.alloc = target[b].address.alloc
                /\ target[b].address.index \in c.indices

\* A read writes to the block that its buffer stands for, whatever the buffer's reads
\* before it were aligned to, and however often it was given another block.  The one
\* exception is a buffer that a read without a start extent has left out of place,
\* until it is given another block.
ReadsInBlock ==
    \A b \in Buffers : use[b] \in {"prepared", "inflight"} /\ b \notin missed =>
        /\ target[b].first >= 0
        /\ target[b].first + target[b].length <= ActualBufferSize(target[b].address.alloc)
=============================================================================
