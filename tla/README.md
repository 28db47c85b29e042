# A verification of the io_uring I/O dispatcher for Unreal Engine

The repository is an Unreal Engine plugin that replaces the engine's Linux file
store with one built on `io_uring`. This directory holds TLA+ modules translated
from its source, TLC configurations that check them on small instances, and
TLAPS proofs of theorems that hold for every size. `PROJECT.json` maps every
definition to the lines it models, lists the runs, the hazards and the theorems.

Paths below are relative to `src/Source/LinuxPlatformIoDispatcher/Private/`;
"cpp:N" is line N of `LinuxPlatformIoDispatcher.cpp`.

## 1. The system

### Who runs

| Party | Where | What it does |
|---|---|---|
| mount thread | engine (external) | `OpenContainer`, `CloseContainer` |
| I/O dispatcher thread | engine (external) | pushes and cancels reads, `ServiceNotify`, `GetCompletedRequests`, releases buffers |
| I/O service thread | engine loop, plugin code | `while (true) { StartRequests(); ServiceWait(); }` |
| kernel | external | takes submission entries, posts completions in any order |

They share: the request queue and the buffer pool (owned by the engine), the
list `FilesToUnregister` under `UnregisterCritical`, the list
`CompletedRequests` under `CompletedRequestsCritical`, an auto-reset `Event`,
the wake-up delegate of the dispatcher thread, the two rings mapped from the
kernel, and the kernel's table of registered files.

### Components

| Component | State | Operations | What makes it correct |
|---|---|---|---|
| Request loop (`LinuxPlatformIoDispatcher.cpp`) | `AcquiredBuffer`, `PendingSubmits`, `NumPendingCompletions`, `CompletedRequests`, `Event` | `StartRequests`, `GetNextRequest`, `AllocateMemory`, `IssueRequest`, `SubmitRequest`, `ProcessCompletedRequests`, `WaitAndProcessCompletionRequests`, `OnRequestComplete`, `GetCompletedRequests`, `ServiceNotify`, `ServiceWait` | each accepted read comes back once, with its own data or a failure; the counter that ends the loop is exact; no wake-up is lost; every buffer has one user |
| Registered-file table (same file, `LinuxFileHandle.*`) | `FreeRegisteredFiles`, handle `State` and `Fd`, the kernel's table | `OpenContainer`, `CloseContainer`, `OpenFile`, `RegisterFile`, `UnregisterFile` | slots are neither lost nor shared; a slot never changes under a read that names it |
| Store contract (`IPlatformFileIoStore`) | the life of a request and of a container | the interface the engine calls | what the two above together implement |
| Rings (`uring/queue.c`, `liburing.h`) | head, tail and flags of two queues | `io_uring_get_sqe`, `io_uring_submit`, `io_uring_peek_batch_cqe`, `io_uring_wait_cqe`, `io_uring_cq_advance` | FIFO queues over wrapping indices; the kernel is entered when it must be |
| SQPoll and IOPoll modes | wake-up flag, shared submission queue | `io_uring_sqpoll_wake`, `io_uring_sqring_wait` | an entry published to a sleeping poller wakes it |
| Submission without `SUBMIT_ALL` (cpp:1233-1257) | `PendingSubmits` and the leftover entries | the re-issue loop of `SubmitRequest` | each request is issued once |
| Buffer memory (cpp:873-1002) | block size, buffer properties, memory still referred to | `UpdateMemory`, `AllocateMemory` | memory is freed once, and after its last user |
| Registered buffers (cpp:340-400) | chunks registered with the kernel | `UpdateRegisteredBuffers` | the chunks cover every buffer; each read names the chunk it lies in |
| NVMe passthrough (`NvmeDevice.*`, cpp:1034-1160) | extents, device list, trackers of split reads | `FindStartExtent`, `PrepareRequestNvme`, `RegisterNvmeFile`, `UnregisterNvmeFile` | the parts of a read tile its range; the read completes with its last part |
| Ring set-up (`CreateRing`, `uring/setup.c`) | `Flags` | the descending attempts at flags | the flags kept are those granted |
| Registration and system-call wrappers, sanitizer hooks, headers | none | one system call each | no state of their own |
| Module and console variables | start-up state | creates the store, toggles priority | glue |

### What is hard here

- A container is closed by the mount thread while its reads are queued in the
  ring or held by the kernel. Only the end of `StartRequests` separates a slot
  from its last read, and that end depends on one plain counter.
- Notifications are sent after what they announce, outside the lock, by three
  threads, to waiters that are just about to wait.
- The submission queue may fill in the middle of a batch, so `SubmitRequest`
  is entered again from inside `IssueRequest`.
- Completions wait in up to three places in the kernel: the queue, the overflow
  list, deferred task work. Each needs a different condition to be entered for.
- A buffer acquired for a request that did not come stays with the service
  across rounds.
- A steady supply of requests that are answered without the ring (cancelled,
  unopenable, cached) keeps a half-built batch from being submitted.
- Whether a short submission, or one the kernel refuses, is ever retried depends
  on a flag that older kernels do not grant.

## 2. The modules

| Module | Models |
|---|---|
| `PlatformIoStore` | the abstract store: the life of a request (`idle`, `queued`, `accepted`, `completed`, `delivered`), its outcome, and of a container (`absent`, `open`, `closing`). No ring, thread or table |
| `LinuxIoDispatcher` | the request loop, the file table, the rings and the kernel behind them, with the engine as environment; safety, action and liveness properties; the refinement mapping to `PlatformIoStore` |
| `MCLinuxIoDispatcher` | model values, `FileOf` and the symmetry of buffers for TLC |
| `RingQueues` | what an io_uring promises its user: entries taken in order, each completed once, completions read in order. No indices, flags or threads |
| `UringRing` | the rings as `uring/queue.c` and `liburing.h` keep them: wrapping indices, masked slots, the store of the tail and its barrier, the overflow list, with the SQPoll thread or with entries taken inside `io_uring_enter`; the refinement mapping to `RingQueues` |
| `MCUringRing` | model values for TLC |
| `ShortSubmit` | `SubmitRequest` without `SUBMIT_ALL` (cpp:1233-1257): the kernel stops behind a failed entry or anywhere, and what it did not take is issued again |
| `BufferMemory` | the memory behind the read buffers (cpp:340-400, 650-740, 873-1002): aligned allocations, growth of the block size with buffers in use, pending releases, registration in pieces, `FixupOffset` |
| `NvmeExtents` | pure part of NVMe passthrough: `FIEMAP` in calls of limited size, block and sector arithmetic, the lookup of an extent, the 16-bit block count; as operators, with the file's layout as the reference |
| `NvmePassthrough` | extends `NvmeExtents`: devices and their slots, `PrepareRequestNvme`, trackers of split reads, the bytes that end up in the buffer, with or without polling |
| `Descriptors` | the process's table of descriptors: lowest free number, close |
| `NvmeDevice` | extends it: the names of devices, the device's opening, containers and closing |
| `LinuxFileHandle` | extends `NvmeDevice`: the handle of a container and its `Opened`, `Closed` and `Fixed` states with their descriptors |
| `RingSetup` | extends `Descriptors`: the options, the attempts at flags of `CreateRing`, `io_uring_queue_init` and its mappings with failures, feature checks, limits, enabling, take-down |
| `Startup` | `RingSetup` and `LinuxFileHandle` together on one descriptor table |
| `ReadFileContents` | the loop that reads a sysfs file into an array that doubles (`LinuxFileHandle.cpp:36`), and its proof |
| `MCBufferMemory`, `MCNvmePassthrough`, `MCShortSubmit`, `MCStartup` | instances for TLC |
| `SequenceLemmas` | facts the proofs cite about `RemoveAt`, `SubSeq`, `Front` and `Last`, and about how often an element occurs in a sequence |
| `LinuxIoDispatcherProofs`, `UringRingProofs`, `BufferMemoryProofs`, `NvmePassthroughProofs`, `ShortSubmitProofs`, `StartupProofs` | for each of these, the inductive invariant, its proof and the theorems |

`LinuxIoDispatcher` has its rings as bounded sequences, with the conditions to
enter the kernel; `UringRing` shows that the indices implement such queues. It
has the dispatcher's request loop only in outline (which calls it may make, in
which order), so that the two are checked apart and each stays small.

### How the state corresponds

- A request is in one of `idle` (an unused engine object), `queue`
  (`RequestQueue`), `NextRequest` (the service thread's local), the ring or the
  kernel, `CompletedRequests`, `delivered`. The source has no such enumeration: a
  request travels as a pointer, and `OnePlace` is the property that it is never
  in two places or none.
- `pc` is where the service thread is between two steps that others can observe
  or interfere with. `submitFrom` and `processFrom` record the call site of
  `SubmitRequest` and `ProcessCompletedRequests`, which have several.
- `state[f]` and `fixedFd[f]` are a `FLinuxFileHandle`'s `State` and the `Fd` of
  a `Fixed` handle; "Deleted" stands for a handle that does not exist.
  `FreeRegisteredFiles` is a stack, as in the source (pushed downwards so that
  slot 0 is popped first). `ktable` is the kernel's side of the table.
- `sq`, `cq` are the rings, `inflight` the reads the kernel has taken,
  `deferred` the completions waiting for task work (`DEFER_TASKRUN`), `overflow`
  the kernel's overflow list. An entry names its file by slot; the kernel
  resolves the slot when it takes the entry and then holds the file itself.
- `ready` is the local `Ready` of `ProcessCompletedRequests`: entries that
  have been processed and not yet advanced past, so that the kernel may post
  between the two.
- `content[b]` says whose data is in a buffer. It is what makes "the read
  returned its own data" a statement about bytes and not about bookkeeping: a
  read of another file leaves nobody's data.

- In `BufferMemory` an allocation is named by its alignment, and an address is an
  allocation and the number of a block in it; `moved[b]` is how far `Memory` is from
  the start of its block. `use[b]` is who has a buffer, which the source knows
  only as the state of a request. `live` is what has been allocated and not freed:
  the memory allocator's view, which the source does not have. `target[b]` is what
  a read was told to write to: a block, and from where in it how many bytes. `missed`
  is a history that no guard reads: the buffers in which an NVMe read without a start
  extent has left `FixupOffset` set and `Memory` where it was.
- In `NvmePassthrough` `content[b]` is the block of memory itself, byte by byte, each
  byte being the device byte that was read into it; `content` is wiped when the
  engine releases a buffer, so that data of an earlier read never passes for data.
  A command is `[trk, fd, lb, num, addr, ...]`: logical block, number of blocks (`BlocksRead`
  is what the field in the command makes of it), address relative to the block of memory.
- In `Startup` `fds[d]` is whose descriptor `d` is; `closedForOthers` and
  `unmappedTwice` note a close of a descriptor of another part, or an unmapping of
  memory that is not the ring's any more; `leaked` the descriptors that
  `CreateFileHandle` returns without closing (`LinuxFileHandle.cpp:250-275`).
  A kernel is the set of what it supports, so that a flag is refused as the kernel does.
- In `ShortSubmit` a request is named wherever an entry for it is: in the
  queue, in the kernel, in the completion queue; it may be in several.

- In `UringRing`, `sqe_tail`, `sqe_head`, `ktail`, `khead` are the source's, modulo
  `IndexModulus` (2^32). `ktail` is the tail *in memory*: in SQPoll mode the
  store of `__io_uring_flush_sq` is `sqe_head'`, and a step of its own
  (`TailVisible`) moves it to memory, as a store buffer does. The barrier of
  `sq_ring_needs_enter` is a guard: the thread goes on when its store has moved.
- `toSubmit`, `needsEvents`, `wakeup` are locals of `__io_uring_submit`, `left` counts
  the entries a read still needs, `caller` is the call site of `SubmitRequest`.
- `poller` is the kernel's SQPoll thread: `polling`, `announced` (it has set
  `IORING_SQ_NEED_WAKEUP` and looks at the ring once more), `asleep`, `woken`.

### How the actions correspond

One action is one stretch of code between two points where another party can
step. The reductions made, and why they lose nothing the properties speak of:

- *Private code is joined to its neighbour.* Tests on locals and on state only
  the service thread touches are part of the step before or after them.
- *`RegisterFile` opens and registers in one step.* The `Opened` state in
  between is visible to no other thread.
- *Pop and the read of the two flags are one step.* A cancellation between them
  and one just before the pop are the same to the engine, which only knows that
  the request was queued; `CancelRequest` is therefore enabled while it is queued.
- *`io_uring_cq_advance` is joined to the wake-up before it.* Kernel steps
  before and after the joined step are kept, which is where posting matters.
- *The kernel takes the entries of one `io_uring_enter` in one step*, because
  no completion of them can be seen by the thread that is inside the call; it
  may take any number of them when `SubmitCanFail`.
- *Critical sections are steps*, except that `UnregisterCritical` is held over
  several (`pc = "unregister"`, one file per step), and `CloseContainer` waits for it.
- *A notification is a step of its own* (`toNotify`), after what it announces.

In `UringRing` the steps of the dispatcher are separated where the other side of a
ring can come between: the store of the tail, the load of the kernel's head, the
read of the overflow flag, the read of the wake-up flag and the enter are five steps.
The kernel takes entries one at a time in SQPoll mode and any number of those
offered otherwise, which covers short submissions.

The engine is modelled weakly: `CloseUnderReads` lets it close a container with
reads accepted and not yet returned, as long as none is still in its own queue.
It is a constant because whether the engine does so is not in this repository:
with TRUE the safety results do not depend on it.

## 3. What the runs check

Constants: R requests, B buffers, F files, S slots; SQ and CQ entries;
batch size; D = `DeferTaskrun`; X = `SubmitCanFail`; C = `CloseUnderReads`.

| Run | Instance | Properties |
|---|---|---|
| `dispatcher_files` | R2 B2 F2 S2 SQ2 CQ2 batch 2, C | `TypeOK`, `FileTableConsistent`, `ReadsOwnFile`, `SlotsStableUnderReads` |
| `dispatcher_rings` | R3 B2 F1 S1 SQ1 CQ1 batch 2, C | `PendingAccounting`, `DrainedWhenServiceReturns`, `OnePlace`, `BatchIsQueue`, `BuffersExclusive`, `NoStrandedWork`, `NoStrandedCompletion` |
| `dispatcher_refines` | R2 B2 F2 S1 SQ2 CQ2 batch 2, C D X | `ImplementsStore` |
| `dispatcher_live` | R2 B2 F1 S1 SQ2 CQ2 batch 2, C D | `AcceptedIsDelivered`, `QuiescesWithoutPushes`, `ClosedIsUnregistered` |
| `uring_ring` | three operations, rings of two entries, indices modulo 4, reads of up to two entries, batch 2, with and without SQPoll | `TypeOK`, `IndicesInOrder`, `NoLostWakeup`, `ImplementsQueues`, `SqPollCompletes` |
| `nvme` | R2 B2 F2, two devices and trackers, blocks of 2 bytes, polled, batch 2, SQ2, block count modulo 4 | `TypeOK`, `ExtentsComplete`, `PartsInBuffer`, `SuccessMeansData`, `TrackersCount`, `DeviceTableConsistent`, `FatalOnlyIfUnmapped` |
| `memory` | B3, alignments 1, 2 and 4, buffers of 2, reads of 2 at offsets 0 and 3, registered pieces of at most 12, with and without NVMe | `TypeOK`, `NoUseAfterFree`, `MemoryAccounted`, `BlocksDisjoint`, `BlockSizeHonoured`, `FixedReadsInChunk`, `ReadsInBlock` |
| `startup` | 11 kernels, 3 limits of locked memory, F2 S2, descriptors 0 to 6, five device names | `FlagsTellTruth`, `BuffersFitMemlock`, `ResourcesOwned` |
| `short_submit` | R4 batch 3, at most 2 short submissions | `CounterMatches`, `OnceUnlessShort`, `PushedIsAnswered` |
| `dispatcher_slots` | see finding 1 | `MaxFixedFilesSuffices` is violated |
| `nvme_back_at_start` | as `nvme`, with reads past the end of a file; finding 2 | `BackAtStart` is violated |
| `short_submit_goes_past` | as `short_submit`; finding 3 | `GoesPastFailedEvent` is violated |

What they show:

- **files**: through every order of open, read, close, close under reads and open
  again, handles, kernel table and free stack agree, no slot is lost or freed
  twice, and no slot changes while a queued entry names it or its file is read.
- **rings**: three reads compete for two buffers; the submission queue of one
  entry fills within a batch of two, and two completions overflow a queue of one.
  The counter stays exact, each request is in one place, the batch is what the
  queue holds, and `StartRequests` returns (and files are unregistered) only when
  ring and kernel hold nothing. Every buffer is free, held by the service or one
  request's; the service is never asleep on a file to unregister or on a request
  it has a buffer for; the dispatcher thread is never left unaware of a completion.
- **refines**: with everything that can go wrong at once (short submissions,
  failed and short reads, opens that fail, slots that run out, deferred work),
  each step is a step of `PlatformIoStore` or changes nothing of it. The outcome
  is computed from the buffer's content, so a read of the wrong file or an
  ignored error shows as "garbage", which the abstract store does not allow.
- **ring**: neither side of a ring overtakes the other, and read through the
  mapping the rings are queues: no entry is overwritten before it is taken, none
  is skipped or taken twice, also when completions are posted between the
  peek and the advance and when the overflow list is flushed. The poller is
  never asleep before an entry once `io_uring_submit` is back, and every operation
  comes back in SQPoll mode.
- **nvme**: reads that begin and end inside blocks, cross extents, or are longer
  than the block count can say, of two containers whose layouts interleave on
  their devices. A read that is handed over as good has at `Memory` the bytes of
  its file, computed from the file's layout and not from the extents the plugin
  keeps; no command writes outside its block of memory; a tracker counts all its
  commands, also when the submission queue fills and some of them complete
  before the last is prepared; a device has a slot exactly while it has containers.
- **memory**: the block size grows from 1 to 2 to 4 while buffers are acquired,
  prepared, in flight, completed and held by the engine, in every combination.
  Old memory outlives its last user and not longer, nobody writes to or reads from
  freed memory, two buffers in use have different blocks, and a fixed read names
  the piece its block is in, across a new registration. A read is given a block of the
  alignment it needs (`BlockSizeHonoured`; the address of a DirectIO read is `FixupOffset`
  behind the start of the block, cpp:1194) and writes inside it, whatever reads its
  buffer had before. The exception are the buffers in `missed` (finding 2), until they
  get another block: without it TLC finds `ReadsInBlock` violated.
- **startup**: every set of options on every kernel of the list. The plugin's
  flags tell what was granted, registered buffers fit the limit with the largest
  block size that may come, and no descriptor is closed by anyone but its owner or
  lost, except the ones `ResourcesOwned` lists: those `CreateFileHandle` leaks, and
  those of a dispatcher that never had a ring (`NeverHadARing`: `io_uring_queue_exit`
  of a zeroed struct closes descriptor 0, and after a failed mapping unmaps again
  what `io_uring_mmap` had unmapped).
- **short_submit**: without `SUBMIT_ALL`, requests are issued twice after a short
  submission (finding 3), and the counter still is the number of completions to
  come, so the service waits for all of them. While every batch is taken whole,
  also with failed entries and -EBUSY, each request is read once and answered.
- **live**: below.

### Bounds

All the sets are bounded by the constants above; no counter needs a bound of its
own, because a request must return to `idle` before it is pushed again. Two
requests suffice for a batch of two, for two reads of different files in the
kernel at once, and for completions out of order; a third one is added where two
buffers must be contended for, and where a queue of two must overflow. Two files
and slots suffice for a slot to be released by one container and taken by
another. `deferred` and `overflow` are met in `refines`, `overflow` with a full `cq` in
`rings`. The theorems below remove the bounds for the properties they name.
Buffers are symmetric in the safety runs; no symmetry is used with liveness.

In `uring_ring` the indices wrap every four entries, and both rings are used
without end, so every position of both indices round the ring is met; the modulus
is a multiple of the ring sizes, as 2^32 is of a power of two. Three operations
are one more than either ring holds: the submission ring fills, and the third
completion overflows.

In `nvme` the block size is 2, so that an offset may be on a block or not; a file has
up to three extents, which are read in calls of two, so that a second call is
needed and one may end exactly with the map; the linear search gives way to the
binary one at two extents; a command can say at most four blocks, where the
hardware's field says 65536. Two requests and a submission queue of two make it fill
between two commands of one read. Cancelled reads are left out: cancelling is
between the engine and the loop, which `LinuxIoDispatcher` has. `tracker` is reset
when it is back in the pool, where nothing reads it. Requests, and containers with
equal layouts, are symmetric as far as `Symmetry` says.

In `memory`, three buffers are one for the kernel, one for the engine and one being
acquired. `MaxBufferSize` is such that all three blocks fit one piece with the first
alignment (4 bytes each) and need two or three with the larger ones. Of the two reads
one begins on a block, and one as far behind the start of its block as can be,
which needs both units of alignment that a buffer is larger by. `MaxMissed` is the
only bound that is not in the code: refused reads move a buffer further from its
place each time, here by no more than one byte, which a refusal at alignment 2
already does; the theorem is for every bound.

In `startup` kernels are cumulative: each has all that the ones before it brought, in
the order in which Linux got the features the plugin asks for. Seven descriptors
are 0 to 2, the ring, one open file, one leaked and a device; a `open` that finds the
table full fails, as with `RLIMIT_NOFILE`. Locked memory of 3, 8 and 12 is too little
for two plain buffers of 2, enough for those, and enough for aligned ones. Device
names are words and numbers: a partition, a namespace without one, disks of
other drivers, and none.

In `short_submit` the ring has room for everything (`SubmissionQueueFull` is another
module's), two short submissions are enough for a request to be issued three
times, and four requests fill more than a batch of three. `MaxShort` is the only
bound that is not in the code; the counter matches for every number of short
submissions, as the proof shows.

`CHECK_DEADLOCK FALSE` stands where the process really stops:
`OutOfRegisteredFiles` is a failed `checkf`, and after a short submission the
service may block in `io_uring_wait_cqe` for entries that were never taken
(the last also in `uring_ring`, without SQPoll, and in `short_submit`, where a batch
that does not match is fatal too). In `nvme` a failed `check` stops the process,
and `startup` ends with the dispatcher gone.

### Liveness and its fairness

- *The service thread keeps running* (`WF_vars(Service)`): it is a thread of its
  own with no lower-priority wait than those modelled; its blocking points are
  guards (`ServiceWait`, `WaitEnter`/`WaitCqe`).
- *The kernel completes every read it took* (one `WF_vars` per request).
- *The engine completes what it began*: a thread in `ServiceNotify` finishes,
  the dispatcher thread reacts to its wake-up, and releases what it collected.

Nothing makes the engine push, cancel, open or close, and no fairness is assumed
among the requests in the queue: the engine's priority order may pass one over.

For `uring_ring`: the dispatcher thread runs, a store leaves the store buffer in
the end, the SQPoll thread runs unless it is asleep, and the kernel completes
what it took. Nothing wakes the poller but the dispatcher's `io_uring_enter`.
`SqPollCompletes` has the premise that no read needs more entries than the ring
holds: otherwise `GetSubmissionQueueEvent` (cpp:1017) waits for room in a ring
whose entries it has not published, and goes round without end. Without SQPoll
the property is not claimed, because a short submission may leave entries behind.

For `short_submit`: the service thread keeps running and the kernel completes
what it took. `PushedIsAnswered` is claimed of behaviours without a short
submission, which is what the flag `SUBMIT_ALL` stands in for.

Two of the three properties of `LinuxIoDispatcher` have a premise, and TLC finds counterexamples without
it. `AcceptedIsDelivered` assumes that the request loop does not go round forever
without reaching its end: if the engine keeps pushing reads that are answered
without the ring, an incomplete batch is never submitted (cpp:1319 leads back to
the top of the inner loop, past cpp:1347). `ClosedIsUnregistered` assumes that a
service which keeps taking requests also returns from `StartRequests` now and
then: reads without a gap keep it inside, and closed files are unregistered only at
its start. Both premises are true of a behaviour in which the service hangs, so
they excuse starvation and nothing else. `QuiescesWithoutPushes` needs none.

### Findings

1. **Slots run out with fewer containers open than slots**
   (`dispatcher_slots`). `r.Linux.Streaming.MaxFixedFiles` (cpp:77) is described as the
   "Maximum number of fixed Files". A closed container keeps its slot until the
   next `StartRequests`; reading from a newly opened one before that fails the
   `checkf` at cpp:208 although no more than `MaxFixedFiles` are open.
2. **A read beyond the mapped part moves the next one** (`nvme_back_at_start`).
   `PrepareRequestNvme` promises "Make sure the memory location is back to the
   original start location" (cpp:1039) by taking `FixupOffset` away from `Memory`.
   A read whose start extent is missing has its `FixupOffset` set (cpp:1072) and is
   completed (cpp:1079-1084) without `Memory` having been moved by it, which only
   `ProcessCompletionEvent` does. The next read into that buffer starts before its
   block, by less than a block of the device. Until the buffer is given another
   block nothing brings it back, which is why `ReadsInBlock` excepts it.
3. **A short submission issues the rest twice** (`short_submit_goes_past`).
   The comment at cpp:1249 says "CQE should've posted for the failed event. Go past
   it." The entries behind it are still in the queue when cpp:1250-1254 issues their
   requests again: `__io_uring_flush_sq` offers everything from the kernel's head
   (`uring/queue.c:247`). Each is read twice into its buffer and completed twice, and
   the next `io_uring_submit` may take more than the batch has, which ends in the
   range check of `RemoveAt`. Only kernels before 5.18, without `SUBMIT_ALL`, get here.

Also seen, and not a run: the comment at cpp:833 says the peek "may enter the kernel
if we are deferring task run". `uring/queue.c:206` does so only when
`IORING_SQ_TASKRUN` is raised, which needs `IORING_SETUP_TASKRUN_FLAG`, and `CreateRing`
never asks for it (cpp:498). The reads are picked up by the blocking wait at the end of
the loop instead, so the effect is latency: `dispatcher_live` holds. And of a
split NVMe read only the completion that comes last is examined (cpp:766), so
`SuccessMeansData` has the premise that none of the read's commands failed.

## 4. What is proved

`LinuxIoDispatcherProofs` proves, for any sets of requests, files and buffers and any sizes:

| Theorem | States |
|---|---|
| `TypeCorrect` | `Spec => []TypeOK` |
| `Accounting` | `Spec => []PendingAccounting` |
| `Drained` | `Spec => []DrainedWhenServiceReturns` |
| `FileTable` | `Spec => []FileTableConsistent` |
| `ReadsTheRightFile` | `Spec => []ReadsOwnFile` |
| `SlotsStable` | `Spec => SlotsStableUnderReads` |

Assumptions: the four named ones of `LinuxIoDispatcher` (sizes are natural
numbers, the rings and the batch are not empty, `FileOf` is a function, `None` is
none of the values). Both settings of `CloseUnderReads`, `DeferTaskrun` and
`SubmitCanFail` are covered.

### The argument

None of these is inductive alone; `IInv` is their conjunction with five more facts.

- A slot may be emptied only when no read names it. Files are unregistered only
  at `pc = "unregister"`, where `NothingPending` says the counter is zero, and
  `PendingAccounting` turns that into empty queues. `RingBounds` is what makes the
  counter's zero decisive: `ready` never exceeds `Len(cq)`, so no negative term
  hides a positive one, and it is zero outside `ReapBatch`..`NotifyAndAdvance`.
- A slot may be filled only when it is free: `FileTableConsistent` says a free
  slot holds no file, and `ReadsOwnFile` that every queued entry's slot holds one.
- `ReadsOwnFile` for a new entry comes from `FileInHand`: from `alloc` on, the
  request's file is `Fixed`. That fact survives the request's detours
  (`SubmissionQueueFull` goes through a submission and back) only because
  `RequestInHand` says exactly when `NextRequest` is a request.
- `BatchDone` and `RequestInHand` give the rest of `Drained`.

Each step lemma follows one part of `IInv` over all actions; frames
(`OutsideRing`, `ControlFrame`, `FileFrame`) dispose of the actions that leave a
part alone. `SlotsStable` then follows from `IInv` and a case split on the two
actions that write the table.

### The rings

`UringRingProofs` proves, for rings of any size, any number of operations, reads of
any number of entries, and indices that wrap anywhere above the ring sizes:

| Theorem | States |
|---|---|
| `RingTypeCorrect` | `Spec => []TypeOK` |
| `IndicesStayInOrder` | `Spec => []IndicesInOrder` |
| `WakeupNotLost` | `Spec => []NoLostWakeup` |
| `RingsImplementQueues` | `Spec => ImplementsQueues` |

`RingInv` is the invariant. `SqFilled` and `CqFilled` say that the slots between the
indices hold operations (so that what is taken and read is one); `Offered` that
without SQPoll the kernel is never offered more than there is; `SeenOnlyAtAdvance`
that no completion is read twice. For the wake-up, `StoreInFlight` says that a
store not yet in memory keeps the dispatcher before its barrier, and
`WakeupUnderWay` that a poller asleep before an entry finds the dispatcher either
still before the barrier, where it will see the flag, or about to wake it: the
poller's flag is up whenever it is not polling, and it goes to sleep only on an
empty ring, so an entry it does not see must have been in flight.
The modulus need not be a multiple of the ring size for these three.

`RingsImplementQueues` does need it (`SlotAssumption`: the sizes are powers of two, as
2^32 is). `SlotsDiffer` is the heart of it: two indices less than a ring apart have
different slots, also when one of them has wrapped, because the wrap takes away a
multiple of the ring. So `io_uring_get_sqe` and the kernel's completions
fill a slot that no entry between head and tail has (`SqAppended`, `CqAppended`), and
what is moved from the overflow list goes behind them in order (`FlushFills`).
`GetSqe` is then `Acquire`; `PollTake` and `Enter` are `Take`, of one entry or of as many as
the kernel takes; a completion is `Complete`; `ProcessBatch` and `WaitCqe` are `Read`. A
batch counts as read when it is processed, so `CqAdvance`, and with it whatever the kernel
posts in between, changes nothing, and neither does a move from the overflow list.

### Requests, buffers and wake-ups

The second part of `LinuxIoDispatcherProofs` builds on the invariant above:

| Theorem | States |
|---|---|
| `RequestsInOnePlace` | `Spec => []OnePlace` |
| `BuffersStayExclusive` | `Spec => []BuffersExclusive` |
| `BatchMatchesQueue` | `~SubmitCanFail => (Spec => []BatchIsQueue)` |
| `ServiceNotStranded` | `Spec => []NoStrandedWork` |
| `CompletionsNotStranded` | `Spec => []NoStrandedCompletion` |

- `OnePlace` counts a request over the engine, the service thread, the ring and the
  completed list. Each step moves one count: `PushRequest` inside the engine,
  `PopRequest` from it to the service, `IssueRequest` to the ring, `ReapBatch` and `WaitCqe`
  to the list. Inside the ring (`RingKeeps`) entries change sequences while the sum
  stays. That is arithmetic on how often an element occurs in a sequence:
  `SequenceLemmas` has what `Append`, concatenation, splitting and `RemoveAt` do to it.
  `OnePlace` is inductive relative to `IInv`, of which `RequestInHand` (nothing is in hand when
  a request is taken) and `RingBounds` are used.
- `BuffersExclusive` needs that a request without a buffer has none (`NoBufferBefore`):
  until `AllocateMemory` gives it one, nothing overwrites a buffer it had. That a buffer
  changes hands only where no entry names it comes from `OnePlace`: a request in the
  engine's or the service's hands has nothing in the ring.
- For the wake-ups, `RequestsTold` says what holds from the moment `GetNextRequest`
  returned nothing: either there is nothing to do, or a notification is set or under
  way. The engine adds work and the duty to notify in one step, so a thread that
  goes to sleep in between still finds the event set. `Told` covers both halves.

### The dispatcher implements the store

The last part of `LinuxIoDispatcherProofs` proves `DispatcherImplementsStore`, `Spec => ImplementsStore`. The
steps map as follows, the others change nothing the engine can see:

| `LinuxIoDispatcher` | `PlatformIoStore` |
|---|---|
| `OpenContainer`, `CloseContainer` | `Open`, `Close` |
| `PushRequest`, `CancelRequest` | `Push`, `Cancel` |
| `PopRequest` | `Accept` |
| `OnRequestComplete`, `ReapBatch`, `WaitCqe` | `Complete`, with one or more requests |
| `GetCompletedRequests`, `ReleaseRequest` | `Collect`, `Release` |
| `UnregisterFile` | `Drop` |

The invariants above (`Known`) say where each request is and whose its buffer is. What the
mapping also needs is `StoreInv`:

- `MountsKnown`: a pushed request is of an open container, and a container on the list to
  be unregistered is there once and still has its handle. `Drop` is then a container that
  was closed, and `NumPendingCompletions = 0` with `OnePlace` leaves no accepted request of it.
- `FlagsKnown`: a cancelled request never gets a buffer and never fails, so that the outcome
  of a request has one reason.
- `BuffersKnown` and `CompletionsKnown`: an entry has a buffer, and a completion that says "ok" means
  that the buffer holds the request's own data. It stays so until the completion is
  reaped, through task work, the overflow list and the ring, since nobody else reads
  into a buffer in use (`BuffersExclusive`) and the kernel reads only the file an entry
  was prepared with.
- `AnswerKnown`: a request completed without the ring was cancelled, failed or
  found its data in the cache.

### Memory, short submissions, start-up

| Module | Theorems, each `Spec => []` of |
|---|---|
| `BufferMemoryProofs` | `TypeOK`, `MemoryAccounted`, `NoUseAfterFree`, `BlocksDisjoint`, `ReadsInBlock`, `FixedReadsInChunk`, `BlockSizeHonoured` |
| `ShortSubmitProofs` | `CounterMatches`, `OnceUnlessShort` |
| `StartupProofs` | `FlagsTellTruth`, `BuffersFitMemlock`, `ResourcesOwned` |
| `ReadFileContents` | `Complete` (the model and its proof are one module) |

- Memory: `Growth` (alignments only grow) makes an old allocation older than the current
  one, so that none is listed twice. `Placement` and `Distinct` say where each buffer is, or
  will be when it is next acquired, and that no two places are one; `Tracked` that an old
  allocation with a buffer in use in it is on the list for that buffer, but for the
  one that is just leaving. Freeing when the last reference goes is then safe. `Registered`
  follows the pieces through a new registration: reads on their way keep the piece they
  were prepared with. `InPlace` says where `Memory` is between a read and the next: at
  the start of its block while the read is under way, `FixupOffset` behind it
  otherwise, unless the buffer is to move or a refused read left it out of place. A read is
  then prepared at the start of a block, and `AlignedSizeFits` shows that the
  two units of alignment in `ActualBufferSize` are room for it, also when `Memory` was
  allocated for a larger alignment than the read's. The assumptions are `BufferConstants`
  (finitely many buffers, sizes not zero, reads no larger than a buffer), `ABufferFits` (a
  registered buffer holds at least one read buffer) and `PowersOfTwo` (alignments are
  powers of two, of which it says that a larger one is at least twice a smaller one).
- Short submissions: `CounterMatches` is inductive with the types alone. What the proof
  shows is that re-issuing keeps the counter right, even though the entries
  themselves are doubled (finding 3). `OnceUnlessShort` rests on `OnceInv`: until the first
  short submission the batch is what the submission queue holds, so that a result short of
  the batch leaves entries behind, and each request is in exactly one place.
- Start-up: `FlagsTellAttempt` relates the plugin's flags to the parameters of the attempt
  under way and `FlagsTellRing` to the ring that came of it, through every fallback of
  `CreateRing`, for any set of kernels. `BuffersFitMemlock` holds for later block sizes because the
  measure was taken with the largest, and any power of two below it divides it
  (`BlockSizes`).
- `ResourcesOwned` rests on `Owned`, for any number of files and descriptors: the ring has
  its descriptor from the attempt that succeeded until the dispatcher is gone
  (`RingOwned`), files and the device have none unless the dispatcher runs
  (`QuietWhenNotRunning`), a file's belongs to the thread that has a step to take with it
  (`FilesOwned`), and the device's to a device that containers keep (`DeviceOwned`); the
  service has one file open at a time (`OneAtATime`), or a container that cannot be mapped
  would take the device from another's registration. A number handed out by the kernel belongs to
  nobody (`OpenFdOpens`), so that no stale number is closed. The assumptions are
  `OwnersAssumption` and, for the device to be the containers' disk, `NamesAssumption`:
  what Linux calls NVMe block devices (`nvme0n1`, `nvme0n1p2`).
- `ReadFileContents`: an array that was just filled is doubled before the next read, so
  a read of nothing means the end of the file and not a full array, and there is room for
  the terminator.

### NVMe passthrough

`NvmePassthroughProofs` proves, for any files with any layouts, devices, sizes of blocks, buffers,
batches and queues, polled or not:

| Theorem | States |
|---|---|
| `TypeCorrect` | `Spec => []TypeOK` |
| `WholeMapHeld` | `Spec => []ExtentsComplete` |
| `TrackersCounted` | `Spec => []TrackersCount` |
| `DevicesInTable` | `Spec => []DeviceTableConsistent` |
| `MappedReadsNotFatal` | `Spec => []FatalOnlyIfUnmapped` |
| `CommandsInBuffer` | `StartsHeld => (Spec => []PartsInBuffer)` |
| `DataDelivered` | `StartsHeld => (Spec => []SuccessMeansData)` |

The assumptions are those of the two modules: sizes are not zero and the partition begins
on a block (`ExtentConstants`, `PartitionAligned`), a read is of a container and no longer than
a buffer (`ReadsFit`), extents are of whole blocks, in order and apart (`FileLayouts`), and there is
a tracker for each request, or no end of them (`TrackersSuffice`; the code makes them with
`new`). `StartsHeld` is a hypothesis of two theorems only: a read with no extent to start in is
on a block. Without it `PrepareRequestNvme` leaves `FixupOffset` set and `Memory` where it was
(finding 2), and the next read into that buffer begins before its block. The reads of the
run `nvme` satisfy it, one of them with no extent to start in.

- **The extents.** `WalkExtents` runs a loop. `TurnReaches` says what one turn adds: after n calls
  the first `n * MaxExtents` extents are there (`WalkAfter`), because a call that starts where an
  extent ends skips exactly the ones before it (`FiemapFrom`). `ExtentsRead` follows by
  looking at the first turn that would not do so (`LeastIsOne`): it is not turn 0, and the one
  before it is right.
- **The count of a tracker.** `CountsOK` is the equation for all trackers, `Outstanding` the sum over
  queue, devices and completions. A submission moves entries to devices one for
  one because the commands of a read differ (`PartsApart`): `inflight` is a set, and two equal
  commands would be counted as one. `TrackersOK` adds that a tracker that names a request has
  commands, or is about to get the first, so that `Finished` trackers go to the pool once
  and the one on top is free (`TrackerIsFree`).
- **The table of devices.** A device may be removed only when no command names its slot.
  `RegisteredOK` says that a container stays registered while a read of it is under way, which
  `CloseContainer`'s guard and the order of `FilesToUnregister` give (`RequestsOK`), and the last
  container takes the slot. `SlotsOK` says that no slot is free twice and which slot a command
  names.
- **The loop over extents.** `SplitOK` says where the loop is: `ptr` is as far into the buffer as the
  rest of the read is into its blocks, and if the read has no holes, the extent at hand
  begins just there, or holds the start. `MappedPart` takes a turn: the part ends with the extent and,
  the next byte being mapped, the next extent begins there (`NextExtent`). So both `check()`s hold,
  and with a slot for each device so does the `checkf` of `RegisterNvmeFile` (`SlotForEach`).
- **The data.** `DInv` is relative to `IInv`. `MemoryOK`: `Memory` is at the start of its block while the
  read is under way, and `FixupOffset` behind it otherwise, so that taking it back
  leads to the start. `PartsInRead` keeps commands inside the aligned read, and `DataOf` says of
  each byte of it that it is in the buffer, or in a command that is under way and names
  its place on the device, or still ahead of the loop. A step is one of four to a tracker
  (`TrackerCases`): it keeps its read, sets one up, prepares a command, or carries one out.
  When the last completion comes no command is left and the loop is over, so every
  byte is in the buffer (`DeliveredByDevice`). `WhollyMapped` also bounds the number of blocks, and
  `CountFits` uses that: the count in 16 bits is the count meant.

### What stays with TLC

Liveness (`dispatcher_live`, `SqPollCompletes`, `PushedIsAnswered`): fairness and ENABLED are
out of the prover's reach. Every safety invariant and action property of the passing runs
is a theorem.

## 5. What is not modelled

- SQPoll together with the request loop, and `io_uring_sqpoll_wake`, which is called
  with SQPoll and IOPoll only. `UringRing` has SQPoll, `NvmePassthrough` IOPoll.
- The reading functions of `FLinuxFileHandle` (`LinuxFileHandle.cpp:68-207`): nothing in the
  plugin calls them.
- Which descriptor `do_register` uses when the registered one is another thread's
  (`uring/register.c:13`, `uring/setup.c:469`).
- Cancelled reads and several block sizes at a time in `NvmePassthrough`; what the
  kernel does with an unaligned DirectIO read (cpp:794).
- A file whose layout changes after its extents were read.
- Failures of `VERIFY_URING` in the request loop (they stop the process), and
  `-EINTR` from the wait.
- Statistics, traces, priorities, stall guards, `NumCompletionEventsAhead` (never read
  for a decision).
- The engine's block cache and buffer pool beyond their effect on the plugin.
- Memory orders weaker than a store buffer: a store is delayed past later loads,
  which is what the barrier is there for; loads are not reordered.
- Operations of liburing that the plugin never calls (timeouts, `SQ_REWIND`, provided
  buffer rings, rings in the application's memory, the other registrations, all
  `io_uring_prep_*` but the ones used): half of `liburing.h` and most of `register.c`.
- The system-call layer, sanitizer hooks, `ffi.c` and version: no state or decision.

## 6. Plan

Done: all modules above with their runs, and the theorems of section 4. What would
come next:

1. SQPoll in the request loop of `LinuxIoDispatcher`, where `ProcessCompletedRequests` polls
   and `io_uring_sqpoll_wake` is called.
