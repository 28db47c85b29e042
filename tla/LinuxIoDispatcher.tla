-------------------------- MODULE LinuxIoDispatcher --------------------------
(***************************************************************************)
(* FLinuxPlatformIoDispatcher in its ordinary mode: buffered reads of      *)
(* registered ("fixed") files through an io_uring that only the I/O        *)
(* service thread enters (no SQPoll, IOPoll, DirectIO or NVMe passthrough, *)
(* and IORING_SETUP_SUBMIT_ALL granted).                                   *)
(*                                                                         *)
(* Three parties step concurrently:                                        *)
(*   - the engine: its mount thread opens and closes containers, and its   *)
(*     I/O dispatcher thread pushes, cancels, collects and releases reads; *)
(*   - the service thread, which loops StartRequests(); ServiceWait();     *)
(*   - the kernel, which completes reads in any order.                     *)
(* The engine and the kernel are outside the repository and are modelled   *)
(* from how the plugin and the vendored liburing use them.                 *)
(***************************************************************************)
EXTENDS Integers, Sequences, FiniteSets, SequencesExt

CONSTANTS
    Requests,           \* the engine's FFileIoStoreReadRequest objects
    Files,              \* container files, each with its FLinuxFileHandle
    Buffers,            \* the engine's pool of read buffers
    FileOf,             \* the container file each request reads from
    MaxOpenContainers,  \* containers the engine keeps open at a time
    CloseUnderReads,    \* the engine may close a container with reads accepted
    MaxFixedFiles,      \* slots of the registered-file table
    GBatchSubmitSize,   \* r.Linux.Streaming.BatchSize
    SqEntries,          \* submission queue entries
    CqEntries,          \* completion queue entries
    DeferTaskrun,       \* IORING_SETUP_DEFER_TASKRUN was granted
    SubmitCanFail,      \* the kernel may consume fewer SQEs than offered
    None                \* no request, buffer or file

Slots == 0 .. MaxFixedFiles - 1

ASSUME FileOfAssumption == FileOf \in [Requests -> Files]
ASSUME SizesAssumption ==
    /\ MaxOpenContainers \in Nat
    /\ MaxFixedFiles \in Nat
    /\ GBatchSubmitSize \in Nat \ {0}
    /\ SqEntries \in Nat \ {0}
    /\ CqEntries \in Nat \ {0}
ASSUME SwitchesAssumption ==
    /\ CloseUnderReads \in BOOLEAN
    /\ DeferTaskrun \in BOOLEAN /\ SubmitCanFail \in BOOLEAN
ASSUME NoneAssumption == None \notin Requests \cup Files \cup Buffers

VARIABLES
    idle, queue, delivered,      \* requests: unused, in RequestQueue, collected
    bCancelled, bFailed,         \* the requests' flags of these names
    buffer, content,             \* Request->Buffer; whose data a buffer holds
    freeBuffers,                 \* the pool behind BufferAllocator
    containers,                  \* open containers, from the engine's side
    toNotify, wakeDispatcher     \* engine threads inside ServiceNotify; wake-up flag
VARIABLES
    state, fixedFd,              \* FLinuxFileHandle::State and the Fd of a Fixed one
    FreeRegisteredFiles, ktable, \* free slots (a stack); the kernel's file table
    FilesToUnregister
VARIABLES
    pc, submitFrom, processFrom, \* where the service thread is, and its callers
    NextRequest, AcquiredBuffer, PendingSubmits,
    NumPendingCompletions, CompletedRequests, ready, event
VARIABLES
    sq, inflight, deferred, cq, overflow    \* the ring and the kernel behind it

engineVars == <<idle, queue, delivered, bCancelled, freeBuffers, containers, toNotify>>
fileVars == <<state, fixedFd, FreeRegisteredFiles, ktable>>
callVars == <<submitFrom, processFrom>>
ringVars == <<sq, inflight, deferred, cq, overflow>>
vars == <<engineVars, bFailed, buffer, content, wakeDispatcher,
          fileVars, FilesToUnregister, pc, callVars, NextRequest, AcquiredBuffer,
          PendingSubmits, NumPendingCompletions, CompletedRequests, ready, event,
          ringVars>>

SubmitCallers == {"request", "full", "flush"}
ProcessCallers == {"request", "flush", "wait"}
PCs == {"start", "unregister", "next", "open", "alloc", "issue", "submit", "enter",
        "process", "reaped", "completed", "notify", "flush", "waitcqe", "waited",
        "loop", "wait", "fatal"}

\* A submission entry names its file by slot; the kernel resolves the slot when
\* it consumes the entry and holds the file from then on.
Sqe == [req : Requests, fd : Slots, buf : Buffers \cup {None}]
Op  == [req : Requests, file : Files \cup {None}, buf : Buffers \cup {None}]
Cqe == [req : Requests, ok : BOOLEAN]

TypeOK ==
    /\ idle \subseteq Requests /\ queue \subseteq Requests
    /\ delivered \subseteq Requests
    /\ bCancelled \subseteq Requests /\ bFailed \subseteq Requests
    /\ buffer \in [Requests -> Buffers \cup {None}]
    /\ content \in [Buffers -> Requests \cup {None}]
    /\ freeBuffers \subseteq Buffers
    /\ containers \subseteq Files
    /\ toNotify \subseteq {"io", "mount"} /\ wakeDispatcher \in BOOLEAN
    /\ state \in [Files -> {"Deleted", "Closed", "Fixed"}]
    /\ fixedFd \in [Files -> Slots \cup {-1}]
    /\ FreeRegisteredFiles \in Seq(Slots)
    /\ ktable \in [Slots -> Files \cup {None}]
    /\ FilesToUnregister \in Seq(Files)
    /\ pc \in PCs
    /\ submitFrom \in SubmitCallers /\ processFrom \in ProcessCallers
    /\ NextRequest \in Requests \cup {None}
    /\ AcquiredBuffer \in Buffers \cup {None}
    /\ PendingSubmits \in Seq(Requests)
    /\ NumPendingCompletions \in Int
    /\ CompletedRequests \in Seq(Requests)
    /\ ready \in Nat
    /\ event \in BOOLEAN
    /\ sq \in Seq(Sqe) /\ inflight \in Seq(Op)
    /\ deferred \in Seq(Cqe) /\ cq \in Seq(Cqe) /\ overflow \in Seq(Cqe)

Init ==
    /\ idle = Requests /\ queue = {} /\ delivered = {}
    /\ bCancelled = {} /\ bFailed = {}
    /\ buffer = [r \in Requests |-> None] /\ content = [b \in Buffers |-> None]
    /\ freeBuffers = Buffers
    /\ containers = {} /\ toNotify = {} /\ wakeDispatcher = FALSE
    /\ state = [f \in Files |-> "Deleted"] /\ fixedFd = [f \in Files |-> -1]
    /\ FreeRegisteredFiles = [i \in 1 .. MaxFixedFiles |-> MaxFixedFiles - i]
    /\ ktable = [s \in Slots |-> None]
    /\ FilesToUnregister = <<>>
    /\ pc = "start" /\ submitFrom = "request" /\ processFrom = "request"
    /\ NextRequest = None /\ AcquiredBuffer = None
    /\ PendingSubmits = <<>> /\ NumPendingCompletions = 0
    /\ CompletedRequests = <<>> /\ ready = 0 /\ event = FALSE
    /\ sq = <<>> /\ inflight = <<>> /\ deferred = <<>> /\ cq = <<>> /\ overflow = <<>>

-----------------------------------------------------------------------------
(* The engine.  It opens a container before reading from it and closes one   *)
(* when none of its reads is queued, or none is with the service at all.  An *)
(* engine thread calls ServiceNotify after what it notifies of, as a step of *)
(* its own.                                                                  *)

Notifies(t) == t \notin toNotify /\ toNotify' = toNotify \cup {t}

\* CreateFileHandle opens the file once for its size, then Close() drops the fd.
OpenContainer(f) ==
    /\ state[f] = "Deleted" /\ Cardinality(containers) < MaxOpenContainers
    /\ state' = [state EXCEPT ![f] = "Closed"]
    /\ containers' = containers \cup {f}
    /\ UNCHANGED <<idle, queue, delivered, bCancelled, freeBuffers, toNotify, bFailed,
                   buffer, content, wakeDispatcher, fixedFd, FreeRegisteredFiles, ktable,
                   FilesToUnregister, pc, callVars, NextRequest, AcquiredBuffer,
                   PendingSubmits, NumPendingCompletions, CompletedRequests, ready,
                   event, ringVars>>

\* The handle is queued under UnregisterCritical, which StartRequests holds
\* while it unregisters files.
CloseContainer(f) ==
    /\ f \in containers /\ pc # "unregister"
    /\ \A r \in Requests : FileOf[r] = f =>
          r \in idle \cup delivered \/ (CloseUnderReads /\ r \notin queue)
    /\ containers' = containers \ {f}
    /\ FilesToUnregister' = Append(FilesToUnregister, f)
    /\ Notifies("mount")
    /\ UNCHANGED <<idle, queue, delivered, bCancelled, freeBuffers, bFailed, buffer,
                   content, wakeDispatcher, fileVars, pc, callVars, NextRequest,
                   AcquiredBuffer, PendingSubmits, NumPendingCompletions,
                   CompletedRequests, ready, event, ringVars>>

\* Event->Trigger().  Mutant: the event is set only for a thread that waits on it.
Triggered_IfWaiting == event \/ pc = "wait"
Triggered == TRUE
ServiceNotify(t) ==
    /\ t \in toNotify
    /\ toNotify' = toNotify \ {t}
    /\ event' = Triggered
    /\ UNCHANGED <<idle, queue, delivered, bCancelled, freeBuffers, containers, bFailed,
                   buffer, content, wakeDispatcher, fileVars, FilesToUnregister, pc,
                   callVars, NextRequest, AcquiredBuffer, PendingSubmits,
                   NumPendingCompletions, CompletedRequests, ready, ringVars>>

PushRequest(r) ==
    /\ r \in idle /\ FileOf[r] \in containers
    /\ idle' = idle \ {r} /\ queue' = queue \cup {r}
    /\ Notifies("io")
    /\ UNCHANGED <<delivered, bCancelled, freeBuffers, containers, bFailed, buffer,
                   content, wakeDispatcher, fileVars, FilesToUnregister, pc, callVars,
                   NextRequest, AcquiredBuffer, PendingSubmits, NumPendingCompletions,
                   CompletedRequests, ready, event, ringVars>>

\* The flag is read once, as the request leaves the queue.
CancelRequest(r) ==
    /\ r \in queue \ bCancelled
    /\ bCancelled' = bCancelled \cup {r}
    /\ UNCHANGED <<idle, queue, delivered, freeBuffers, containers, toNotify, bFailed,
                   buffer, content, wakeDispatcher, fileVars, FilesToUnregister, pc,
                   callVars, NextRequest, AcquiredBuffer, PendingSubmits,
                   NumPendingCompletions, CompletedRequests, ready, event, ringVars>>

\* The I/O dispatcher thread, woken by WakeUpDispatcherThreadDelegate, takes the
\* whole list under CompletedRequestsCritical.
GetCompletedRequests ==
    /\ wakeDispatcher /\ "io" \notin toNotify
    /\ wakeDispatcher' = FALSE
    /\ delivered' = delivered \cup ToSet(CompletedRequests)
    /\ CompletedRequests' = <<>>
    /\ UNCHANGED <<idle, queue, bCancelled, freeBuffers, containers, toNotify, bFailed,
                   buffer, content, fileVars, FilesToUnregister, pc, callVars,
                   NextRequest, AcquiredBuffer, PendingSubmits, NumPendingCompletions,
                   ready, event, ringVars>>

\* The engine is done with a delivered request: its object may be used again,
\* and its buffer, if it has one, goes back to the pool and the service is told.
ReleaseRequest(r) ==
    /\ r \in delivered /\ "io" \notin toNotify
    /\ delivered' = delivered \ {r} /\ idle' = idle \cup {r}
    /\ bCancelled' = bCancelled \ {r} /\ bFailed' = bFailed \ {r}
    /\ freeBuffers' = freeBuffers \cup ({buffer[r]} \ {None})
    /\ content' = [b \in Buffers |-> IF b = buffer[r] THEN None ELSE content[b]]
    /\ buffer' = [buffer EXCEPT ![r] = None]
    /\ toNotify' = IF buffer[r] = None THEN toNotify ELSE toNotify \cup {"io"}
    /\ UNCHANGED <<queue, containers, wakeDispatcher, fileVars, FilesToUnregister, pc,
                   callVars, NextRequest, AcquiredBuffer, PendingSubmits,
                   NumPendingCompletions, CompletedRequests, ready, event, ringVars>>

-----------------------------------------------------------------------------
(* The service thread: StartRequests up to the request loop.                 *)

\* StartRequests takes UnregisterCritical.
StartRequests ==
    /\ pc = "start" /\ pc' = "unregister"
    /\ UNCHANGED <<engineVars, bFailed, buffer, content, wakeDispatcher, fileVars,
                   FilesToUnregister, callVars, NextRequest, AcquiredBuffer,
                   PendingSubmits, NumPendingCompletions, CompletedRequests, ready,
                   event, ringVars>>

\* io_uring_register_files_update of one slot.
FilesUpdate(off, file) == [ktable EXCEPT ![off] = file]

\* A slot is given -1.  Mutant: the kernel's slot keeps the file.
TableWithout_NotUpdated(f) == ktable
TableWithout(f) == FilesUpdate(fixedFd[f], None)

\* The slot that becomes free.  Mutant: NewFd, the -1, is freed instead.
FreedSlot_NewFd(f) == -1
FreedSlot(f) == fixedFd[f]

\* One turn of the loop over FilesToUnregister, still under the lock.
UnregisterFile(f) ==
    /\ pc = "unregister"
    /\ FilesToUnregister # <<>> /\ f = Head(FilesToUnregister)
    /\ FilesToUnregister' = Tail(FilesToUnregister)
    /\ IF state[f] = "Fixed"
         THEN /\ ktable' = TableWithout(f)
              /\ FreeRegisteredFiles' = Append(FreeRegisteredFiles, FreedSlot(f))
         ELSE UNCHANGED <<ktable, FreeRegisteredFiles>>
    /\ state' = [state EXCEPT ![f] = "Deleted"]
    /\ fixedFd' = [fixedFd EXCEPT ![f] = -1]
    /\ UNCHANGED <<engineVars, bFailed, buffer, content, wakeDispatcher, pc, callVars,
                   NextRequest, AcquiredBuffer, PendingSubmits, NumPendingCompletions,
                   CompletedRequests, ready, event, ringVars>>

\* The lock is released and the request loop entered.
EnterRequestLoop ==
    /\ pc = "unregister" /\ FilesToUnregister = <<>>
    /\ pc' = "next"
    /\ UNCHANGED <<engineVars, bFailed, buffer, content, wakeDispatcher, fileVars,
                   FilesToUnregister, callVars, NextRequest, AcquiredBuffer,
                   PendingSubmits, NumPendingCompletions, CompletedRequests, ready,
                   event, ringVars>>

-----------------------------------------------------------------------------
(* The service thread: taking one request.                                   *)

\* GetNextRequest allocates a buffer first, and keeps it while no request comes.
AcquireBuffer(b) ==
    /\ pc = "next" /\ AcquiredBuffer = None /\ b \in freeBuffers
    /\ AcquiredBuffer' = b
    /\ freeBuffers' = freeBuffers \ {b}
    /\ UNCHANGED <<idle, queue, delivered, bCancelled, containers, toNotify, bFailed,
                   buffer, content, wakeDispatcher, fileVars, FilesToUnregister, pc,
                   callVars, NextRequest, PendingSubmits, NumPendingCompletions,
                   CompletedRequests, ready, event, ringVars>>

\* GetNextRequest returns nullptr.
NoNextRequest ==
    /\ pc = "next"
    /\ IF AcquiredBuffer = None THEN freeBuffers = {} ELSE queue = {}
    /\ pc' = "flush"
    /\ UNCHANGED <<engineVars, bFailed, buffer, content, wakeDispatcher, fileVars,
                   FilesToUnregister, callVars, NextRequest, AcquiredBuffer,
                   PendingSubmits, NumPendingCompletions, CompletedRequests, ready,
                   event, ringVars>>

\* The engine orders the queue by priority, so any request may be the next.
PopRequest(r) ==
    /\ pc = "next" /\ AcquiredBuffer # None /\ r \in queue
    /\ queue' = queue \ {r}
    /\ NextRequest' = r
    /\ pc' = IF r \in bCancelled \cup bFailed THEN "completed" ELSE "open"
    /\ UNCHANGED <<idle, delivered, bCancelled, freeBuffers, containers, toNotify,
                   bFailed, buffer, content, wakeDispatcher, fileVars,
                   FilesToUnregister, callVars, AcquiredBuffer, PendingSubmits,
                   NumPendingCompletions, CompletedRequests, ready, event, ringVars>>

\* OpenFile of a file that is registered already.
FileIsFixed(r) ==
    /\ pc = "open" /\ r = NextRequest /\ state[FileOf[r]] = "Fixed"
    /\ pc' = "alloc"
    /\ UNCHANGED <<engineVars, bFailed, buffer, content, wakeDispatcher, fileVars,
                   FilesToUnregister, callVars, NextRequest, AcquiredBuffer,
                   PendingSubmits, NumPendingCompletions, CompletedRequests, ready,
                   event, ringVars>>

\* OpenFile when open(2) fails: the request fails without having been issued.
OpenFails(r) ==
    /\ pc = "open" /\ r = NextRequest /\ state[FileOf[r]] # "Fixed"
    /\ bFailed' = bFailed \cup {r}
    /\ pc' = "completed"
    /\ UNCHANGED <<engineVars, buffer, content, wakeDispatcher, fileVars,
                   FilesToUnregister, callVars, NextRequest, AcquiredBuffer,
                   PendingSubmits, NumPendingCompletions, CompletedRequests, ready,
                   event, ringVars>>

\* Pop of the free stack.  Mutant: its top is only looked at.
SlotsLeft_Peeked == FreeRegisteredFiles
SlotsLeft == Front(FreeRegisteredFiles)

\* OpenFile, then RegisterFile into the slot on top of the free stack.
RegisterFile(r) ==
    /\ pc = "open" /\ r = NextRequest /\ state[FileOf[r]] # "Fixed"
    /\ FreeRegisteredFiles # <<>>
    /\ FreeRegisteredFiles' = SlotsLeft
    /\ ktable' = FilesUpdate(Last(FreeRegisteredFiles), FileOf[r])
    /\ fixedFd' = [fixedFd EXCEPT ![FileOf[r]] = Last(FreeRegisteredFiles)]
    /\ state' = [state EXCEPT ![FileOf[r]] = "Fixed"]
    /\ pc' = "alloc"
    /\ UNCHANGED <<engineVars, bFailed, buffer, content, wakeDispatcher,
                   FilesToUnregister, callVars, NextRequest, AcquiredBuffer,
                   PendingSubmits, NumPendingCompletions, CompletedRequests, ready,
                   event, ringVars>>

\* checkf(!FreeRegisteredFiles.IsEmpty(), "Ran out of registered files!")
OutOfRegisteredFiles(r) ==
    /\ pc = "open" /\ r = NextRequest /\ state[FileOf[r]] # "Fixed"
    /\ FreeRegisteredFiles = <<>>
    /\ pc' = "fatal"
    /\ UNCHANGED <<engineVars, bFailed, buffer, content, wakeDispatcher, fileVars,
                   FilesToUnregister, callVars, NextRequest, AcquiredBuffer,
                   PendingSubmits, NumPendingCompletions, CompletedRequests, ready,
                   event, ringVars>>

\* The buffer is the request's now.  Mutant: the service goes on holding it.
AcquiredAfter_Kept == AcquiredBuffer
AcquiredAfter == None

\* AllocateMemory, then BlockCache->Read, which fills the buffer on a hit.
AllocateMemory(r, hit) ==
    /\ pc = "alloc" /\ r = NextRequest
    /\ buffer' = [buffer EXCEPT ![r] = AcquiredBuffer]
    /\ AcquiredBuffer' = AcquiredAfter
    /\ content' = IF hit THEN [content EXCEPT ![AcquiredBuffer] = r] ELSE content
    /\ pc' = IF hit THEN "completed" ELSE "issue"
    /\ UNCHANGED <<engineVars, bFailed, wakeDispatcher, fileVars, FilesToUnregister,
                   callVars, NextRequest, PendingSubmits, NumPendingCompletions,
                   CompletedRequests, ready, event, ringVars>>

\* OnRequestComplete: the request is added under CompletedRequestsCritical, and
\* the dispatcher thread woken after the lock is released.
OnRequestComplete(r) ==
    /\ pc = "completed" /\ r = NextRequest
    /\ CompletedRequests' = Append(CompletedRequests, r)
    /\ NextRequest' = None
    /\ pc' = "notify"
    /\ UNCHANGED <<engineVars, bFailed, buffer, content, wakeDispatcher, fileVars,
                   FilesToUnregister, callVars, AcquiredBuffer, PendingSubmits,
                   NumPendingCompletions, ready, event, ringVars>>

\* WakeUpDispatcherThreadDelegate.  Mutant: left out of OnRequestComplete.
Woken_NotByRequest == wakeDispatcher \/ pc # "notify"
Woken == TRUE

NotifyDispatcher ==
    /\ pc = "notify"
    /\ wakeDispatcher' = Woken
    /\ pc' = "next"
    /\ UNCHANGED <<engineVars, bFailed, buffer, content, fileVars, FilesToUnregister,
                   callVars, NextRequest, AcquiredBuffer, PendingSubmits,
                   NumPendingCompletions, CompletedRequests, ready, event, ringVars>>

-----------------------------------------------------------------------------
(* The service thread: issuing and submitting reads.                         *)

\* PrepareRequestNormal with a free submission entry.
IssueRequest(r) ==
    /\ pc = "issue" /\ r = NextRequest /\ Len(sq) < SqEntries
    /\ sq' = Append(sq, [req |-> r, fd |-> fixedFd[FileOf[r]], buf |-> buffer[r]])
    /\ NumPendingCompletions' = NumPendingCompletions + 1
    /\ pc' = "submit"
    /\ UNCHANGED <<engineVars, bFailed, buffer, content, wakeDispatcher, fileVars,
                   FilesToUnregister, callVars, NextRequest, AcquiredBuffer,
                   PendingSubmits, CompletedRequests, ready, event, inflight,
                   deferred, cq, overflow>>

\* GetSubmissionQueueEvent with the queue full: SubmitRequest(nullptr), and retry.
SubmissionQueueFull ==
    /\ pc = "issue" /\ Len(sq) >= SqEntries
    /\ submitFrom' = "full" /\ pc' = "enter"
    /\ UNCHANGED <<engineVars, bFailed, buffer, content, wakeDispatcher, fileVars,
                   FilesToUnregister, processFrom, NextRequest, AcquiredBuffer,
                   PendingSubmits, NumPendingCompletions, CompletedRequests, ready,
                   event, ringVars>>

\* SubmitRequest(NextRequest): the batch is submitted when it is complete.
SubmitRequest(r) ==
    /\ pc = "submit" /\ r = NextRequest
    /\ PendingSubmits' = Append(PendingSubmits, r)
    /\ NextRequest' = None
    /\ IF Len(PendingSubmits') < GBatchSubmitSize
         THEN pc' = "process" /\ processFrom' = "request" /\ UNCHANGED submitFrom
         ELSE pc' = "enter" /\ submitFrom' = "request" /\ UNCHANGED processFrom
    /\ UNCHANGED <<engineVars, bFailed, buffer, content, wakeDispatcher, fileVars,
                   FilesToUnregister, AcquiredBuffer, NumPendingCompletions,
                   CompletedRequests, ready, event, ringVars>>

\* After the request loop: SubmitRequest(nullptr) for an incomplete batch.
\* Mutant: only a batch that is complete is ever submitted.
MustFlush_FullBatch == Len(PendingSubmits) >= GBatchSubmitSize
MustFlush == PendingSubmits # <<>>

FlushBatch ==
    /\ pc = "flush"
    /\ IF MustFlush
         THEN pc' = "enter" /\ submitFrom' = "flush"
         ELSE pc' = "waitcqe" /\ UNCHANGED submitFrom
    /\ UNCHANGED <<engineVars, bFailed, buffer, content, wakeDispatcher, fileVars,
                   FilesToUnregister, processFrom, NextRequest, AcquiredBuffer,
                   PendingSubmits, NumPendingCompletions, CompletedRequests, ready,
                   event, ringVars>>

\* io_uring_enter with IORING_ENTER_GETEVENTS: task work runs and the overflow
\* list is flushed, as far as the completion queue has room.
PostEvents(events) ==
    LET room == CqEntries - Len(cq)
        n == IF Len(events) < room THEN Len(events) ELSE room
    IN  /\ cq' = cq \o SubSeq(events, 1, n)
        /\ overflow' = SubSeq(events, n + 1, Len(events))
        /\ deferred' = <<>>
GetEvents == PostEvents(overflow \o deferred)

Resolve(sqe) == [req |-> sqe.req, file |-> ktable[sqe.fd], buf |-> sqe.buf]

Consumed == IF SubmitCanFail THEN 0 .. Len(sq) ELSE {Len(sq)}

\* PendingSubmits.Reset().  Mutant: not in the call that only makes room.
BatchLeft_WhenFull == IF submitFrom = "full" THEN PendingSubmits ELSE <<>>
BatchLeft == <<>>

\* io_uring_submit: every entry is offered, the kernel consumes n of them.  With
\* SubmitAll the result is not looked at.  The overflow flag makes the same call
\* ask for events, which the kernel skips after a short submission.
Submit(n) ==
    /\ pc = "enter"
    /\ sq' = SubSeq(sq, n + 1, Len(sq))
    /\ inflight' = inflight \o [i \in 1 .. n |-> Resolve(sq[i])]
    /\ IF overflow # <<>> /\ n = Len(sq)
         THEN GetEvents
         ELSE UNCHANGED <<deferred, cq, overflow>>
    /\ PendingSubmits' = BatchLeft
    /\ IF submitFrom = "full"
         THEN pc' = "issue" /\ UNCHANGED processFrom
         ELSE pc' = "process" /\ processFrom' = submitFrom
    /\ UNCHANGED <<engineVars, bFailed, buffer, content, wakeDispatcher, fileVars,
                   FilesToUnregister, submitFrom, NextRequest, AcquiredBuffer,
                   NumPendingCompletions, CompletedRequests, ready, event>>

-----------------------------------------------------------------------------
(* The service thread: reaping completions.                                  *)

AfterProcess == CASE processFrom = "request" -> "next"
                  [] processFrom = "flush"   -> "waitcqe"
                  [] processFrom = "wait"    -> "loop"

\* ProcessCompletedRequests finds nothing without entering the kernel.
NothingReady ==
    /\ pc = "process"
    /\ NumPendingCompletions > 0 => cq = <<>> /\ overflow = <<>>
    /\ pc' = AfterProcess
    /\ UNCHANGED <<engineVars, bFailed, buffer, content, wakeDispatcher, fileVars,
                   FilesToUnregister, callVars, NextRequest, AcquiredBuffer,
                   PendingSubmits, NumPendingCompletions, CompletedRequests, ready,
                   event, ringVars>>

\* io_uring_peek_batch_cqe on an empty queue with IORING_SQ_CQ_OVERFLOW raised.
FlushOverflow ==
    /\ pc = "process" /\ NumPendingCompletions > 0
    /\ cq = <<>> /\ overflow # <<>>
    /\ GetEvents
    /\ UNCHANGED <<engineVars, bFailed, buffer, content, wakeDispatcher, fileVars,
                   FilesToUnregister, pc, callVars, NextRequest, AcquiredBuffer,
                   PendingSubmits, NumPendingCompletions, CompletedRequests, ready,
                   event, sq, inflight>>

\* Requests whose read came back short or with an error.  Mutant: res is not read.
FailedIn_Ignored(cqes) == {}
FailedIn(cqes) == {c.req : c \in {e \in ToSet(cqes) : ~e.ok}}

\* ProcessCompletionEvent for each of a run of completions, under the lock.
ProcessCompletionEvents(cqes) ==
    /\ NumPendingCompletions' = NumPendingCompletions - Len(cqes)
    /\ bFailed' = bFailed \cup FailedIn(cqes)
    /\ CompletedRequests' = CompletedRequests \o [i \in 1 .. Len(cqes) |-> cqes[i].req]

\* Every completion in the queue is processed; the queue is not advanced yet.
ReapBatch ==
    /\ pc = "process" /\ NumPendingCompletions > 0 /\ cq # <<>>
    /\ ProcessCompletionEvents(cq)
    /\ ready' = Len(cq)
    /\ pc' = "reaped"
    /\ UNCHANGED <<engineVars, buffer, content, wakeDispatcher, fileVars,
                   FilesToUnregister, callVars, NextRequest, AcquiredBuffer,
                   PendingSubmits, event, ringVars>>

\* io_uring_cq_advance.
Advanced == SubSeq(cq, ready + 1, Len(cq))

\* The dispatcher thread is woken, then io_uring_cq_advance frees the entries.
NotifyAndAdvance ==
    /\ pc = "reaped"
    /\ wakeDispatcher' = Woken
    /\ cq' = Advanced
    /\ ready' = 0
    /\ pc' = AfterProcess
    /\ UNCHANGED <<engineVars, bFailed, buffer, content, fileVars, FilesToUnregister,
                   callVars, NextRequest, AcquiredBuffer, PendingSubmits,
                   NumPendingCompletions, CompletedRequests, event, sq, inflight,
                   deferred, overflow>>

\* Mutant: the service returns once everything is submitted.
StillPending_Unsubmitted == PendingSubmits # <<>>
StillPending == NumPendingCompletions > 0

\* WaitAndProcessCompletionRequests with nothing outstanding: StartRequests ends.
NothingToWaitFor ==
    /\ pc = "waitcqe" /\ ~StillPending
    /\ pc' = "wait"
    /\ UNCHANGED <<engineVars, bFailed, buffer, content, wakeDispatcher, fileVars,
                   FilesToUnregister, callVars, NextRequest, AcquiredBuffer,
                   PendingSubmits, NumPendingCompletions, CompletedRequests, ready,
                   event, ringVars>>

\* io_uring_wait_cqe enters the kernel, for events only, while the queue is empty.
WaitEnter ==
    /\ pc = "waitcqe" /\ StillPending
    /\ cq = <<>> /\ overflow \o deferred # <<>>
    /\ GetEvents
    /\ UNCHANGED <<engineVars, bFailed, buffer, content, wakeDispatcher, fileVars,
                   FilesToUnregister, pc, callVars, NextRequest, AcquiredBuffer,
                   PendingSubmits, NumPendingCompletions, CompletedRequests, ready,
                   event, sq, inflight>>

\* io_uring_cqe_seen.  Mutant: left out.
Seen_Not == cq
Seen == Tail(cq)

\* One completion is processed and marked seen in one critical section.
WaitCqe ==
    /\ pc = "waitcqe" /\ StillPending /\ cq # <<>>
    /\ ProcessCompletionEvents(<<Head(cq)>>)
    /\ cq' = Seen
    /\ pc' = "waited"
    /\ UNCHANGED <<engineVars, buffer, content, wakeDispatcher, fileVars,
                   FilesToUnregister, callVars, NextRequest, AcquiredBuffer,
                   PendingSubmits, ready, event, sq, inflight, deferred, overflow>>

\* The dispatcher thread is woken, then ProcessCompletedRequests takes the rest.
NotifyAndProcess ==
    /\ pc = "waited"
    /\ wakeDispatcher' = Woken
    /\ processFrom' = "wait" /\ pc' = "process"
    /\ UNCHANGED <<engineVars, bFailed, buffer, content, fileVars, FilesToUnregister,
                   submitFrom, NextRequest, AcquiredBuffer, PendingSubmits,
                   NumPendingCompletions, CompletedRequests, ready, event, ringVars>>

\* do ... while (NumPendingCompletions > 0)
LoopOrReturn ==
    /\ pc = "loop"
    /\ pc' = IF StillPending THEN "next" ELSE "wait"
    /\ UNCHANGED <<engineVars, bFailed, buffer, content, wakeDispatcher, fileVars,
                   FilesToUnregister, callVars, NextRequest, AcquiredBuffer,
                   PendingSubmits, NumPendingCompletions, CompletedRequests, ready,
                   event, ringVars>>

\* ServiceWait on the auto-reset event, then StartRequests again.
ServiceWait ==
    /\ pc = "wait" /\ event
    /\ event' = FALSE /\ pc' = "start"
    /\ UNCHANGED <<engineVars, bFailed, buffer, content, wakeDispatcher, fileVars,
                   FilesToUnregister, callVars, NextRequest, AcquiredBuffer,
                   PendingSubmits, NumPendingCompletions, CompletedRequests, ready,
                   ringVars>>

-----------------------------------------------------------------------------
(* The kernel completes reads in any order.  A read of the wrong file leaves *)
(* bytes in the buffer that are nobody's data, and so does a failed one.     *)

Complete(i, ok) ==
    /\ i \in DOMAIN inflight
    /\ ok => inflight[i].file # None
    /\ inflight' = RemoveAt(inflight, i)
    /\ content' = [content EXCEPT ![inflight[i].buf] =
                     IF ok /\ inflight[i].file = FileOf[inflight[i].req]
                     THEN inflight[i].req ELSE None]
    /\ LET cqe == [req |-> inflight[i].req, ok |-> ok]
       IN  IF DeferTaskrun
             THEN deferred' = Append(deferred, cqe) /\ UNCHANGED <<cq, overflow>>
           ELSE IF overflow = <<>> /\ Len(cq) < CqEntries
             THEN cq' = Append(cq, cqe) /\ UNCHANGED <<deferred, overflow>>
             ELSE overflow' = Append(overflow, cqe) /\ UNCHANGED <<deferred, cq>>
    /\ UNCHANGED <<engineVars, bFailed, buffer, wakeDispatcher, fileVars,
                   FilesToUnregister, pc, callVars, NextRequest, AcquiredBuffer,
                   PendingSubmits, NumPendingCompletions, CompletedRequests, ready,
                   event, sq>>

-----------------------------------------------------------------------------
Engine ==
    \/ \E f \in Files : OpenContainer(f) \/ CloseContainer(f)
    \/ \E t \in toNotify : ServiceNotify(t)
    \/ \E r \in Requests : PushRequest(r) \/ CancelRequest(r) \/ ReleaseRequest(r)
    \/ GetCompletedRequests

Service ==
    \/ StartRequests \/ EnterRequestLoop
    \/ \E f \in Files : UnregisterFile(f)
    \/ \E b \in Buffers : AcquireBuffer(b)
    \/ NoNextRequest
    \/ \E r \in Requests : \/ PopRequest(r) \/ FileIsFixed(r) \/ OpenFails(r)
                           \/ RegisterFile(r) \/ OutOfRegisteredFiles(r)
                           \/ \E hit \in BOOLEAN : AllocateMemory(r, hit)
                           \/ OnRequestComplete(r)
                           \/ IssueRequest(r) \/ SubmitRequest(r)
    \/ NotifyDispatcher \/ SubmissionQueueFull \/ FlushBatch
    \/ \E n \in Consumed : Submit(n)
    \/ NothingReady \/ FlushOverflow \/ ReapBatch \/ NotifyAndAdvance
    \/ NothingToWaitFor \/ WaitEnter \/ WaitCqe \/ NotifyAndProcess
    \/ LoopOrReturn \/ ServiceWait

Kernel == \E i \in DOMAIN inflight, ok \in BOOLEAN : Complete(i, ok)

Next == Engine \/ Service \/ Kernel

Spec == Init /\ [][Next]_vars

\* The service thread keeps running, the kernel completes every read, and the
\* engine reacts to wake-ups, finishes its notifications and releases its reads.
Fairness ==
    /\ WF_vars(Service)
    /\ \A r \in Requests :
         WF_vars(\E i \in DOMAIN inflight, ok \in BOOLEAN :
                    inflight[i].req = r /\ Complete(i, ok))
    /\ \A t \in {"io", "mount"} : WF_vars(ServiceNotify(t))
    /\ WF_vars(GetCompletedRequests)
    /\ \A r \in Requests : WF_vars(ReleaseRequest(r))

FairSpec == Spec /\ Fairness

-----------------------------------------------------------------------------
(* Safety                                                                    *)

Outstanding ==
    Len(sq) + Len(inflight) + Len(deferred) + Len(overflow) + (Len(cq) - ready)

\* NumPendingCompletions counts exactly the reads between IssueRequest and
\* ProcessCompletionEvent, wherever they are in the ring or the kernel.
PendingAccounting == NumPendingCompletions = Outstanding

\* StartRequests returns, and files are unregistered, only when no read is
\* anywhere in the ring or the kernel and no batch is half built.
DrainedWhenServiceReturns ==
    pc \in {"wait", "start", "unregister"} =>
        /\ sq = <<>> /\ inflight = <<>> /\ deferred = <<>> /\ cq = <<>> /\ overflow = <<>>
        /\ PendingSubmits = <<>> /\ NextRequest = None

\* The handles, the kernel's table and the free stack agree: a Fixed file owns
\* its slot, every slot is either free once or owned, none is lost.
FileTableConsistent ==
    /\ \A f \in Files : state[f] = "Fixed" =>
          fixedFd[f] \in Slots /\ ktable[fixedFd[f]] = f
    /\ \A s \in Slots : ktable[s] # None =>
          state[ktable[s]] = "Fixed" /\ fixedFd[ktable[s]] = s
    /\ \A s \in Slots : (ktable[s] = None) <=> s \in ToSet(FreeRegisteredFiles)
    /\ \A i, j \in DOMAIN FreeRegisteredFiles :
          FreeRegisteredFiles[i] = FreeRegisteredFiles[j] => i = j

\* Every entry names the slot of its own request's file, and the kernel reads
\* that file: no slot is reused under an outstanding read.
ReadsOwnFile ==
    /\ \A i \in DOMAIN sq : ktable[sq[i].fd] = FileOf[sq[i].req]
    /\ \A i \in DOMAIN inflight : inflight[i].file = FileOf[inflight[i].req]

\* Every buffer is free, held by the service, or some one request's; and the
\* kernel writes only into the buffer of the request it reads for.
BuffersExclusive ==
    /\ \A b \in Buffers :
         LET users == {r \in Requests : buffer[r] = b}
         IN  \/ b \in freeBuffers /\ b # AcquiredBuffer /\ users = {}
             \/ b \notin freeBuffers /\ b = AcquiredBuffer /\ users = {}
             \/ b \notin freeBuffers /\ b # AcquiredBuffer /\ Cardinality(users) = 1
    /\ \A i \in DOMAIN sq : sq[i].buf = buffer[sq[i].req]
    /\ \A i \in DOMAIN inflight : inflight[i].buf = buffer[inflight[i].req]

Bit(b) == IF b THEN 1 ELSE 0
Times(r, s) == Cardinality({i \in DOMAIN s : s[i].req = r})
Unreaped == SubSeq(cq, ready + 1, Len(cq))

\* A request is in exactly one place: never lost, issued twice or completed twice.
OnePlace ==
    \A r \in Requests :
        Bit(r \in idle) + Bit(r \in queue) + Bit(r \in delivered)
          + Bit(r = NextRequest /\ pc # "submit")
          + Times(r, sq) + Times(r, inflight) + Times(r, deferred) + Times(r, overflow)
          + Times(r, Unreaped)
          + Cardinality({i \in DOMAIN CompletedRequests : CompletedRequests[i] = r}) = 1

\* The service does not sleep on work: asleep with no notification under way,
\* there is no file to unregister, and no request it has a buffer for.
NoStrandedWork ==
    pc = "wait" /\ ~event /\ toNotify = {} =>
        /\ FilesToUnregister = <<>>
        /\ queue = {} \/ (AcquiredBuffer = None /\ freeBuffers = {})

\* The dispatcher thread is never left unaware of a completed request.
NoStrandedCompletion ==
    CompletedRequests # <<>> /\ ~wakeDispatcher => pc \in {"notify", "reaped", "waited"}

\* SubmitRequest's Expected: the pending batch is what the queue holds, so the
\* kernel's count is comparable with PendingSubmits.Num().
BatchIsQueue ==
    [i \in DOMAIN sq |-> sq[i].req] =
        IF pc = "submit" THEN Append(PendingSubmits, NextRequest) ELSE PendingSubmits

\* The registered-file table changes only in slots that no queued entry names
\* and whose file the kernel is not reading.
SlotsStableUnderReads ==
    [][\A s \in Slots : ktable'[s] # ktable[s] =>
          /\ \A i \in DOMAIN sq : sq[i].fd # s
          /\ \A i \in DOMAIN inflight : inflight[i].file # ktable[s] \/ ktable[s] = None]_vars

-----------------------------------------------------------------------------
(* Refinement: the dispatcher implements PlatformIoStore.                    *)

statusBar ==
    [r \in Requests |->
        IF r \in idle THEN "idle" ELSE IF r \in queue THEN "queued"
        ELSE IF r \in delivered THEN "delivered"
        ELSE IF r \in ToSet(CompletedRequests) THEN "completed" ELSE "accepted"]

\* What a request really came to, judged by the bytes in its buffer.
outcomeBar ==
    [r \in Requests |->
        IF statusBar[r] \notin {"completed", "delivered"} THEN "none"
        ELSE IF r \in bFailed THEN "failed"
        ELSE IF buffer[r] # None /\ content[buffer[r]] = r THEN "data"
        ELSE IF buffer[r] = None /\ r \in bCancelled THEN "cancelled" ELSE "garbage"]

mountBar ==
    [f \in Files |-> IF f \in containers THEN "open"
                     ELSE IF state[f] = "Deleted" THEN "absent" ELSE "closing"]

Store == INSTANCE PlatformIoStore
           WITH status <- statusBar, outcome <- outcomeBar,
                cancelled <- bCancelled, mount <- mountBar

\* Every step of the dispatcher is a step the engine's interface allows.
ImplementsStore == Store!Spec

-----------------------------------------------------------------------------
(* What the sources say and the program does not do.                         *)

\* MaxFixedFiles is the "Maximum number of fixed Files": an engine that keeps no
\* more containers open than that does not run out of slots.
MaxFixedFilesSuffices == MaxOpenContainers <= MaxFixedFiles => pc # "fatal"

-----------------------------------------------------------------------------
(* Liveness                                                                  *)

\* The request loop does not go on forever answering requests that never reach
\* the ring (cancelled, unopenable or cached ones keep it from its end).
RequestLoopEnds == []<>(pc = "next") => []<>(pc = "flush")

\* An accepted request is delivered, provided the request loop ends.
AcceptedIsDelivered ==
    RequestLoopEnds => \A r \in Requests : (r = NextRequest) ~> (r \in delivered)

\* Once the engine stops pushing, every read it pushed comes back to it.
QuiescesWithoutPushes ==
    []<><<\E r \in Requests : PushRequest(r)>>_vars \/ <>[](idle = Requests)

\* A closed container is unregistered, provided the service is not kept in
\* StartRequests by reads without a gap.
ClosedIsUnregistered ==
    ([]<>(pc = "next") => []<>(pc = "wait")) =>
        \A f \in Files : (f \in ToSet(FilesToUnregister)) ~> (state[f] = "Deleted")

=============================================================================
