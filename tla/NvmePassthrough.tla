--------------------------- MODULE NvmePassthrough ---------------------------
(***************************************************************************)
(* FLinuxPlatformIoDispatcher with NVMe passthrough: the device of a       *)
(* container, not its file, is in the registered-file table, and a read is *)
(* split into one NVMe command per extent it crosses.  A command moves     *)
(* whole blocks, so the data asked for begins FixupOffset bytes into the   *)
(* buffer and Buffer->Memory is moved there until the buffer's next read.  *)
(*                                                                         *)
(* The request loop is that of LinuxIoDispatcher in larger steps; here it  *)
(* is what a read does to devices, trackers and buffer memory.  Every      *)
(* device has one BlockSize, SUBMIT_ALL is granted, no completion queue    *)
(* overflows, and no read is cancelled.                                    *)
(***************************************************************************)
EXTENDS NvmeExtents, SequencesExt

CONSTANTS
    Requests, Buffers, Files, Devices,
    DeviceOf,           \* the device of each container file
    FileExtents,        \* its layout, as the file system knows it
    Reads,              \* reads the engine asks for: [file, Offset, Size]
    Trackers,           \* FNvmeRequest objects
    BufferSize,         \* the engine's, before alignment
    MaxFixedFiles, GBatchSubmitSize, SqEntries,
    IOPoll,             \* completions are posted only when the kernel is entered
    None

Slots == 0 .. MaxFixedFiles - 1
\* The memory of a buffer.  Mutant: no room for a read that is not on blocks.
ActualBufferSize_NoSlack == Align(BufferSize, BlockSize)
ActualBufferSize == Align(BufferSize + 2 * BlockSize, BlockSize)
Positions == 0 .. ActualBufferSize - 1

ASSUME NvmeConstants ==
    /\ DeviceOf \in [Files -> Devices] /\ IsFiniteSet(Devices)
    /\ MaxFixedFiles \in Nat /\ GBatchSubmitSize \in Nat \ {0}
    /\ SqEntries \in Nat \ {0} /\ IOPoll \in BOOLEAN /\ BufferSize \in Nat
    /\ None \notin Requests \cup Buffers \cup Files \cup Devices \cup Trackers \cup Reads
ASSUME ReadsFit ==
    \A rd \in Reads : rd.file \in Files /\ rd.Offset \in Nat /\ rd.Size \in 1 .. BufferSize
ASSUME FileLayouts == \A f \in Files : Layout(FileExtents[f])
\* Each read has one tracker, and `new` makes them as they are needed.
ASSUME TrackersSuffice ==
    /\ IsFiniteSet(Requests)
    /\ IsFiniteSet(Trackers) => Cardinality(Requests) <= Cardinality(Trackers)

VARIABLES
    status, read,           \* each request: how far it is, and what it reads
    bFailed, buffer,
    partFailed,             \* reads some command of which failed
    containers, FilesToUnregister,
    FixedFd, RegisteredContainers,  \* per registered device; -1 and {} otherwise
    FreeRegisteredFiles, ktable,
    moved, FixupOffset,     \* per buffer: Memory minus the start of its block
    content,                \* the device byte at each position of its block
    NvmeRequestPool, tracker,
    pc, from, NextRequest, AcquiredBuffer,
    split,                  \* the locals of the loop over extents
    numPendingSubmits, NumPendingCompletions,
    sq, inflight, finished, cq

requestVars == <<status, read, bFailed, buffer, partFailed>>
fileVars == <<containers, FilesToUnregister>>
deviceVars == <<FixedFd, RegisteredContainers, FreeRegisteredFiles, ktable>>
memoryVars == <<moved, FixupOffset, content>>
trackerVars == <<NvmeRequestPool, tracker>>
loopVars == <<pc, from, NextRequest, AcquiredBuffer, split>>
countVars == <<numPendingSubmits, NumPendingCompletions>>
ringVars == <<sq, inflight, finished, cq>>
vars == <<requestVars, fileVars, deviceVars, memoryVars, trackerVars, loopVars,
          countVars, ringVars>>

Unused == [req |-> None, RemainingRequests |-> 0]
Blank == [k \in Positions |-> <<>>]
NoSplit == [trk |-> None, start |-> 0, extent |-> 0, ptr |-> 0, remaining |-> 0]
Extents(f) == WalkExtents(FileExtents[f])

Init ==
    /\ status = [r \in Requests |-> "idle"] /\ read = [r \in Requests |-> None]
    /\ bFailed = {} /\ partFailed = {} /\ buffer = [r \in Requests |-> None]
    /\ containers = {} /\ FilesToUnregister = <<>>
    /\ FixedFd = [d \in Devices |-> -1] /\ RegisteredContainers = [d \in Devices |-> {}]
    /\ FreeRegisteredFiles = [i \in 1 .. MaxFixedFiles |-> MaxFixedFiles - i]
    /\ ktable = [s \in Slots |-> None]
    /\ moved = [b \in Buffers |-> 0] /\ FixupOffset = [b \in Buffers |-> 0]
    /\ content = [b \in Buffers |-> Blank]
    /\ NvmeRequestPool = <<>>
    /\ tracker = [t \in Trackers |-> Unused]
    /\ pc = "start" /\ from = "request"
    /\ NextRequest = None /\ AcquiredBuffer = None /\ split = NoSplit
    /\ numPendingSubmits = 0 /\ NumPendingCompletions = 0
    /\ sq = <<>> /\ inflight = {} /\ finished = <<>> /\ cq = <<>>

-----------------------------------------------------------------------------
(* The engine.                                                               *)

OpenContainer(f) ==
    /\ f \notin containers /\ ~Contains(FilesToUnregister, f)
    /\ containers' = containers \cup {f}
    /\ UNCHANGED <<requestVars, FilesToUnregister, deviceVars, memoryVars, trackerVars,
                   loopVars, countVars, ringVars>>

\* A container is closed with none of its reads at the service, and not while
\* StartRequests holds UnregisterCritical.
CloseContainer(f) ==
    /\ f \in containers /\ pc # "start"
    /\ \A r \in Requests : status[r] \in {"queued", "accepted"} => read[r].file # f
    /\ containers' = containers \ {f}
    /\ FilesToUnregister' = Append(FilesToUnregister, f)
    /\ UNCHANGED <<requestVars, deviceVars, memoryVars, trackerVars, loopVars,
                   countVars, ringVars>>

PushRequest(r, rd) ==
    /\ status[r] = "idle" /\ rd.file \in containers
    /\ status' = [status EXCEPT ![r] = "queued"]
    /\ read' = [read EXCEPT ![r] = rd]
    /\ UNCHANGED <<bFailed, buffer, partFailed, fileVars, deviceVars, memoryVars,
                   trackerVars, loopVars, countVars, ringVars>>

\* GetCompletedRequests, and the buffer goes back to the pool.  What it still
\* holds is nobody's data, so that no later read passes for good by it.
ReleaseRequest(r) ==
    /\ status[r] = "completed"
    /\ status' = [status EXCEPT ![r] = "idle"]
    /\ read' = [read EXCEPT ![r] = None]
    /\ bFailed' = bFailed \ {r} /\ partFailed' = partFailed \ {r}
    /\ buffer' = [buffer EXCEPT ![r] = None]
    /\ content' = [b \in Buffers |-> IF b = buffer[r] THEN Blank ELSE content[b]]
    /\ UNCHANGED <<fileVars, deviceVars, moved, FixupOffset, trackerVars, loopVars,
                   countVars, ringVars>>

-----------------------------------------------------------------------------
(* The service thread: containers and their devices.                         *)

ContainersLeft(f) == RegisteredContainers[DeviceOf[f]] \ {f}

\* Mutant: the slot of a device that goes away is not given back.
SlotsAfter_Leaked(d) == FreeRegisteredFiles
SlotsAfter(d) == Append(FreeRegisteredFiles, FixedFd[d])

\* UnregisterFile and UnregisterNvmeFile: the last container takes the device
\* and its slot with it.
UnregisterNvmeFile(f) ==
    /\ pc = "start" /\ FilesToUnregister # <<>> /\ f = Head(FilesToUnregister)
    /\ FilesToUnregister' = Tail(FilesToUnregister)
    /\ LET d == DeviceOf[f] IN
       /\ RegisteredContainers' = [RegisteredContainers EXCEPT ![d] = ContainersLeft(f)]
       /\ IF FixedFd[d] # -1 /\ ContainersLeft(f) = {}
            THEN /\ ktable' = [ktable EXCEPT ![FixedFd[d]] = None]
                 /\ FreeRegisteredFiles' = SlotsAfter(d)
                 /\ FixedFd' = [FixedFd EXCEPT ![d] = -1]
            ELSE UNCHANGED <<ktable, FreeRegisteredFiles, FixedFd>>
    /\ UNCHANGED <<requestVars, containers, memoryVars, trackerVars, loopVars,
                   countVars, ringVars>>

EnterRequestLoop ==
    /\ pc = "start" /\ FilesToUnregister = <<>>
    /\ pc' = "next"
    /\ UNCHANGED <<requestVars, fileVars, deviceVars, memoryVars, trackerVars, from,
                   NextRequest, AcquiredBuffer, split, countVars, ringVars>>

FreeBuffers == Buffers \ ({buffer[r] : r \in Requests} \cup {AcquiredBuffer})

\* GetNextRequest allocates a buffer and keeps it while no request comes.
GetNextRequest(r, b) ==
    /\ pc = "next" /\ status[r] = "queued"
    /\ IF AcquiredBuffer = None THEN b \in FreeBuffers ELSE b = AcquiredBuffer
    /\ AcquiredBuffer' = b
    /\ status' = [status EXCEPT ![r] = "accepted"]
    /\ NextRequest' = r
    /\ pc' = "open"
    /\ UNCHANGED <<read, bFailed, buffer, partFailed, fileVars, deviceVars, memoryVars,
                   trackerVars, from, split, countVars, ringVars>>

OnRequestComplete(r) ==
    status' = [status EXCEPT ![r] = "completed"] /\ NextRequest' = None

\* RegisterNvmeFile.  `ok`: the device could be examined and opened, if it is
\* new, and so could the file and its extents, if the container is.  A new
\* device for which there is no slot ends the process.
RegisterNvmeFile(r, ok) ==
    LET f == read[r].file
        d == DeviceOf[f]
        known == f \in RegisteredContainers[d]
        new == FixedFd[d] = -1
        full == new /\ FreeRegisteredFiles = <<>>
    IN  /\ pc = "open" /\ r = NextRequest /\ (known => ok)
        /\ RegisteredContainers' =
             IF ok /\ ~full THEN [RegisteredContainers EXCEPT ![d] = @ \cup {f}]
                            ELSE RegisteredContainers
        /\ IF ok THEN UNCHANGED <<status, bFailed, NextRequest>>
                 ELSE OnRequestComplete(r) /\ bFailed' = bFailed \cup {r}
        /\ IF ok /\ new /\ ~full
             THEN /\ FixedFd' = [FixedFd EXCEPT ![d] = Last(FreeRegisteredFiles)]
                  /\ ktable' = [ktable EXCEPT ![Last(FreeRegisteredFiles)] = d]
                  /\ FreeRegisteredFiles' = Front(FreeRegisteredFiles)
             ELSE UNCHANGED <<FixedFd, ktable, FreeRegisteredFiles>>
        /\ pc' = IF ~ok THEN "next" ELSE IF full THEN "fatal" ELSE "alloc"
        /\ UNCHANGED <<read, buffer, partFailed, fileVars, memoryVars, trackerVars,
                       from, AcquiredBuffer, split, countVars, ringVars>>

FileByte(f, i) == <<DeviceOf[f], DeviceByte(FileExtents[f], i)>>

\* `c` with the bytes, numbered from 0, put at position `at`.
Written(c, at, bytes) ==
    [k \in Positions |-> IF k - at \in DOMAIN bytes THEN bytes[k - at] ELSE c[k]]

\* AllocateMemory, then BlockCache->Read.
AllocateMemory(r, hit) ==
    /\ pc = "alloc" /\ r = NextRequest
    /\ buffer' = [buffer EXCEPT ![r] = AcquiredBuffer]
    /\ AcquiredBuffer' = None
    /\ content' = IF hit
         THEN [content EXCEPT ![AcquiredBuffer] =
                 Written(@, moved[AcquiredBuffer],
                         [i \in 0 .. read[r].Size - 1 |->
                            FileByte(read[r].file, read[r].Offset + i)])]
         ELSE content
    /\ IF hit THEN OnRequestComplete(r) /\ pc' = "next"
              ELSE pc' = "issue" /\ UNCHANGED <<status, NextRequest>>
    /\ UNCHANGED <<read, bFailed, partFailed, fileVars, deviceVars, moved, FixupOffset,
                   trackerVars, from, split, countVars, ringVars>>

-----------------------------------------------------------------------------
(* The service thread: PrepareRequestNvme.                                   *)

\* Memory taken back to the start of its block.
Rewound(b) == moved[b] - FixupOffset[b]

InUse == {p.trk : p \in inflight} \cup {s.trk : s \in ToSet(sq) \cup ToSet(cq \o finished)}

\* The tracker on top of the pool, or a new one.
Tracker == IF NvmeRequestPool # <<>> THEN Last(NvmeRequestPool)
                                     ELSE CHOOSE t \in Trackers : t \notin InUse
\* Mutant: the tracker is used without leaving the pool.
PoolLeft_Same == NvmeRequestPool
PoolLeft == IF NvmeRequestPool = <<>> THEN <<>> ELSE Front(NvmeRequestPool)

\* Up to the loop over extents.  If no extent holds the start, the read is
\* completed as failed and yet counted into the batch, its tracker is lost, and
\* FixupOffset is set although Memory did not move.
PrepareRequestNvme(r) ==
    LET b == buffer[r]
        rd == read[r]
        start == FindStartExtent(Extents(rd.file), AlignedOffset(rd))
        missing == StartMissing(Extents(rd.file), AlignedOffset(rd))
    IN  /\ pc = "issue" /\ r = NextRequest
        /\ moved' = [moved EXCEPT ![b] = Rewound(b)]
        /\ FixupOffset' = [FixupOffset EXCEPT ![b] = FixupOf(rd)]
        /\ NvmeRequestPool' = PoolLeft
        /\ IF missing
             THEN /\ status' = [status EXCEPT ![r] = "completed"]
                  /\ bFailed' = bFailed \cup {r}
                  /\ pc' = "submit"
                  /\ UNCHANGED <<tracker, split>>
             ELSE /\ tracker' = [tracker EXCEPT ![Tracker] =
                                   [req |-> r, RemainingRequests |-> 0]]
                  /\ split' = [trk |-> Tracker, start |-> start, extent |-> start,
                               ptr |-> Rewound(b),
                               remaining |-> AlignedSize(rd) \div BlockSize]
                  /\ pc' = "split"
                  /\ UNCHANGED <<status, bFailed>>
        /\ UNCHANGED <<read, buffer, partFailed, fileVars, deviceVars, content, from,
                       NextRequest, AcquiredBuffer, countVars, ringVars>>

\* One turn of the loop over extents, with a free submission entry.  The check()
\* on an extent after the first, and the one behind the loop, end the process.
PreparePart(r) ==
    LET rd == read[r]
        e == Extents(rd.file)[split.extent]
        first == split.extent = split.start
        num == NumLbs(e, IF first THEN AlignedOffset(rd) ELSE -1, split.remaining)
        sane == first \/ (/\ AlignedOffset(rd) < e.LogicalOffset
                          /\ AlignedOffset(rd) + AlignedSize(rd) > e.LogicalOffset)
        done == num = split.remaining
    IN  /\ pc = "split" /\ r = NextRequest /\ Len(sq) < SqEntries
        /\ sq' = Append(sq, [trk |-> split.trk, fd |-> FixedFd[DeviceOf[rd.file]],
                             buf |-> buffer[r], addr |-> split.ptr, num |-> num,
                             lb |-> StartLb(e, IF first THEN AlignedOffset(rd) ELSE -1)])
        /\ NumPendingCompletions' = NumPendingCompletions + 1
        /\ tracker' = [tracker EXCEPT ![split.trk].RemainingRequests = @ + 1]
        /\ split' = IF done THEN NoSplit ELSE
             [split EXCEPT !.extent = @ + 1, !.remaining = @ - num,
                           !.ptr = @ + BlockSize * num]
        /\ pc' = CASE ~sane \/ (~done /\ split.extent = Len(Extents(rd.file))) -> "fatal"
                   [] sane /\ done -> "submit"
                   [] OTHER -> "split"
        /\ UNCHANGED <<requestVars, fileVars, deviceVars, memoryVars, NvmeRequestPool,
                       from, NextRequest, AcquiredBuffer, numPendingSubmits, inflight,
                       finished, cq>>

-----------------------------------------------------------------------------
(* The service thread: submitting and reaping.                               *)

\* io_uring_submit: the kernel looks up the device and takes every command.
Submit ==
    /\ inflight' = inflight \cup {[trk |-> s.trk, dev |-> ktable[s.fd], buf |-> s.buf,
                                   addr |-> s.addr, num |-> s.num, lb |-> s.lb] :
                                  s \in ToSet(sq)}
    /\ sq' = <<>> /\ numPendingSubmits' = 0

\* GetSubmissionQueueEvent with the queue full, in the middle of a split read.
SubmissionQueueFull ==
    /\ pc = "split" /\ Len(sq) >= SqEntries
    /\ Submit
    /\ UNCHANGED <<requestVars, fileVars, deviceVars, memoryVars, trackerVars, loopVars,
                   NumPendingCompletions, finished, cq>>

\* SubmitRequest counts requests, not the commands they were split into.
SubmitRequest(r) ==
    /\ pc = "submit" /\ r = NextRequest
    /\ NextRequest' = None
    /\ IF numPendingSubmits + 1 < GBatchSubmitSize
         THEN numPendingSubmits' = numPendingSubmits + 1 /\ UNCHANGED <<sq, inflight>>
         ELSE Submit
    /\ pc' = "process" /\ from' = "request"
    /\ UNCHANGED <<requestVars, fileVars, deviceVars, memoryVars, trackerVars,
                   AcquiredBuffer, split, NumPendingCompletions, finished, cq>>

\* No buffer or no request: what is left of the batch is submitted.
NoNextRequest(b) ==
    /\ pc = "next"
    /\ \/ AcquiredBuffer = None /\ FreeBuffers = {} /\ b = None
       \/ /\ \A r \in Requests : status[r] # "queued"
          /\ IF AcquiredBuffer = None THEN b \in FreeBuffers ELSE b = AcquiredBuffer
    /\ AcquiredBuffer' = b
    /\ IF numPendingSubmits > 0
         THEN Submit /\ pc' = "process" /\ from' = "flush"
         ELSE pc' = "waitcqe" /\ UNCHANGED <<from, sq, inflight, numPendingSubmits>>
    /\ UNCHANGED <<requestVars, fileVars, deviceVars, memoryVars, trackerVars,
                   NextRequest, split, NumPendingCompletions, finished, cq>>

EventsOf(t, cqes) == {i \in DOMAIN cqes : cqes[i].trk = t}
\* Trackers whose last outstanding command is among the completions.
\* Mutant: any command is taken for the last one.
Finished_Any(cqes) == {cqes[i].trk : i \in DOMAIN cqes}
Finished(cqes) ==
    {t \in {cqes[i].trk : i \in DOMAIN cqes} :
        Cardinality(EventsOf(t, cqes)) = tracker[t].RemainingRequests}
LastEvent(t, cqes) ==
    CHOOSE i \in EventsOf(t, cqes) : \A j \in EventsOf(t, cqes) : j <= i

\* The finished trackers in the order of their last completions.
Rank(t, cqes) ==
    Cardinality({u \in Finished(cqes) : LastEvent(u, cqes) <= LastEvent(t, cqes)})
Returned(cqes) ==
    [k \in 1 .. Cardinality(Finished(cqes)) |->
       CHOOSE t \in Finished(cqes) : Rank(t, cqes) = k]

\* ProcessCompletionEvent for a run of completions: the one that completes a
\* read decides whether it failed, and Memory is moved to the data.  A tracker
\* in the pool still names its read in the code; nothing looks at it there.
ProcessCompletionEvents(cqes) ==
    LET done == {tracker[t].req : t \in Finished(cqes)}
    IN  /\ NumPendingCompletions' = NumPendingCompletions - Len(cqes)
        /\ tracker' = [t \in Trackers |->
             IF t \in Finished(cqes) THEN Unused
             ELSE [tracker[t] EXCEPT !.RemainingRequests =
                                       @ - Cardinality(EventsOf(t, cqes))]]
        /\ NvmeRequestPool' = NvmeRequestPool \o Returned(cqes)
        /\ bFailed' = bFailed \cup
             {tracker[t].req : t \in {u \in Finished(cqes) : ~cqes[LastEvent(u, cqes)].ok}}
        /\ moved' = [b \in Buffers |->
             IF \E r \in done : buffer[r] = b THEN moved[b] + FixupOffset[b] ELSE moved[b]]
        /\ status' = [r \in Requests |-> IF r \in done THEN "completed" ELSE status[r]]
        /\ UNCHANGED <<read, buffer, partFailed, fileVars, deviceVars, FixupOffset,
                       content, NextRequest, AcquiredBuffer, split, numPendingSubmits,
                       sq, inflight>>

\* What follows ProcessCompletedRequests; after a wait, the end of the do loop.
AfterProcess == CASE from = "request" -> "next"
                  [] from = "flush" -> "waitcqe"
                  [] from = "wait" -> IF NumPendingCompletions' > 0 THEN "next" ELSE "wait"

\* With IOPoll the kernel posts what has finished when it is entered for events,
\* by ProcessCompletedRequests or by io_uring_wait_cqe, on an empty queue.
Poll ==
    /\ pc \in {"process", "waitcqe"} /\ NumPendingCompletions > 0
    /\ cq = <<>> /\ finished # <<>>
    /\ cq' = finished /\ finished' = <<>>
    /\ UNCHANGED <<requestVars, fileVars, deviceVars, memoryVars, trackerVars, loopVars,
                   countVars, sq, inflight>>

ProcessCompletedRequests ==
    /\ pc = "process"
    /\ NumPendingCompletions > 0 /\ cq = <<>> => finished = <<>>
    /\ IF NumPendingCompletions > 0 /\ cq # <<>>
         THEN ProcessCompletionEvents(cq)
         ELSE UNCHANGED <<requestVars, fileVars, deviceVars, memoryVars, trackerVars,
                          NextRequest, AcquiredBuffer, split, countVars, sq, inflight>>
    /\ cq' = <<>> /\ pc' = AfterProcess
    /\ UNCHANGED <<from, finished>>

WaitCqe ==
    /\ pc = "waitcqe" /\ NumPendingCompletions > 0 /\ cq # <<>>
    /\ ProcessCompletionEvents(<<Head(cq)>>)
    /\ cq' = Tail(cq) /\ pc' = "process" /\ from' = "wait"
    /\ UNCHANGED finished

NothingToWaitFor ==
    /\ pc = "waitcqe" /\ NumPendingCompletions = 0
    /\ pc' = "wait"
    /\ UNCHANGED <<requestVars, fileVars, deviceVars, memoryVars, trackerVars, from,
                   NextRequest, AcquiredBuffer, split, countVars, ringVars>>

\* ServiceWait, and StartRequests anew; who triggers the event is not repeated.
ServiceWait ==
    /\ pc = "wait"
    /\ FilesToUnregister # <<>> \/ \E r \in Requests : status[r] = "queued"
    /\ pc' = "start"
    /\ UNCHANGED <<requestVars, fileVars, deviceVars, memoryVars, trackerVars, from,
                   NextRequest, AcquiredBuffer, split, countVars, ringVars>>

-----------------------------------------------------------------------------
(* The devices carry out commands in any order.                              *)

Complete(p, ok) ==
    /\ p \in inflight
    /\ inflight' = inflight \ {p}
    /\ LET r == tracker[p.trk].req IN
         partFailed' = IF ok THEN partFailed ELSE partFailed \cup {r}
    /\ content' = [content EXCEPT ![p.buf] =
         Written(@, p.addr, [i \in 0 .. BlocksRead(p.num) * BlockSize - 1 |->
                               IF ok THEN <<p.dev, p.lb * BlockSize + i>> ELSE <<>>])]
    /\ LET cqe == [trk |-> p.trk, ok |-> ok]
       IN  IF IOPoll THEN finished' = Append(finished, cqe) /\ UNCHANGED cq
                     ELSE cq' = Append(cq, cqe) /\ UNCHANGED finished
    /\ UNCHANGED <<status, read, bFailed, buffer, fileVars, deviceVars, moved,
                   FixupOffset, trackerVars, loopVars, countVars, sq>>

-----------------------------------------------------------------------------
Engine ==
    \/ \E f \in Files : OpenContainer(f) \/ CloseContainer(f)
    \/ \E r \in Requests : ReleaseRequest(r) \/ \E rd \in Reads : PushRequest(r, rd)

Service ==
    \/ \E f \in Files : UnregisterNvmeFile(f)
    \/ EnterRequestLoop
    \/ \E b \in Buffers \cup {None} : NoNextRequest(b)
    \/ \E r \in Requests :
         \/ \E b \in Buffers : GetNextRequest(r, b)
         \/ \E ok \in BOOLEAN : RegisterNvmeFile(r, ok)
         \/ \E hit \in BOOLEAN : AllocateMemory(r, hit)
         \/ PrepareRequestNvme(r) \/ PreparePart(r) \/ SubmitRequest(r)
    \/ SubmissionQueueFull \/ Poll \/ ProcessCompletedRequests \/ WaitCqe
    \/ NothingToWaitFor \/ ServiceWait

Next == Engine \/ Service \/ \E p \in inflight, ok \in BOOLEAN : Complete(p, ok)

Spec == Init /\ [][Next]_vars

-----------------------------------------------------------------------------
Parts == ToSet(sq) \cup inflight

TypeOK ==
    /\ status \in [Requests -> {"idle", "queued", "accepted", "completed"}]
    /\ read \in [Requests -> Reads \cup {None}]
    /\ bFailed \subseteq Requests /\ partFailed \subseteq Requests
    /\ buffer \in [Requests -> Buffers \cup {None}]
    /\ containers \subseteq Files /\ FilesToUnregister \in Seq(Files)
    /\ FixedFd \in [Devices -> Slots \cup {-1}]
    /\ RegisteredContainers \in [Devices -> SUBSET Files]
    /\ FreeRegisteredFiles \in Seq(Slots) /\ ktable \in [Slots -> Devices \cup {None}]
    /\ moved \in [Buffers -> Int] /\ FixupOffset \in [Buffers -> Nat]
    /\ NvmeRequestPool \in Seq(Trackers)
    /\ tracker \in [Trackers -> [req : Requests \cup {None}, RemainingRequests : Int]]
    /\ NextRequest \in Requests \cup {None} /\ AcquiredBuffer \in Buffers \cup {None}
    /\ numPendingSubmits \in 0 .. GBatchSubmitSize - 1 /\ NumPendingCompletions \in Nat

\* A registered container has the whole map of its file, in however many calls it
\* was read: no extent is left out or taken twice where one call follows another.
ExtentsComplete ==
    \A d \in Devices : \A f \in RegisteredContainers[d] : Extents(f) = FileExtents[f]

\* No command writes outside the block of memory its buffer stands for, however
\* often Memory was moved for earlier reads.
PartsInBuffer ==
    \A p \in Parts : p.addr >= 0 /\ p.addr + p.num * BlockSize <= ActualBufferSize

\* A read that is handed over as good, with none of its commands having failed,
\* left the bytes asked for at Memory, whatever extents and devices they came
\* from; reads that touch a hole in the file are excepted.
SuccessMeansData ==
    \A r \in Requests :
        /\ status[r] = "completed" /\ buffer[r] # None /\ r \notin bFailed \cup partFailed
        /\ WhollyMapped(FileExtents[read[r].file], read[r])
        => \A i \in 0 .. read[r].Size - 1 :
             content[buffer[r]][moved[buffer[r]] + i] =
                FileByte(read[r].file, read[r].Offset + i)

\* A tracker stands for one accepted read and counts its commands, all of them
\* and no others, until it is back in the pool; none is there twice.
TrackersCount ==
    /\ NumPendingCompletions = Len(sq) + Cardinality(inflight) + Len(finished) + Len(cq)
    /\ \A t \in Trackers : t \in InUse =>
         /\ tracker[t].RemainingRequests =
              Cardinality({i \in DOMAIN sq : sq[i].trk = t})
              + Cardinality({p \in inflight : p.trk = t})
              + Cardinality(EventsOf(t, finished \o cq))
         /\ status[tracker[t].req] = "accepted" /\ ~Contains(NvmeRequestPool, t)
         /\ \A u \in InUse \ {t} : tracker[u].req # tracker[t].req
    /\ \A i, j \in DOMAIN NvmeRequestPool :
         NvmeRequestPool[i] = NvmeRequestPool[j] => i = j

\* A device is registered exactly while it has containers, in a slot of its own;
\* every other slot is free, once; a command names the slot of the device that its
\* read's file is on; and no device keeps a container whose handle is deleted, at
\* whose address the next one could be.
DeviceTableConsistent ==
    /\ \A d \in Devices : \A f \in RegisteredContainers[d] :
          DeviceOf[f] = d /\ (f \in containers \/ Contains(FilesToUnregister, f))
    /\ \A d \in Devices : (FixedFd[d] # -1) <=> (RegisteredContainers[d] # {})
    /\ \A d \in Devices : FixedFd[d] # -1 => ktable[FixedFd[d]] = d
    /\ \A s \in Slots : ktable[s] # None => FixedFd[ktable[s]] = s
    /\ \A s \in Slots : (ktable[s] = None) <=> Contains(FreeRegisteredFiles, s)
    /\ Len(FreeRegisteredFiles) <= MaxFixedFiles - Cardinality({s \in Slots : ktable[s] # None})
    /\ \A p \in ToSet(sq) : ktable[p.fd] = DeviceOf[read[tracker[p.trk].req].file]

\* With a slot for every device, the service thread dies only of a read that
\* asks for bytes no extent holds: no split of a mapped read ends in a check().
FatalOnlyIfUnmapped ==
    pc = "fatal" /\ Cardinality(Devices) <= MaxFixedFiles =>
        ~WhollyMapped(FileExtents[read[NextRequest].file], read[NextRequest])

\* What PrepareRequestNvme says of its first lines, "Make sure the memory location
\* is back to the original start location."  It is not, for a buffer whose last
\* read failed for want of a start extent.
BackAtStart == pc = "split" => moved[buffer[NextRequest]] = 0
=============================================================================
