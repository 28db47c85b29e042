----------------------- MODULE LinuxIoDispatcherProofs -----------------------
(***************************************************************************)
(* The dispatcher's accounting and its registered-file table are correct   *)
(* for any number of requests, files, buffers, slots and ring entries.     *)
(*                                                                         *)
(* The second part is about a request: it is always in exactly one place,  *)
(* with a buffer of its own; the batch it waits in is what the submission  *)
(* queue holds; and nobody sleeps on it, although each thread is told only *)
(* after the fact.                                                         *)
(*                                                                         *)
(* The last part is that the dispatcher implements PlatformIoStore: every  *)
(* step of it is one the engine's interface allows, or changes nothing     *)
(* there.                                                                  *)
(***************************************************************************)
EXTENDS LinuxIoDispatcher, SequenceLemmas

-----------------------------------------------------------------------------
(* The inductive invariant                                                   *)

\* Entries are reaped ahead of the queue's head only between ReapBatch and
\* NotifyAndAdvance; neither queue holds more than it has entries.
RingBounds ==
    /\ ready <= Len(cq) /\ (pc # "reaped" => ready = 0)
    /\ Len(cq) <= CqEntries
    /\ Len(sq) <= SqEntries

\* No read is outstanding while the service is outside its request loop.
NothingPending == pc \in {"wait", "start", "unregister"} => NumPendingCompletions = 0

\* Where the service thread has a request in its hands,
Issuing == pc = "issue" \/ (pc = "enter" /\ submitFrom = "full")
RequestInHand ==
    NextRequest # None <=>
        pc \in {"open", "alloc", "submit", "completed", "fatal"} \/ Issuing

\* where that request's file has been registered,
FileInHand == pc = "alloc" \/ Issuing => state[FileOf[NextRequest]] = "Fixed"

\* and where no batch is half built.
BatchDone ==
    \/ pc \in {"waitcqe", "waited", "loop", "wait", "start", "unregister"}
    \/ pc \in {"process", "reaped"} /\ processFrom # "request"
    => PendingSubmits = <<>>

IInv ==
    /\ TypeOK
    /\ RingBounds /\ PendingAccounting /\ NothingPending
    /\ RequestInHand /\ FileInHand /\ BatchDone
    /\ FileTableConsistent
    /\ ReadsOwnFile

-----------------------------------------------------------------------------
(* Lemmas about the parts of the steps                                       *)

USE DEF SubmitCallers, ProcessCallers, PCs, Slots

LEMMA Constants ==
    /\ None \notin Requests /\ None \notin Buffers /\ None \notin Files
    /\ FileOf \in [Requests -> Files]
    /\ MaxFixedFiles \in Nat /\ SqEntries \in Nat \ {0} /\ CqEntries \in Nat \ {0}
    /\ DeferTaskrun \in BOOLEAN /\ SubmitCanFail \in BOOLEAN
BY FileOfAssumption, SizesAssumption, SwitchesAssumption, NoneAssumption

\* Entering the kernel for events moves completions towards the queue: none is
\* lost, and the queue never holds more than it has entries.
LEMMA GetEventsProperties ==
    ASSUME TypeOK, Len(cq) <= CqEntries, GetEvents
    PROVE  /\ cq' \in Seq(Cqe) /\ overflow' \in Seq(Cqe) /\ deferred' = <<>>
           /\ Len(cq) <= Len(cq') /\ Len(cq') <= CqEntries
           /\ Len(cq') + Len(overflow') = Len(cq) + Len(overflow) + Len(deferred)
<1> DEFINE events == overflow \o deferred
           room == CqEntries - Len(cq)
           n == IF Len(events) < room THEN Len(events) ELSE room
<1>1. /\ cq \in Seq(Cqe) /\ overflow \in Seq(Cqe) /\ deferred \in Seq(Cqe)
      /\ Len(cq) \in Nat /\ Len(overflow) \in Nat /\ Len(deferred) \in Nat
  BY LenProperties DEF TypeOK
<1>2. events \in Seq(Cqe) /\ Len(events) = Len(overflow) + Len(deferred)
  BY <1>1, ConcatProperties
<1>3. /\ cq' = cq \o SubSeq(events, 1, n)
      /\ overflow' = SubSeq(events, n + 1, Len(events))
      /\ deferred' = <<>>
  BY DEF GetEvents, PostEvents
<1> HIDE DEF events
<1>4. n \in 0 .. Len(events) /\ n <= CqEntries - Len(cq)
  BY <1>1, <1>2, Constants
<1> HIDE DEF n
<1>5. SubSeq(events, 1, n) \in Seq(Cqe) /\ Len(SubSeq(events, 1, n)) = n
  BY <1>2, <1>4, TakeProperties
<1>6. overflow' \in Seq(Cqe) /\ Len(overflow') = Len(events) - n
  BY <1>2, <1>3, <1>4, DropProperties
<1>7. cq' \in Seq(Cqe) /\ Len(cq') = Len(cq) + n
  BY <1>1, <1>3, <1>5, ConcatProperties
<1>8. CqEntries \in Nat /\ Len(cq') = Len(cq) + n /\ n \in Nat
  BY <1>1, <1>2, <1>4, <1>7, Constants
<1>9. /\ Len(cq) <= Len(cq') /\ Len(cq') <= CqEntries
      /\ Len(cq') + Len(overflow') = Len(cq) + Len(overflow) + Len(deferred)
  BY <1>1, <1>2, <1>4, <1>6, <1>8
<1>10. QED
  BY <1>3, <1>6, <1>7, <1>9

\* What the kernel takes over at io_uring_submit: n entries fewer in the queue,
\* n reads more in flight, each of the file its entry's slot holds.
LEMMA SubmitProperties ==
    ASSUME TypeOK, NEW n \in Consumed, Submit(n)
    PROVE  /\ n \in 0 .. Len(sq)
           /\ sq' \in Seq(Sqe) /\ Len(sq') = Len(sq) - n
           /\ \A i \in 1 .. Len(sq) - n : sq'[i] = sq[n + i]
           /\ inflight' \in Seq(Op) /\ Len(inflight') = Len(inflight) + n
           /\ \A i \in 1 .. Len(inflight) : inflight'[i] = inflight[i]
           /\ \A i \in 1 .. n : inflight'[Len(inflight) + i] = Resolve(sq[i])
<1> DEFINE taken == [i \in 1 .. n |-> Resolve(sq[i])]
<1>1. /\ sq \in Seq(Sqe) /\ inflight \in Seq(Op)
      /\ Len(sq) \in Nat /\ Len(inflight) \in Nat
      /\ \A i \in 1 .. Len(sq) : sq[i] \in Sqe
  BY LenProperties, ElementOfSeq DEF TypeOK
<1>2. n \in 0 .. Len(sq)
  BY <1>1, Constants DEF Consumed
<1>3. \A e \in Sqe : Resolve(e) \in Op
  BY DEF TypeOK, Resolve, Sqe, Op
<1>4. \A i \in 1 .. n : Resolve(sq[i]) \in Op
  BY <1>1, <1>2, <1>3
<1>5. taken \in Seq(Op) /\ Len(taken) = n /\ \A i \in 1 .. n : taken[i] = Resolve(sq[i])
  BY <1>2, <1>4
<1>6. sq' = SubSeq(sq, n + 1, Len(sq)) /\ inflight' = inflight \o taken
  BY DEF Submit
<1> HIDE DEF taken
<1>7. /\ sq' \in Seq(Sqe) /\ Len(sq') = Len(sq) - n
      /\ \A i \in 1 .. Len(sq) - n : sq'[i] = sq[n + i]
  BY <1>1, <1>2, <1>6, DropProperties
<1>8. /\ inflight' \in Seq(Op) /\ Len(inflight') = Len(inflight) + n
      /\ \A i \in 1 .. Len(inflight) + n : inflight'[i] =
            IF i <= Len(inflight) THEN inflight[i] ELSE taken[i - Len(inflight)]
  BY <1>1, <1>5, <1>6, ConcatProperties
<1>9. \A i \in 1 .. Len(inflight) : inflight'[i] = inflight[i]
  BY <1>1, <1>2, <1>8
<1>10. \A i \in 1 .. n : inflight'[Len(inflight) + i] = Resolve(sq[i])
  BY <1>1, <1>2, <1>5, <1>8
<1>11. QED
  BY <1>2, <1>7, <1>8, <1>9, <1>10

-----------------------------------------------------------------------------
(* Every step keeps the variables in their types                             *)

\* Where the engine, the service before its request loop, and the kernel step.
LEMMA EngineTypeStep ==
    ASSUME TypeOK, Engine
    PROVE  TypeOK'
<1> USE Constants
<1>1. ASSUME NEW f \in Files, OpenContainer(f) PROVE TypeOK'
  BY <1>1 DEF OpenContainer, TypeOK, callVars, ringVars
<1>2. ASSUME NEW f \in Files, CloseContainer(f) PROVE TypeOK'
  <2>1. FilesToUnregister' \in Seq(Files)
    BY <1>2, AppendProperties DEF CloseContainer, TypeOK
  <2>2. QED
    BY <1>2, <2>1 DEF CloseContainer, Notifies, TypeOK, fileVars, callVars, ringVars
<1>3. ASSUME NEW t \in toNotify, ServiceNotify(t) PROVE TypeOK'
  BY <1>3 DEF ServiceNotify, Triggered, TypeOK, fileVars, callVars, ringVars
<1>4. ASSUME NEW r \in Requests, PushRequest(r) PROVE TypeOK'
  BY <1>4 DEF PushRequest, Notifies, TypeOK, fileVars, callVars, ringVars
<1>5. ASSUME NEW r \in Requests, CancelRequest(r) PROVE TypeOK'
  BY <1>5 DEF CancelRequest, TypeOK, fileVars, callVars, ringVars
<1>6. ASSUME NEW r \in Requests, ReleaseRequest(r) PROVE TypeOK'
  <2>1. /\ buffer' \in [Requests -> Buffers \cup {None}]
        /\ content' \in [Buffers -> Requests \cup {None}]
        /\ freeBuffers' \subseteq Buffers /\ toNotify' \subseteq {"io", "mount"}
    BY <1>6 DEF ReleaseRequest, TypeOK
  <2>2. QED
    BY <1>6, <2>1 DEF ReleaseRequest, TypeOK, fileVars, callVars, ringVars
<1>7. CASE GetCompletedRequests
  <2>1. delivered' \subseteq Requests
    BY <1>7, LenProperties, ElementOfSeq DEF GetCompletedRequests, ToSet, TypeOK
  <2>2. CompletedRequests' \in Seq(Requests)
    BY <1>7, EmptySeq DEF GetCompletedRequests
  <2>3. UNCHANGED <<idle, queue, bCancelled, freeBuffers, containers, toNotify,
                    bFailed, buffer, content, fileVars, FilesToUnregister, pc,
                    callVars, NextRequest, AcquiredBuffer, PendingSubmits,
                    NumPendingCompletions, ready, event, ringVars>>
    BY <1>7 DEF GetCompletedRequests
  <2>4. wakeDispatcher' \in BOOLEAN
    BY <1>7 DEF GetCompletedRequests
  <2>5. QED
    BY <2>1, <2>2, <2>3, <2>4 DEF TypeOK, fileVars, callVars, ringVars
<1>8. QED
  BY <1>1, <1>2, <1>3, <1>4, <1>5, <1>6, <1>7 DEF Engine

LEMMA KernelTypeStep ==
    ASSUME TypeOK, Kernel
    PROVE  TypeOK'
<1> USE Constants
<1>1. PICK i \in DOMAIN inflight, ok \in BOOLEAN : Complete(i, ok)
  BY DEF Kernel
<1>2. i \in 1 .. Len(inflight) /\ inflight[i] \in Op
  BY LenProperties, ElementOfSeq DEF TypeOK
<1>3. inflight' \in Seq(Op)
  BY <1>1, <1>2, RemoveAtProperties DEF Complete, TypeOK
<1>4. content' \in [Buffers -> Requests \cup {None}]
  BY <1>1, <1>2 DEF Complete, TypeOK, Op
<1> DEFINE cqe == [req |-> inflight[i].req, ok |-> ok]
<1>5. cqe \in Cqe
  BY <1>2 DEF Op, Cqe
<1>6. /\ deferred' = deferred \/ deferred' = Append(deferred, cqe)
      /\ cq' = cq \/ cq' = Append(cq, cqe)
      /\ overflow' = overflow \/ overflow' = Append(overflow, cqe)
  BY <1>1 DEF Complete
<1> HIDE DEF cqe
<1>7. \A s \in Seq(Cqe) : Append(s, cqe) \in Seq(Cqe)
  BY <1>5, AppendProperties
<1>8. deferred' \in Seq(Cqe) /\ cq' \in Seq(Cqe) /\ overflow' \in Seq(Cqe)
  <2>1. deferred \in Seq(Cqe) /\ cq \in Seq(Cqe) /\ overflow \in Seq(Cqe)
    BY DEF TypeOK
  <2>2. QED  BY <1>6, <1>7, <2>1
<1>9. UNCHANGED <<engineVars, bFailed, buffer, wakeDispatcher, fileVars,
                  FilesToUnregister, pc, callVars, NextRequest, AcquiredBuffer,
                  PendingSubmits, NumPendingCompletions, CompletedRequests, ready,
                  event, sq>>
  BY <1>1 DEF Complete
<1>10. QED
  BY <1>3, <1>4, <1>8, <1>9 DEF TypeOK, engineVars, fileVars, callVars

\* The service thread's steps that touch neither the ring nor the file table.
ServiceControl ==
    \/ StartRequests \/ EnterRequestLoop \/ NoNextRequest
    \/ \E b \in Buffers : AcquireBuffer(b)
    \/ \E r \in Requests : \/ PopRequest(r) \/ FileIsFixed(r) \/ OpenFails(r)
                           \/ OutOfRegisteredFiles(r)
                           \/ \E hit \in BOOLEAN : AllocateMemory(r, hit)
                           \/ OnRequestComplete(r) \/ SubmitRequest(r)
    \/ NotifyDispatcher \/ SubmissionQueueFull \/ FlushBatch \/ NothingReady
    \/ NothingToWaitFor \/ NotifyAndProcess \/ LoopOrReturn \/ ServiceWait

LEMMA ControlTypeStep ==
    ASSUME TypeOK, ServiceControl
    PROVE  TypeOK'
<1> USE Constants DEF engineVars, fileVars, callVars, ringVars
<1>1. CASE StartRequests \/ EnterRequestLoop \/ NoNextRequest
  BY <1>1 DEF StartRequests, EnterRequestLoop, NoNextRequest, TypeOK
<1>2. ASSUME NEW b \in Buffers, AcquireBuffer(b) PROVE TypeOK'
  BY <1>2 DEF AcquireBuffer, TypeOK
<1>3. ASSUME NEW r \in Requests, PopRequest(r) PROVE TypeOK'
  BY <1>3 DEF PopRequest, TypeOK
<1>4. ASSUME NEW r \in Requests,
             FileIsFixed(r) \/ OpenFails(r) \/ OutOfRegisteredFiles(r)
      PROVE  TypeOK'
  <2>1. CASE FileIsFixed(r)
    BY <2>1 DEF FileIsFixed, TypeOK
  <2>2. CASE OpenFails(r)
    BY <2>2 DEF OpenFails, TypeOK
  <2>3. CASE OutOfRegisteredFiles(r)
    BY <2>3 DEF OutOfRegisteredFiles, TypeOK
  <2>4. QED  BY <1>4, <2>1, <2>2, <2>3
<1>5. ASSUME NEW r \in Requests, NEW hit \in BOOLEAN, AllocateMemory(r, hit)
      PROVE  TypeOK'
  BY <1>5 DEF AllocateMemory, AcquiredAfter, TypeOK
<1>6. ASSUME NEW r \in Requests, OnRequestComplete(r) PROVE TypeOK'
  <2>1. CompletedRequests' \in Seq(Requests)
    BY <1>6, AppendProperties DEF OnRequestComplete, TypeOK
  <2>2. QED
    BY <1>6, <2>1 DEF OnRequestComplete, TypeOK
<1>7. ASSUME NEW r \in Requests, SubmitRequest(r) PROVE TypeOK'
  <2>1. PendingSubmits' \in Seq(Requests)
    BY <1>7, AppendProperties DEF SubmitRequest, TypeOK
  <2>2. QED
    BY <1>7, <2>1 DEF SubmitRequest, TypeOK
<1>8. CASE NotifyDispatcher \/ SubmissionQueueFull \/ FlushBatch
  BY <1>8 DEF NotifyDispatcher, Woken, SubmissionQueueFull, FlushBatch, TypeOK
<1>9. CASE NothingReady \/ NothingToWaitFor
  BY <1>9 DEF NothingReady, AfterProcess, NothingToWaitFor, TypeOK
<1>10. CASE NotifyAndProcess \/ LoopOrReturn \/ ServiceWait
  BY <1>10 DEF NotifyAndProcess, Woken, LoopOrReturn, ServiceWait, TypeOK
<1>11. QED
  BY <1>1, <1>2, <1>3, <1>4, <1>5, <1>6, <1>7, <1>8, <1>9, <1>10 DEF ServiceControl

LEMMA FilesTypeStep ==
    ASSUME TypeOK, FileTableConsistent,
           \/ \E f \in Files : UnregisterFile(f)
           \/ \E r \in Requests : RegisterFile(r)
    PROVE  TypeOK'
<1> USE Constants DEF engineVars, callVars, ringVars
<1>1. ASSUME NEW f \in Files, UnregisterFile(f) PROVE TypeOK'
  <2>1. FilesToUnregister' \in Seq(Files)
    BY <1>1, HeadTailProperties DEF UnregisterFile, TypeOK
  <2>2. ktable' \in [Slots -> Files \cup {None}]
    BY <1>1 DEF UnregisterFile, TableWithout, FilesUpdate, TypeOK
  <2>3. FreeRegisteredFiles' \in Seq(Slots)
    <3>1. CASE state[f] = "Fixed"
      <4>1. fixedFd[f] \in Slots
        BY <3>1 DEF FileTableConsistent
      <4>2. FreeRegisteredFiles' = Append(FreeRegisteredFiles, fixedFd[f])
        BY <1>1, <3>1 DEF UnregisterFile, FreedSlot
      <4>3. QED
        BY <4>1, <4>2, AppendProperties DEF TypeOK
    <3>2. CASE state[f] # "Fixed"
      BY <1>1, <3>2 DEF UnregisterFile, TypeOK
    <3>3. QED  BY <3>1, <3>2
  <2>4. /\ state' \in [Files -> {"Deleted", "Closed", "Fixed"}]
        /\ fixedFd' \in [Files -> Slots \cup {-1}]
    BY <1>1 DEF UnregisterFile, TypeOK
  <2>5. UNCHANGED <<engineVars, bFailed, buffer, content, wakeDispatcher, pc, callVars,
                    NextRequest, AcquiredBuffer, PendingSubmits, NumPendingCompletions,
                    CompletedRequests, ready, event, ringVars>>
    BY <1>1 DEF UnregisterFile
  <2>6. QED
    BY <2>1, <2>2, <2>3, <2>4, <2>5 DEF TypeOK
<1>2. ASSUME NEW r \in Requests, RegisterFile(r) PROVE TypeOK'
  <2>1. /\ FreeRegisteredFiles' \in Seq(Slots)
        /\ Last(FreeRegisteredFiles) \in Slots
    BY <1>2, FrontLastProperties DEF RegisterFile, FilesUpdate, SlotsLeft, TypeOK
  <2>2. /\ ktable' \in [Slots -> Files \cup {None}]
        /\ state' \in [Files -> {"Deleted", "Closed", "Fixed"}]
        /\ fixedFd' \in [Files -> Slots \cup {-1}]
        /\ pc' = "alloc"
    BY <1>2, <2>1 DEF RegisterFile, FilesUpdate, TypeOK
  <2>3. UNCHANGED <<engineVars, bFailed, buffer, content, wakeDispatcher,
                    FilesToUnregister, callVars, NextRequest, AcquiredBuffer,
                    PendingSubmits, NumPendingCompletions, CompletedRequests, ready,
                    event, ringVars>>
    BY <1>2 DEF RegisterFile, FilesUpdate
  <2>4. QED
    BY <2>1, <2>2, <2>3 DEF TypeOK
<1>3. QED  BY <1>1, <1>2

\* Reaping appends the requests of the completions to CompletedRequests.
LEMMA ProcessCompletionEventsProperties ==
    ASSUME TypeOK, NEW cqes \in Seq(Cqe), ProcessCompletionEvents(cqes)
    PROVE  /\ CompletedRequests' \in Seq(Requests)
           /\ bFailed' \subseteq Requests
           /\ NumPendingCompletions' \in Int
           /\ NumPendingCompletions' = NumPendingCompletions - Len(cqes)
<1> DEFINE reqs == [i \in 1 .. Len(cqes) |-> cqes[i].req]
<1>1. /\ Len(cqes) \in Nat /\ DOMAIN cqes = 1 .. Len(cqes)
      /\ \A i \in 1 .. Len(cqes) : cqes[i] \in Cqe
  BY LenProperties, ElementOfSeq
<1>2. \A i \in 1 .. Len(cqes) : cqes[i].req \in Requests
  BY <1>1 DEF Cqe
<1>3. reqs \in Seq(Requests)
  BY <1>1, <1>2
<1>4. CompletedRequests' = CompletedRequests \o reqs
  BY DEF ProcessCompletionEvents
<1> HIDE DEF reqs
<1>5. CompletedRequests' \in Seq(Requests)
  BY <1>3, <1>4, ConcatProperties DEF TypeOK
<1>6. FailedIn(cqes) \subseteq Requests
  BY <1>1, <1>2 DEF FailedIn, ToSet
<1>7. bFailed' \subseteq Requests
  BY <1>6 DEF ProcessCompletionEvents, TypeOK
<1>8. QED
  BY <1>1, <1>5, <1>7 DEF ProcessCompletionEvents, TypeOK

\* The service thread's steps on the ring.
LEMMA RingTypeStep ==
    ASSUME TypeOK, RingBounds, FileTableConsistent, RequestInHand, FileInHand,
           \/ \E r \in Requests : IssueRequest(r)
           \/ \E n \in Consumed : Submit(n)
           \/ FlushOverflow \/ ReapBatch \/ NotifyAndAdvance \/ WaitEnter \/ WaitCqe
    PROVE  TypeOK'
<1> USE DEF engineVars, fileVars, callVars
<1>1. ASSUME NEW r \in Requests, IssueRequest(r) PROVE TypeOK'
  <2> DEFINE sqe == [req |-> r, fd |-> fixedFd[FileOf[r]], buf |-> buffer[r]]
  <2>1. FileOf[r] \in Files /\ state[FileOf[r]] = "Fixed"
    BY <1>1, Constants DEF IssueRequest, FileInHand, Issuing
  <2>2. sqe \in Sqe
    BY <2>1 DEF FileTableConsistent, TypeOK, Sqe
  <2>3. sq' = Append(sq, sqe)
    BY <1>1 DEF IssueRequest
  <2> HIDE DEF sqe
  <2>4. sq' \in Seq(Sqe)
    BY <2>2, <2>3, AppendProperties DEF TypeOK
  <2>5. /\ NumPendingCompletions' = NumPendingCompletions + 1 /\ pc' = "submit"
        /\ UNCHANGED <<engineVars, bFailed, buffer, content, wakeDispatcher, fileVars,
                       FilesToUnregister, callVars, NextRequest, AcquiredBuffer,
                       PendingSubmits, CompletedRequests, ready, event, inflight,
                       deferred, cq, overflow>>
    BY <1>1 DEF IssueRequest
  <2>6. QED
    BY <2>4, <2>5 DEF TypeOK
<1>2. ASSUME NEW n \in Consumed, Submit(n) PROVE TypeOK'
  <2>1. sq' \in Seq(Sqe) /\ inflight' \in Seq(Op)
    BY <1>2, SubmitProperties
  <2>2. deferred' \in Seq(Cqe) /\ cq' \in Seq(Cqe) /\ overflow' \in Seq(Cqe)
    <3>1. CASE GetEvents
      BY <3>1, GetEventsProperties, EmptySeq DEF RingBounds
    <3>2. CASE UNCHANGED <<deferred, cq, overflow>>
      BY <3>2 DEF TypeOK
    <3>3. QED  BY <1>2, <3>1, <3>2 DEF Submit
  <2>3. PendingSubmits' \in Seq(Requests)
    BY <1>2, EmptySeq DEF Submit, BatchLeft
  <2>4. pc' \in PCs /\ processFrom' \in ProcessCallers
    BY <1>2 DEF Submit, TypeOK
  <2>5. UNCHANGED <<engineVars, bFailed, buffer, content, wakeDispatcher, fileVars,
                    FilesToUnregister, submitFrom, NextRequest, AcquiredBuffer,
                    NumPendingCompletions, CompletedRequests, ready, event>>
    BY <1>2 DEF Submit
  <2>6. QED
    BY <2>1, <2>2, <2>3, <2>4, <2>5 DEF TypeOK
<1>3. CASE FlushOverflow \/ WaitEnter
  <2>1. deferred' \in Seq(Cqe) /\ cq' \in Seq(Cqe) /\ overflow' \in Seq(Cqe)
    BY <1>3, GetEventsProperties, EmptySeq DEF FlushOverflow, WaitEnter, RingBounds
  <2>2. UNCHANGED <<engineVars, bFailed, buffer, content, wakeDispatcher, fileVars,
                    FilesToUnregister, pc, callVars, NextRequest, AcquiredBuffer,
                    PendingSubmits, NumPendingCompletions, CompletedRequests, ready,
                    event, sq, inflight>>
    BY <1>3 DEF FlushOverflow, WaitEnter
  <2>3. QED
    BY <2>1, <2>2 DEF TypeOK
<1>4. CASE ReapBatch
  <2>1. cq \in Seq(Cqe) /\ Len(cq) \in Nat
    BY LenProperties DEF TypeOK
  <2>2. /\ CompletedRequests' \in Seq(Requests) /\ bFailed' \subseteq Requests
        /\ NumPendingCompletions' \in Int
    BY <1>4, <2>1, ProcessCompletionEventsProperties DEF ReapBatch
  <2>3. QED
    BY <1>4, <2>1, <2>2 DEF ReapBatch, TypeOK, ringVars
<1>5. CASE NotifyAndAdvance
  <2>1. ready \in 0 .. Len(cq) /\ cq \in Seq(Cqe)
    BY LenProperties DEF RingBounds, TypeOK
  <2>2. cq' \in Seq(Cqe)
    BY <1>5, <2>1, DropProperties DEF NotifyAndAdvance, Advanced
  <2>3. QED
    BY <1>5, <2>2 DEF NotifyAndAdvance, Woken, AfterProcess, TypeOK
<1>6. CASE WaitCqe
  <2>1. cq \in Seq(Cqe) /\ cq # <<>>
    BY <1>6 DEF WaitCqe, TypeOK
  <2>2. Head(cq) \in Cqe /\ Tail(cq) \in Seq(Cqe)
    BY <2>1, HeadTailProperties
  <2>3. <<Head(cq)>> \in Seq(Cqe)
    BY <2>2
  <2>4. /\ CompletedRequests' \in Seq(Requests) /\ bFailed' \subseteq Requests
        /\ NumPendingCompletions' \in Int
    BY <1>6, <2>3, ProcessCompletionEventsProperties DEF WaitCqe
  <2>5. cq' \in Seq(Cqe) /\ pc' = "waited"
    BY <1>6, <2>2 DEF WaitCqe, Seen
  <2>6. UNCHANGED <<engineVars, buffer, content, wakeDispatcher, fileVars,
                    FilesToUnregister, callVars, NextRequest, AcquiredBuffer,
                    PendingSubmits, ready, event, sq, inflight, deferred, overflow>>
    BY <1>6 DEF WaitCqe
  <2>7. QED
    BY <2>4, <2>5, <2>6 DEF TypeOK
<1>7. QED  BY <1>1, <1>2, <1>3, <1>4, <1>5, <1>6

-----------------------------------------------------------------------------
(* Every step keeps the accounting                                           *)

\* Steps outside the ring leave the ring alone, never leave "reaped", and leave
\* the request loop only with nothing pending.
LEMMA OutsideRing ==
    ASSUME TypeOK,
           \/ Engine \/ ServiceControl
           \/ \E f \in Files : UnregisterFile(f)
           \/ \E r \in Requests : RegisterFile(r)
    PROVE  /\ UNCHANGED <<ringVars, ready, NumPendingCompletions>>
           /\ pc' = pc \/ pc # "reaped"
           /\ pc' \in {"wait", "start", "unregister"} =>
                 pc \in {"wait", "start", "unregister"} \/ ~StillPending
<1>1. CASE Engine
  BY <1>1 DEF Engine, OpenContainer, CloseContainer, ServiceNotify, PushRequest,
              CancelRequest, ReleaseRequest, GetCompletedRequests
<1>2. ASSUME NEW f \in Files, UnregisterFile(f)
      PROVE  UNCHANGED <<ringVars, ready, NumPendingCompletions, pc>>
  BY <1>2 DEF UnregisterFile
<1>3. ASSUME NEW r \in Requests, RegisterFile(r)
      PROVE  /\ UNCHANGED <<ringVars, ready, NumPendingCompletions>>
             /\ pc # "reaped" /\ pc' = "alloc"
  BY <1>3 DEF RegisterFile, FilesUpdate
<1>4. CASE ServiceControl
  <2>1. CASE StartRequests \/ EnterRequestLoop \/ NoNextRequest
             \/ \E b \in Buffers : AcquireBuffer(b)
    BY <2>1 DEF StartRequests, EnterRequestLoop, NoNextRequest, AcquireBuffer
  <2>2. ASSUME NEW r \in Requests,
               PopRequest(r) \/ FileIsFixed(r) \/ OpenFails(r) \/ OutOfRegisteredFiles(r)
                 \/ OnRequestComplete(r) \/ SubmitRequest(r)
        PROVE  /\ UNCHANGED <<ringVars, ready, NumPendingCompletions>>
               /\ pc # "reaped" /\ pc' \notin {"wait", "start", "unregister"}
    BY <2>2 DEF PopRequest, FileIsFixed, OpenFails, OutOfRegisteredFiles,
                OnRequestComplete, SubmitRequest
  <2>3. ASSUME NEW r \in Requests, NEW hit \in BOOLEAN, AllocateMemory(r, hit)
        PROVE  /\ UNCHANGED <<ringVars, ready, NumPendingCompletions>>
               /\ pc # "reaped" /\ pc' \notin {"wait", "start", "unregister"}
    BY <2>3 DEF AllocateMemory
  <2>4. CASE NotifyDispatcher \/ SubmissionQueueFull \/ FlushBatch \/ NothingReady
             \/ NothingToWaitFor \/ NotifyAndProcess \/ LoopOrReturn \/ ServiceWait
    BY <2>4 DEF NotifyDispatcher, SubmissionQueueFull, FlushBatch, NothingReady,
                AfterProcess, NothingToWaitFor, NotifyAndProcess, LoopOrReturn,
                ServiceWait, TypeOK
  <2>5. QED  BY <1>4, <2>1, <2>2, <2>3, <2>4 DEF ServiceControl
<1>5. QED  BY <1>1, <1>2, <1>3, <1>4

\* The sum of Outstanding, when its middle terms trade among themselves.
LEMMA SumOfOutstanding ==
    ASSUME NEW s \in Int, NEW i \in Int, NEW d \in Int, NEW o \in Int, NEW c \in Int,
           NEW s1 \in Int, NEW i1 \in Int, NEW d1 \in Int, NEW o1 \in Int, NEW c1 \in Int,
           NEW r \in Int, s1 + i1 + (d1 + c1 + o1) = s + i + (d + c + o)
    PROVE  s1 + i1 + d1 + o1 + (c1 - r) = s + i + d + o + (c - r)
OBVIOUS

\* What the kernel completes leaves the reads in flight and joins the completions.
LEMMA SumOfCompletion ==
    ASSUME NEW s \in Int, NEW i \in Int, NEW s1 \in Int, NEW i1 \in Int,
           NEW p \in Int, NEW p1 \in Int, s1 + i1 = s + i - 1, p1 = p + 1
    PROVE  s1 + i1 + p1 = s + i + p
OBVIOUS

\* What is outstanding goes up with IssueRequest, down as completions are
\* processed, and otherwise only moves through the ring and the kernel.
LEMMA AccountingStep ==
    ASSUME IInv, TypeOK', Next
    PROVE  RingBounds' /\ PendingAccounting' /\ NothingPending'
<1> USE Constants
<1>1. /\ Len(sq) \in Nat /\ Len(inflight) \in Nat /\ Len(deferred) \in Nat
      /\ Len(cq) \in Nat /\ Len(overflow) \in Nat /\ ready \in 0 .. Len(cq)
  BY LenProperties DEF IInv, TypeOK, RingBounds
<1>2. NumPendingCompletions \in Nat /\ NumPendingCompletions = Outstanding
  BY <1>1 DEF IInv, PendingAccounting, Outstanding
<1>3. CASE \/ Engine \/ ServiceControl
           \/ \E f \in Files : UnregisterFile(f)
           \/ \E r \in Requests : RegisterFile(r)
  <2>1. /\ UNCHANGED <<ringVars, ready, NumPendingCompletions>>
        /\ pc' = pc \/ pc # "reaped"
        /\ pc' \in {"wait", "start", "unregister"} =>
              pc \in {"wait", "start", "unregister"} \/ ~StillPending
    BY <1>3, OutsideRing DEF IInv
  <2>2. UNCHANGED <<sq, inflight, deferred, cq, overflow, ready, NumPendingCompletions>>
    BY <2>1 DEF ringVars
  <2>3. PendingAccounting'
    BY <1>2, <2>2 DEF PendingAccounting, Outstanding
  <2>4. RingBounds'
    BY <2>1, <2>2 DEF IInv, RingBounds
  <2>5. NothingPending'
    BY <1>2, <2>1 DEF IInv, NothingPending, StillPending
  <2>6. QED  BY <2>3, <2>4, <2>5
<1>4. ASSUME NEW r \in Requests, IssueRequest(r)
      PROVE  RingBounds' /\ PendingAccounting' /\ NothingPending'
  <2> DEFINE sqe == [req |-> r, fd |-> fixedFd[FileOf[r]], buf |-> buffer[r]]
  <2>1. /\ pc = "issue" /\ pc' = "submit" /\ Len(sq) < SqEntries
        /\ sq' = Append(sq, sqe)
        /\ NumPendingCompletions' = NumPendingCompletions + 1
        /\ UNCHANGED <<inflight, deferred, cq, overflow, ready>>
    BY <1>4 DEF IssueRequest
  <2> HIDE DEF sqe
  <2>2. sq \in Seq(Sqe) /\ sq' \in Seq(Sqe)
    BY DEF IInv, TypeOK
  <2>3. Len(sq') = Len(sq) + 1
    BY <2>1, <2>2
  <2>4. RingBounds'
    BY <1>1, <2>1, <2>3 DEF IInv, RingBounds
  <2>5. PendingAccounting'
    BY <1>1, <1>2, <2>1, <2>3 DEF PendingAccounting, Outstanding
  <2>6. NothingPending'
    BY <2>1, <2>3 DEF IInv, NothingPending
  <2>7. QED  BY <2>4, <2>5, <2>6
<1>5. ASSUME NEW n \in Consumed, Submit(n)
      PROVE  RingBounds' /\ PendingAccounting' /\ NothingPending'
  <2>1. /\ n \in 0 .. Len(sq) /\ Len(sq') = Len(sq) - n
        /\ Len(inflight') = Len(inflight) + n
    BY <1>5, SubmitProperties DEF IInv
  <2>2. /\ Len(cq) <= Len(cq') /\ Len(cq') <= CqEntries /\ Len(cq') \in Nat
        /\ Len(deferred') \in Nat /\ Len(overflow') \in Nat
        /\ Len(deferred') + Len(cq') + Len(overflow') =
              Len(deferred) + Len(cq) + Len(overflow)
    <3>1. Len(cq') \in Nat /\ Len(deferred') \in Nat /\ Len(overflow') \in Nat
      BY LenProperties DEF TypeOK
    <3>2. CASE GetEvents
      <4>1. /\ Len(cq) <= Len(cq') /\ Len(cq') <= CqEntries /\ deferred' = <<>>
            /\ Len(cq') + Len(overflow') = Len(cq) + Len(overflow) + Len(deferred)
        BY <3>2, GetEventsProperties DEF IInv, RingBounds
      <4>2. Len(deferred') = 0
        BY <4>1
      <4>3. QED  BY <1>1, <3>1, <4>1, <4>2
    <3>3. CASE UNCHANGED <<deferred, cq, overflow>>
      BY <1>1, <3>1, <3>3 DEF IInv, RingBounds
    <3>4. QED  BY <1>5, <3>2, <3>3 DEF Submit
  <2>3. /\ pc = "enter" /\ pc' \in {"issue", "process"}
        /\ UNCHANGED <<ready, NumPendingCompletions>>
    BY <1>5 DEF Submit
  <2>4. RingBounds'
    BY <1>1, <2>1, <2>2, <2>3 DEF IInv, RingBounds
  <2>5. PendingAccounting'
    <3>1. ready' = ready /\ NumPendingCompletions' = NumPendingCompletions
      BY <2>3
    <3>2. /\ Len(sq') \in Int /\ Len(inflight') \in Int
          /\ Len(sq') + Len(inflight') = Len(sq) + Len(inflight)
      BY <1>1, <2>1
    <3>3. Len(sq') + Len(inflight') + (Len(deferred') + Len(cq') + Len(overflow'))
            = Len(sq) + Len(inflight) + (Len(deferred) + Len(cq) + Len(overflow))
      BY <2>2, <3>2
    <3>4. Outstanding' = Outstanding
      BY <1>1, <2>2, <3>1, <3>2, <3>3, SumOfOutstanding DEF Outstanding
    <3>5. QED
      BY <1>2, <3>1, <3>4 DEF PendingAccounting
  <2>6. NothingPending'
    BY <2>1, <2>2, <2>3 DEF IInv, NothingPending
  <2>7. QED  BY <2>4, <2>5, <2>6
<1>6. CASE FlushOverflow \/ WaitEnter
  <2>1. /\ GetEvents /\ pc \in {"process", "waitcqe"}
        /\ UNCHANGED <<sq, inflight, ready, NumPendingCompletions, pc>>
    BY <1>6 DEF FlushOverflow, WaitEnter
  <2>2. /\ Len(cq) <= Len(cq') /\ Len(cq') <= CqEntries /\ deferred' = <<>>
        /\ Len(cq') + Len(overflow') = Len(cq) + Len(overflow) + Len(deferred)
    BY <2>1, GetEventsProperties DEF IInv, RingBounds
  <2>3. Len(cq') \in Nat /\ Len(overflow') \in Nat /\ Len(deferred') = 0
    BY <2>2, LenProperties DEF TypeOK
  <2>4. RingBounds'
    BY <1>1, <2>1, <2>2, <2>3 DEF IInv, RingBounds
  <2>5. PendingAccounting'
    BY <1>1, <1>2, <2>1, <2>2, <2>3 DEF PendingAccounting, Outstanding
  <2>6. NothingPending'
    BY <2>1, <2>2, <2>3 DEF IInv, NothingPending
  <2>7. QED  BY <2>4, <2>5, <2>6
<1>7. CASE ReapBatch
  <2>1. cq \in Seq(Cqe)
    BY DEF IInv, TypeOK
  <2>2. NumPendingCompletions' = NumPendingCompletions - Len(cq)
    BY <1>7, <2>1, ProcessCompletionEventsProperties DEF ReapBatch, IInv
  <2>3. /\ pc = "process" /\ pc' = "reaped" /\ ready' = Len(cq)
        /\ UNCHANGED <<sq, inflight, deferred, cq, overflow>>
    BY <1>7 DEF ReapBatch, ringVars
  <2>4. ready = 0
    BY <2>3 DEF IInv, RingBounds
  <2>5. RingBounds'
    BY <1>1, <2>2, <2>3, <2>4 DEF IInv, RingBounds
  <2>6. PendingAccounting'
    BY <1>1, <1>2, <2>2, <2>3, <2>4 DEF PendingAccounting, Outstanding
  <2>7. NothingPending'
    BY <2>2, <2>3, <2>4 DEF IInv, NothingPending
  <2>8. QED  BY <2>5, <2>6, <2>7
<1>8. CASE NotifyAndAdvance
  <2>1. /\ pc = "reaped" /\ pc' = AfterProcess /\ ready' = 0
        /\ cq' = SubSeq(cq, ready + 1, Len(cq))
        /\ UNCHANGED <<sq, inflight, deferred, overflow, NumPendingCompletions>>
    BY <1>8 DEF NotifyAndAdvance, Advanced
  <2>2. Len(cq') = Len(cq) - ready
    BY <1>1, <2>1, DropProperties DEF IInv, TypeOK
  <2>3. pc' \notin {"wait", "start", "unregister"}
    BY <2>1 DEF AfterProcess, IInv, TypeOK
  <2>4. RingBounds'
    BY <1>1, <2>1, <2>2, <2>3 DEF IInv, RingBounds
  <2>5. PendingAccounting'
    <3>1. /\ Len(cq') = Len(cq) - ready /\ Len(sq') = Len(sq) /\ ready' = 0
          /\ Len(inflight') = Len(inflight) /\ Len(deferred') = Len(deferred)
          /\ Len(overflow') = Len(overflow)
          /\ NumPendingCompletions' = NumPendingCompletions
      BY <2>1, <2>2
    <3>2. QED
      BY <1>1, <1>2, <3>1 DEF PendingAccounting, Outstanding
  <2>6. NothingPending'
    BY <2>1, <2>2, <2>3 DEF IInv, NothingPending
  <2>7. QED  BY <2>4, <2>5, <2>6
<1>9. CASE WaitCqe
  <2>1. cq \in Seq(Cqe) /\ cq # <<>>
    BY <1>9 DEF WaitCqe, IInv, TypeOK
  <2>2. Head(cq) \in Cqe /\ Len(Tail(cq)) = Len(cq) - 1
    BY <2>1, HeadTailProperties
  <2>3. <<Head(cq)>> \in Seq(Cqe) /\ Len(<<Head(cq)>>) = 1
    BY <2>2
  <2>4. NumPendingCompletions' = NumPendingCompletions - 1
    BY <1>9, <2>3, ProcessCompletionEventsProperties DEF WaitCqe, IInv
  <2>5. /\ pc = "waitcqe" /\ pc' = "waited" /\ cq' = Tail(cq)
        /\ UNCHANGED <<sq, inflight, deferred, overflow, ready>>
    BY <1>9 DEF WaitCqe, Seen
  <2>6. ready = 0
    BY <2>5 DEF IInv, RingBounds
  <2>7. RingBounds'
    BY <1>1, <2>2, <2>4, <2>5, <2>6 DEF IInv, RingBounds
  <2>8. PendingAccounting'
    <3>1. /\ Len(cq') = Len(cq) - 1 /\ Len(sq') = Len(sq) /\ ready' = 0
          /\ Len(inflight') = Len(inflight) /\ Len(deferred') = Len(deferred)
          /\ Len(overflow') = Len(overflow)
      BY <2>2, <2>5, <2>6
    <3>2. QED
      BY <1>1, <1>2, <2>4, <2>6, <3>1 DEF PendingAccounting, Outstanding
  <2>9. NothingPending'
    BY <2>2, <2>4, <2>5, <2>6 DEF IInv, NothingPending
  <2>10. QED  BY <2>7, <2>8, <2>9
<1>10. CASE Kernel
  <2>1. PICK i \in DOMAIN inflight, ok \in BOOLEAN : Complete(i, ok)
    BY <1>10 DEF Kernel
  <2>2. i \in 1 .. Len(inflight)
    BY LenProperties DEF IInv, TypeOK
  <2>3. Len(inflight') = Len(inflight) - 1
    BY <2>1, <2>2, RemoveAtProperties DEF Complete, IInv, TypeOK
  <2> DEFINE cqe == [req |-> inflight[i].req, ok |-> ok]
  <2>4. \/ deferred' = Append(deferred, cqe) /\ UNCHANGED <<cq, overflow>>
        \/ Len(cq) < CqEntries /\ cq' = Append(cq, cqe) /\ UNCHANGED <<deferred, overflow>>
        \/ overflow' = Append(overflow, cqe) /\ UNCHANGED <<deferred, cq>>
    BY <2>1 DEF Complete
  <2> HIDE DEF cqe
  <2>5. /\ Len(Append(deferred, cqe)) = Len(deferred) + 1
        /\ Len(Append(cq, cqe)) = Len(cq) + 1
        /\ Len(Append(overflow, cqe)) = Len(overflow) + 1
    <3>1. inflight[i] \in Op
      BY <2>2, ElementOfSeq DEF IInv, TypeOK
    <3>2. cqe \in Cqe
      BY <3>1 DEF cqe, Cqe, Op
    <3>3. QED  BY <3>2, AppendProperties DEF IInv, TypeOK
  <2>6. /\ Len(cq) <= Len(cq') /\ Len(cq') <= CqEntries
        /\ Len(cq') \in Nat /\ Len(deferred') \in Nat /\ Len(overflow') \in Nat
        /\ Len(deferred') + Len(cq') + Len(overflow') =
              Len(deferred) + Len(cq) + Len(overflow) + 1
    <3>1. Len(cq) <= CqEntries
      BY DEF IInv, RingBounds
    <3>2. CASE deferred' = Append(deferred, cqe) /\ UNCHANGED <<cq, overflow>>
      BY <1>1, <2>5, <3>1, <3>2
    <3>3. CASE Len(cq) < CqEntries /\ cq' = Append(cq, cqe) /\ UNCHANGED <<deferred, overflow>>
      BY <1>1, <2>5, <3>3
    <3>4. CASE overflow' = Append(overflow, cqe) /\ UNCHANGED <<deferred, cq>>
      BY <1>1, <2>5, <3>1, <3>4
    <3>5. QED  BY <2>4, <3>2, <3>3, <3>4
  <2>7. UNCHANGED <<pc, sq, ready, NumPendingCompletions>>
    BY <2>1 DEF Complete
  <2>8. NumPendingCompletions # 0
    BY <1>1, <1>2, <2>2 DEF Outstanding
  <2>9. RingBounds'
    BY <1>1, <2>2, <2>3, <2>6, <2>7, <2>8 DEF IInv, RingBounds
  <2>10. PendingAccounting'
    <3>1. /\ Len(sq') = Len(sq) /\ ready' = ready
          /\ NumPendingCompletions' = NumPendingCompletions
      BY <2>7
    <3>2. /\ Len(sq') \in Int /\ Len(inflight') \in Int
          /\ Len(sq') + Len(inflight') = Len(sq) + Len(inflight) - 1
      BY <1>1, <2>3, <3>1
    <3>3. Len(sq') + Len(inflight') + (Len(deferred') + Len(cq') + Len(overflow'))
            = Len(sq) + Len(inflight) + (Len(deferred) + Len(cq) + Len(overflow))
      <4>1. /\ Len(deferred') + Len(cq') + Len(overflow') \in Int
            /\ Len(deferred) + Len(cq) + Len(overflow) \in Int
        BY <1>1, <2>6
      <4>2. QED  BY <1>1, <2>6, <3>2, <4>1, SumOfCompletion
    <3>4. Outstanding' = Outstanding
      BY <1>1, <2>6, <3>1, <3>2, <3>3, SumOfOutstanding DEF Outstanding
    <3>5. QED
      BY <1>2, <3>1, <3>4 DEF PendingAccounting
  <2>11. NothingPending'
    BY <2>2, <2>3, <2>6, <2>7, <2>8 DEF IInv, NothingPending
  <2>12. QED  BY <2>9, <2>10, <2>11
<1>11. QED
  BY <1>3, <1>4, <1>5, <1>6, <1>7, <1>8, <1>9, <1>10 DEF Next, Service, ServiceControl

-----------------------------------------------------------------------------
(* Every step keeps track of the request in hand and of the batch            *)

LEMMA ControlStep ==
    ASSUME IInv, Next
    PROVE  RequestInHand' /\ BatchDone'
<1> USE Constants DEF RequestInHand, BatchDone, Issuing
<1>0. RequestInHand /\ BatchDone /\ processFrom \in ProcessCallers
  BY DEF IInv, TypeOK
<1>1. ASSUME UNCHANGED <<pc, callVars, NextRequest, PendingSubmits>>
      PROVE  RequestInHand' /\ BatchDone'
  BY <1>0, <1>1 DEF callVars
<1>2. CASE Engine
  <2>1. UNCHANGED <<pc, callVars, NextRequest, PendingSubmits>>
    BY <1>2 DEF Engine, OpenContainer, CloseContainer, ServiceNotify, PushRequest,
                CancelRequest, ReleaseRequest, GetCompletedRequests
  <2>2. QED  BY <1>1, <2>1
<1>3. CASE Kernel
  <2>1. UNCHANGED <<pc, callVars, NextRequest, PendingSubmits>>
    BY <1>3 DEF Kernel, Complete
  <2>2. QED  BY <1>1, <2>1
<1>4. ASSUME NEW f \in Files, UnregisterFile(f) PROVE RequestInHand' /\ BatchDone'
  <2>1. UNCHANGED <<pc, callVars, NextRequest, PendingSubmits>>
    BY <1>4 DEF UnregisterFile
  <2>2. QED  BY <1>1, <2>1
<1>5. ASSUME NEW b \in Buffers, AcquireBuffer(b) PROVE RequestInHand' /\ BatchDone'
  <2>1. UNCHANGED <<pc, callVars, NextRequest, PendingSubmits>>
    BY <1>5 DEF AcquireBuffer
  <2>2. QED  BY <1>1, <2>1
<1>6. CASE StartRequests \/ EnterRequestLoop \/ NoNextRequest
  BY <1>0, <1>6 DEF StartRequests, EnterRequestLoop, NoNextRequest, callVars
<1>7. ASSUME NEW r \in Requests, PopRequest(r) PROVE RequestInHand' /\ BatchDone'
  BY <1>0, <1>7 DEF PopRequest, callVars
<1>8. ASSUME NEW r \in Requests,
             FileIsFixed(r) \/ OpenFails(r) \/ RegisterFile(r) \/ OutOfRegisteredFiles(r)
      PROVE  RequestInHand' /\ BatchDone'
  <2>1. /\ pc = "open" /\ pc' \in {"alloc", "completed", "fatal"}
        /\ UNCHANGED <<callVars, NextRequest, PendingSubmits>>
    BY <1>8 DEF FileIsFixed, OpenFails, RegisterFile, FilesUpdate, OutOfRegisteredFiles
  <2>2. QED  BY <1>0, <2>1
<1>9. ASSUME NEW r \in Requests, NEW hit \in BOOLEAN, AllocateMemory(r, hit)
      PROVE  RequestInHand' /\ BatchDone'
  <2>1. /\ pc = "alloc" /\ pc' \in {"completed", "issue"}
        /\ UNCHANGED <<callVars, NextRequest, PendingSubmits>>
    BY <1>9 DEF AllocateMemory
  <2>2. QED  BY <1>0, <2>1
<1>10. ASSUME NEW r \in Requests, OnRequestComplete(r) PROVE RequestInHand' /\ BatchDone'
  BY <1>0, <1>10 DEF OnRequestComplete, callVars
<1>11. ASSUME NEW r \in Requests, IssueRequest(r) PROVE RequestInHand' /\ BatchDone'
  BY <1>0, <1>11 DEF IssueRequest, callVars
<1>12. ASSUME NEW r \in Requests, SubmitRequest(r) PROVE RequestInHand' /\ BatchDone'
  BY <1>0, <1>12 DEF SubmitRequest
<1>13. CASE NotifyDispatcher \/ SubmissionQueueFull \/ FlushBatch
  BY <1>0, <1>13 DEF NotifyDispatcher, SubmissionQueueFull, FlushBatch, MustFlush, callVars
<1>14. ASSUME NEW n \in Consumed, Submit(n) PROVE RequestInHand' /\ BatchDone'
  BY <1>0, <1>14 DEF Submit, BatchLeft
<1>15. CASE NothingReady \/ NotifyAndAdvance
  <2>1. /\ pc \in {"process", "reaped"} /\ pc' = AfterProcess
        /\ UNCHANGED <<callVars, NextRequest, PendingSubmits>>
    BY <1>15 DEF NothingReady, NotifyAndAdvance
  <2>2. pc' \in {"next", "waitcqe", "loop"} /\ (pc' # "next" => processFrom # "request")
    BY <1>0, <2>1 DEF AfterProcess
  <2>3. QED  BY <1>0, <2>1, <2>2
<1>16. CASE FlushOverflow \/ WaitEnter
  <2>1. UNCHANGED <<pc, callVars, NextRequest, PendingSubmits>>
    BY <1>16 DEF FlushOverflow, WaitEnter
  <2>2. QED  BY <1>1, <2>1
<1>17. CASE ReapBatch \/ WaitCqe
  BY <1>0, <1>17 DEF ReapBatch, WaitCqe, callVars
<1>18. CASE NothingToWaitFor \/ NotifyAndProcess \/ LoopOrReturn \/ ServiceWait
  BY <1>0, <1>18 DEF NothingToWaitFor, NotifyAndProcess, LoopOrReturn, ServiceWait,
                     callVars
<1>19. QED
  BY <1>2, <1>3, <1>4, <1>5, <1>6, <1>7, <1>8, <1>9, <1>10, <1>11, <1>12, <1>13,
     <1>14, <1>15, <1>16, <1>17, <1>18 DEF Next, Service

-----------------------------------------------------------------------------
(* Every step keeps handles, kernel table and free slots in agreement        *)

\* The service thread's control steps do not touch the file table.
LEMMA ControlFrame ==
    ASSUME ServiceControl
    PROVE  UNCHANGED fileVars
<1>1. CASE StartRequests \/ EnterRequestLoop \/ NoNextRequest
           \/ \E b \in Buffers : AcquireBuffer(b)
  BY <1>1 DEF StartRequests, EnterRequestLoop, NoNextRequest, AcquireBuffer
<1>2. CASE \E r \in Requests :
             \/ PopRequest(r) \/ FileIsFixed(r) \/ OpenFails(r) \/ OutOfRegisteredFiles(r)
             \/ OnRequestComplete(r) \/ SubmitRequest(r)
             \/ \E hit \in BOOLEAN : AllocateMemory(r, hit)
  BY <1>2 DEF PopRequest, FileIsFixed, OpenFails, OutOfRegisteredFiles,
              OnRequestComplete, SubmitRequest, AllocateMemory
<1>3. CASE NotifyDispatcher \/ SubmissionQueueFull \/ FlushBatch \/ NothingReady
           \/ NothingToWaitFor \/ NotifyAndProcess \/ LoopOrReturn \/ ServiceWait
  BY <1>3 DEF NotifyDispatcher, SubmissionQueueFull, FlushBatch, NothingReady,
              NothingToWaitFor, NotifyAndProcess, LoopOrReturn, ServiceWait
<1>4. QED  BY <1>1, <1>2, <1>3 DEF ServiceControl

\* Only three actions write the file table.
LEMMA FileFrame ==
    ASSUME Next,
           ~ \E f \in Files : OpenContainer(f) \/ UnregisterFile(f),
           ~ \E r \in Requests : RegisterFile(r)
    PROVE  UNCHANGED fileVars
<1>1. CASE Engine
  BY <1>1 DEF Engine, CloseContainer, ServiceNotify, PushRequest, CancelRequest,
              ReleaseRequest, GetCompletedRequests, fileVars
<1>2. CASE Kernel
  BY <1>2 DEF Kernel, Complete
<1>3. CASE \/ \E r \in Requests : IssueRequest(r)
           \/ \E n \in Consumed : Submit(n)
           \/ FlushOverflow \/ ReapBatch \/ NotifyAndAdvance \/ WaitEnter \/ WaitCqe
  BY <1>3 DEF IssueRequest, Submit, FlushOverflow, ReapBatch, NotifyAndAdvance,
              WaitEnter, WaitCqe
<1>4. CASE ServiceControl
  BY <1>4, ControlFrame
<1>5. QED
  BY <1>1, <1>2, <1>3, <1>4 DEF Next, Service, ServiceControl

\* A registered file gets a slot no other file has, and gives back its own.
LEMMA FileTableStep ==
    ASSUME IInv, Next
    PROVE  FileTableConsistent'
<1> USE Constants
<1>0. /\ FileTableConsistent
      /\ state \in [Files -> {"Deleted", "Closed", "Fixed"}]
      /\ fixedFd \in [Files -> Slots \cup {-1}]
      /\ ktable \in [Slots -> Files \cup {None}]
      /\ FreeRegisteredFiles \in Seq(Slots) /\ Len(FreeRegisteredFiles) \in Nat
      /\ DOMAIN FreeRegisteredFiles = 1 .. Len(FreeRegisteredFiles)
      /\ \A i \in 1 .. Len(FreeRegisteredFiles) : FreeRegisteredFiles[i] \in Slots
  BY LenProperties, ElementOfSeq DEF IInv, TypeOK
<1>free. /\ \A i \in 1 .. Len(FreeRegisteredFiles) : ktable[FreeRegisteredFiles[i]] = None
         /\ \A i, j \in 1 .. Len(FreeRegisteredFiles) :
              FreeRegisteredFiles[i] = FreeRegisteredFiles[j] => i = j
  <2>1. \A i \in 1 .. Len(FreeRegisteredFiles) :
           FreeRegisteredFiles[i] \in ToSet(FreeRegisteredFiles)
    BY <1>0 DEF ToSet
  <2>2. QED  BY <1>0, <2>1 DEF FileTableConsistent
<1>1. ASSUME NEW f \in Files, OpenContainer(f) PROVE FileTableConsistent'
  <2>1. /\ state[f] = "Deleted" /\ state' = [state EXCEPT ![f] = "Closed"]
        /\ UNCHANGED <<fixedFd, FreeRegisteredFiles, ktable>>
    BY <1>1 DEF OpenContainer
  <2>2. \A g \in Files : (state'[g] = "Fixed") <=> (state[g] = "Fixed")
    BY <1>0, <2>1
  <2>3. QED
    BY <1>0, <2>1, <2>2 DEF FileTableConsistent
<1>2. ASSUME NEW r \in Requests, RegisterFile(r) PROVE FileTableConsistent'
  <2> DEFINE f == FileOf[r]
             slot == Last(FreeRegisteredFiles)
             n == Len(FreeRegisteredFiles)
  <2>1. /\ f \in Files /\ state[f] # "Fixed" /\ FreeRegisteredFiles # <<>>
        /\ FreeRegisteredFiles' = Front(FreeRegisteredFiles)
        /\ ktable' = [ktable EXCEPT ![slot] = f]
        /\ fixedFd' = [fixedFd EXCEPT ![f] = slot]
        /\ state' = [state EXCEPT ![f] = "Fixed"]
    BY <1>2 DEF RegisterFile, FilesUpdate, SlotsLeft
  <2>2. /\ Front(FreeRegisteredFiles) \in Seq(Slots)
        /\ Len(Front(FreeRegisteredFiles)) = n - 1
        /\ \A j \in 1 .. n - 1 : Front(FreeRegisteredFiles)[j] = FreeRegisteredFiles[j]
        /\ slot \in Slots /\ n \in 1 .. n
    BY <1>0, <2>1, FrontLastProperties
  <2>3. slot = FreeRegisteredFiles[n]
    BY DEF Last
  <2>4. ktable[slot] = None
    BY <1>free, <2>2, <2>3 DEF n
  <2>5. DOMAIN Front(FreeRegisteredFiles) = 1 .. n - 1
    BY <2>2, LenProperties
  <2> HIDE DEF f, slot, n
  <2>6. \A s \in Slots : s \in ToSet(FreeRegisteredFiles') <=>
            s \in ToSet(FreeRegisteredFiles) /\ s # slot
    <3>1. \A s : s \in ToSet(FreeRegisteredFiles) <=>
              \E i \in 1 .. n : FreeRegisteredFiles[i] = s
      BY <1>0 DEF ToSet, n
    <3>2. \A s : s \in ToSet(FreeRegisteredFiles') <=>
              \E i \in 1 .. n - 1 : FreeRegisteredFiles[i] = s
      BY <2>1, <2>2, <2>5 DEF ToSet
    <3>3. n \in Nat \ {0}
      BY <1>0, <2>2 DEF n
    <3>4. \A i \in 1 .. n - 1 : FreeRegisteredFiles[i] # slot
      <4>1. \A i \in 1 .. n - 1 : i \in 1 .. n /\ i # n
        BY <3>3
      <4>2. QED  BY <1>free, <2>2, <2>3, <4>1 DEF n
    <3>5. \A i \in 1 .. n : i \in 1 .. n - 1 \/ i = n
      BY <3>3
    <3>6. \A i \in 1 .. n - 1 : i \in 1 .. n
      BY <3>3
    <3>7. n \in 1 .. n
      BY <3>3
    <3>8. QED  BY <2>3, <3>1, <3>2, <3>4, <3>5, <3>6, <3>7
  <2>7. \A s \in Slots : (ktable'[s] = None) <=> s \in ToSet(FreeRegisteredFiles')
    BY <1>0, <2>1, <2>2, <2>6 DEF FileTableConsistent
  <2>8. \A i, j \in DOMAIN FreeRegisteredFiles' :
            FreeRegisteredFiles'[i] = FreeRegisteredFiles'[j] => i = j
    <3>1. \A i \in 1 .. n - 1 : i \in 1 .. n
      BY <1>0 DEF n
    <3>2. QED  BY <1>free, <2>1, <2>2, <2>5, <3>1 DEF n
  <2>9. \A g \in Files : state'[g] = "Fixed" =>
            fixedFd'[g] \in Slots /\ ktable'[fixedFd'[g]] = g
    BY <1>0, <2>1, <2>2, <2>4 DEF FileTableConsistent
  <2>10. \A s \in Slots : ktable'[s] # None =>
            state'[ktable'[s]] = "Fixed" /\ fixedFd'[ktable'[s]] = s
    BY <1>0, <2>1, <2>2, <2>4 DEF FileTableConsistent
  <2>11. QED
    BY <2>7, <2>8, <2>9, <2>10 DEF FileTableConsistent
<1>3. ASSUME NEW f \in Files, UnregisterFile(f) PROVE FileTableConsistent'
  <2>1. /\ state' = [state EXCEPT ![f] = "Deleted"]
        /\ fixedFd' = [fixedFd EXCEPT ![f] = -1]
    BY <1>3 DEF UnregisterFile
  <2>2. CASE state[f] # "Fixed"
    <3>1. UNCHANGED <<ktable, FreeRegisteredFiles>>
      BY <1>3, <2>2 DEF UnregisterFile
    <3>2. \A g \in Files : (state'[g] = "Fixed") <=> (state[g] = "Fixed")
      BY <1>0, <2>1, <2>2
    <3>3. \A g \in Files : state[g] = "Fixed" => fixedFd'[g] = fixedFd[g]
      BY <1>0, <2>1, <2>2
    <3>4. QED
      BY <1>0, <3>1, <3>2, <3>3 DEF FileTableConsistent
  <2>3. CASE state[f] = "Fixed"
    <3> DEFINE slot == fixedFd[f]
               n == Len(FreeRegisteredFiles)
    <3>1. /\ ktable' = [ktable EXCEPT ![slot] = None]
          /\ FreeRegisteredFiles' = Append(FreeRegisteredFiles, slot)
      BY <1>3, <2>3 DEF UnregisterFile, TableWithout, FilesUpdate, FreedSlot
    <3>2. slot \in Slots /\ ktable[slot] = f
      BY <1>0, <2>3 DEF FileTableConsistent
    <3> HIDE DEF slot
    <3>3. /\ DOMAIN FreeRegisteredFiles' = 1 .. n + 1
          /\ \A i \in 1 .. n : FreeRegisteredFiles'[i] = FreeRegisteredFiles[i]
          /\ FreeRegisteredFiles'[n + 1] = slot
      BY <1>0, <3>1, <3>2, AppendProperties
    <3>4. n \in Nat /\ DOMAIN FreeRegisteredFiles = 1 .. n
      BY <1>0
    <3> HIDE DEF n
    <3>5. \A i \in 1 .. n + 1 : i \in 1 .. n \/ i = n + 1
      BY <3>4
    <3>6. \A i \in 1 .. n : i \in 1 .. n + 1 /\ i # n + 1
      BY <3>4
    <3>7. n + 1 \in 1 .. n + 1
      BY <3>4
    <3>8. \A s : s \in ToSet(FreeRegisteredFiles') <=>
              s \in ToSet(FreeRegisteredFiles) \/ s = slot
      BY <3>3, <3>4, <3>5, <3>6, <3>7 DEF ToSet
    <3>9. \A i \in 1 .. n : FreeRegisteredFiles[i] # slot
      BY <1>free, <3>2, <3>4, Constants DEF n
    <3>10. \A s \in Slots : (ktable'[s] = None) <=> s \in ToSet(FreeRegisteredFiles')
      BY <1>0, <3>1, <3>2, <3>8 DEF FileTableConsistent
    <3>11. \A i, j \in DOMAIN FreeRegisteredFiles' :
              FreeRegisteredFiles'[i] = FreeRegisteredFiles'[j] => i = j
      BY <1>free, <3>3, <3>4, <3>5, <3>9 DEF n
    <3>12. \A g \in Files : state'[g] = "Fixed" =>
              fixedFd'[g] \in Slots /\ ktable'[fixedFd'[g]] = g
      BY <1>0, <2>1, <3>1, <3>2 DEF FileTableConsistent
    <3>13. \A s \in Slots : ktable'[s] # None =>
              state'[ktable'[s]] = "Fixed" /\ fixedFd'[ktable'[s]] = s
      BY <1>0, <2>1, <3>1, <3>2 DEF FileTableConsistent, slot
    <3>14. QED
      BY <3>10, <3>11, <3>12, <3>13 DEF FileTableConsistent
  <2>4. QED  BY <2>2, <2>3
<1>4. ASSUME UNCHANGED fileVars PROVE FileTableConsistent'
  <2>1. UNCHANGED <<state, fixedFd, FreeRegisteredFiles, ktable>>
    BY <1>4 DEF fileVars
  <2>2. QED  BY <1>0, <2>1 DEF FileTableConsistent
<1>5. QED  BY <1>1, <1>2, <1>3, <1>4, FileFrame

-----------------------------------------------------------------------------
(* Every step keeps reads on their own files                                 *)

\* With nothing pending, the ring and the kernel hold no read.
LEMMA NothingPendingMeansEmpty ==
    ASSUME TypeOK, RingBounds, PendingAccounting, NumPendingCompletions <= 0
    PROVE  /\ sq = <<>> /\ inflight = <<>> /\ deferred = <<>> /\ overflow = <<>>
           /\ Len(cq) = ready
<1>1. /\ Len(sq) \in Nat /\ Len(inflight) \in Nat /\ Len(deferred) \in Nat
      /\ Len(cq) \in Nat /\ Len(overflow) \in Nat /\ ready \in 0 .. Len(cq)
  BY LenProperties DEF TypeOK, RingBounds
<1>2. /\ Len(sq) = 0 /\ Len(inflight) = 0 /\ Len(deferred) = 0
      /\ Len(overflow) = 0 /\ Len(cq) = ready
  BY <1>1 DEF PendingAccounting, Outstanding
<1>3. QED
  BY <1>2, EmptySeq DEF TypeOK

\* The file of the request in hand stays registered until it has been issued.
LEMMA FileInHandStep ==
    ASSUME IInv, Next
    PROVE  FileInHand'
<1> USE Constants
<1>0. /\ state \in [Files -> {"Deleted", "Closed", "Fixed"}]
      /\ NextRequest \in Requests \cup {None}
      /\ NextRequest # None <=>
            pc \in {"open", "alloc", "submit", "completed", "fatal"} \/ Issuing
      /\ pc = "alloc" \/ Issuing => state[FileOf[NextRequest]] = "Fixed"
  BY DEF IInv, TypeOK, RequestInHand, FileInHand
<1>1. CASE Engine
  <2>1. UNCHANGED <<pc, submitFrom, NextRequest>>
    BY <1>1 DEF Engine, OpenContainer, CloseContainer, ServiceNotify, PushRequest,
                CancelRequest, ReleaseRequest, GetCompletedRequests, callVars
  <2>2. \A g \in Files : state[g] = "Fixed" => state'[g] = "Fixed"
    BY <1>0, <1>1 DEF Engine, OpenContainer, CloseContainer, ServiceNotify, PushRequest,
                CancelRequest, ReleaseRequest, GetCompletedRequests, fileVars
  <2>3. QED  BY <1>0, <2>1, <2>2 DEF FileInHand, Issuing
<1>2. CASE Kernel
  <2>1. UNCHANGED <<pc, submitFrom, NextRequest, state>>
    BY <1>2 DEF Kernel, Complete, fileVars, callVars
  <2>2. QED  BY <1>0, <2>1 DEF FileInHand, Issuing
<1>3. ASSUME NEW r \in Requests, RegisterFile(r) PROVE FileInHand'
  BY <1>0, <1>3 DEF RegisterFile, FilesUpdate, FileInHand
<1>4. ASSUME NEW r \in Requests, FileIsFixed(r) PROVE FileInHand'
  BY <1>4 DEF FileIsFixed, FileInHand, fileVars
<1>5. ASSUME NEW r \in Requests, NEW hit \in BOOLEAN, AllocateMemory(r, hit)
      PROVE  FileInHand'
  BY <1>0, <1>5 DEF AllocateMemory, FileInHand, fileVars
<1>6. CASE SubmissionQueueFull
  BY <1>0, <1>6 DEF SubmissionQueueFull, FileInHand, Issuing, fileVars
<1>7. ASSUME NEW n \in Consumed, Submit(n) PROVE FileInHand'
  <2>1. /\ pc = "enter" /\ pc' # "alloc" /\ pc' # "enter"
        /\ (pc' = "issue" => submitFrom = "full")
        /\ UNCHANGED <<NextRequest, state>>
    BY <1>7 DEF Submit, fileVars
  <2>2. QED  BY <1>0, <2>1 DEF FileInHand, Issuing
<1>8. CASE \/ \E b \in Buffers : AcquireBuffer(b)
           \/ \E f \in Files : UnregisterFile(f)
           \/ FlushOverflow \/ WaitEnter
  <2>1. pc' = pc /\ pc \notin {"alloc", "issue", "enter"}
    BY <1>8 DEF AcquireBuffer, UnregisterFile, FlushOverflow, WaitEnter
  <2>2. QED  BY <2>1 DEF FileInHand, Issuing
<1>9. CASE \/ StartRequests \/ EnterRequestLoop \/ NoNextRequest \/ NotifyDispatcher
           \/ NothingToWaitFor \/ NotifyAndProcess \/ LoopOrReturn \/ ServiceWait
           \/ ReapBatch \/ WaitCqe
  <2>1. pc' \notin {"alloc", "issue", "enter"}
    BY <1>9 DEF StartRequests, EnterRequestLoop, NoNextRequest, NotifyDispatcher,
                NothingToWaitFor, NotifyAndProcess, LoopOrReturn, ServiceWait,
                ReapBatch, WaitCqe
  <2>2. QED  BY <2>1 DEF FileInHand, Issuing
<1>10. CASE FlushBatch
  BY <1>10 DEF FlushBatch, FileInHand, Issuing
<1>11. CASE NothingReady \/ NotifyAndAdvance
  <2>1. pc' \notin {"alloc", "issue", "enter"}
    BY <1>11 DEF NothingReady, NotifyAndAdvance, AfterProcess, IInv, TypeOK
  <2>2. QED  BY <2>1 DEF FileInHand, Issuing
<1>12. ASSUME NEW r \in Requests,
              \/ PopRequest(r) \/ OpenFails(r) \/ OutOfRegisteredFiles(r)
              \/ OnRequestComplete(r) \/ IssueRequest(r)
       PROVE  FileInHand'
  <2>1. pc' \notin {"alloc", "issue", "enter"}
    BY <1>12 DEF PopRequest, OpenFails, OutOfRegisteredFiles, OnRequestComplete,
                 IssueRequest
  <2>2. QED  BY <2>1 DEF FileInHand, Issuing
<1>13. ASSUME NEW r \in Requests, SubmitRequest(r) PROVE FileInHand'
  <2>1. \/ pc' = "process"
        \/ pc' = "enter" /\ submitFrom' = "request"
    BY <1>13 DEF SubmitRequest
  <2>2. QED  BY <2>1 DEF FileInHand, Issuing
<1>14. QED
  BY <1>1, <1>2, <1>3, <1>4, <1>5, <1>6, <1>7, <1>8, <1>9, <1>10, <1>11, <1>12, <1>13
     DEF Next, Service

\* The slot RegisterFile takes holds no file.
LEMMA LastIsFree ==
    ASSUME IInv, FreeRegisteredFiles # <<>>
    PROVE  ktable[Last(FreeRegisteredFiles)] = None
<1>1. FreeRegisteredFiles \in Seq(Slots)
  BY DEF IInv, TypeOK
<1>2. Last(FreeRegisteredFiles) \in Slots
  BY <1>1, FrontLastProperties
<1>3. Last(FreeRegisteredFiles) \in ToSet(FreeRegisteredFiles)
  BY <1>1, FrontLastProperties, LenProperties DEF Last, ToSet
<1>4. QED  BY <1>2, <1>3 DEF IInv, FileTableConsistent

\* A slot is filled only when free and emptied only when nothing is outstanding,
\* so what a queued entry names stays what it was.
LEMMA ReadsOwnFileStep ==
    ASSUME IInv, Next
    PROVE  ReadsOwnFile'
<1> USE Constants
<1>0. /\ sq \in Seq(Sqe) /\ inflight \in Seq(Op)
      /\ Len(sq) \in Nat /\ Len(inflight) \in Nat
      /\ DOMAIN sq = 1 .. Len(sq) /\ DOMAIN inflight = 1 .. Len(inflight)
      /\ \A i \in 1 .. Len(sq) : /\ sq[i].req \in Requests /\ sq[i].fd \in Slots
                                 /\ ktable[sq[i].fd] = FileOf[sq[i].req]
      /\ \A i \in 1 .. Len(inflight) : inflight[i].file = FileOf[inflight[i].req]
  <2>1. /\ sq \in Seq(Sqe) /\ inflight \in Seq(Op)
        /\ Len(sq) \in Nat /\ Len(inflight) \in Nat
        /\ DOMAIN sq = 1 .. Len(sq) /\ DOMAIN inflight = 1 .. Len(inflight)
    BY LenProperties DEF IInv, TypeOK
  <2>2. \A i \in 1 .. Len(sq) : sq[i] \in Sqe
    BY <2>1, ElementOfSeq
  <2>3. QED  BY <2>1, <2>2 DEF IInv, ReadsOwnFile, Sqe
<1>1. ASSUME UNCHANGED <<sq, inflight, ktable>> PROVE ReadsOwnFile'
  BY <1>1 DEF IInv, ReadsOwnFile
<1>2. CASE \/ Engine \/ ServiceControl
  <2>1. UNCHANGED ringVars
    BY <1>2, OutsideRing DEF IInv
  <2>2. UNCHANGED ktable
    <3>1. CASE Engine
      BY <3>1 DEF Engine, OpenContainer, CloseContainer, ServiceNotify, PushRequest,
                  CancelRequest, ReleaseRequest, GetCompletedRequests, fileVars
    <3>2. CASE ServiceControl
      BY <3>2, ControlFrame DEF fileVars
    <3>3. QED  BY <1>2, <3>1, <3>2
  <2>3. QED  BY <1>1, <2>1, <2>2 DEF ringVars
<1>3. ASSUME NEW f \in Files, UnregisterFile(f) PROVE ReadsOwnFile'
  <2>1. NumPendingCompletions <= 0
    BY <1>3 DEF UnregisterFile, IInv, NothingPending
  <2>2. sq = <<>> /\ inflight = <<>>
    BY <2>1, NothingPendingMeansEmpty DEF IInv
  <2>3. UNCHANGED <<sq, inflight>>
    BY <1>3 DEF UnregisterFile, ringVars
  <2>4. DOMAIN sq' = {} /\ DOMAIN inflight' = {}
    BY <2>2, <2>3
  <2>5. QED  BY <2>4 DEF ReadsOwnFile
<1>4. ASSUME NEW r \in Requests, RegisterFile(r) PROVE ReadsOwnFile'
  <2>1. /\ FreeRegisteredFiles # <<>>
        /\ ktable' = [ktable EXCEPT ![Last(FreeRegisteredFiles)] = FileOf[r]]
        /\ UNCHANGED <<sq, inflight>>
    BY <1>4 DEF RegisterFile, FilesUpdate, ringVars
  <2>2. ktable[Last(FreeRegisteredFiles)] = None
    BY <2>1, LastIsFree
  <2>3. \A i \in 1 .. Len(sq) : sq[i].fd # Last(FreeRegisteredFiles)
    BY <1>0, <2>2
  <2>4. \A i \in 1 .. Len(sq) : ktable'[sq[i].fd] = FileOf[sq[i].req]
    BY <1>0, <2>1, <2>3 DEF IInv, TypeOK
  <2>5. QED  BY <1>0, <2>1, <2>4 DEF ReadsOwnFile
<1>5. ASSUME NEW r \in Requests, IssueRequest(r) PROVE ReadsOwnFile'
  <2> DEFINE sqe == [req |-> r, fd |-> fixedFd[FileOf[r]], buf |-> buffer[r]]
  <2>1. /\ sq' = Append(sq, sqe) /\ UNCHANGED <<inflight, ktable>>
        /\ pc = "issue" /\ NextRequest = r
    BY <1>5 DEF IssueRequest, fileVars
  <2>2. state[FileOf[r]] = "Fixed"
    BY <2>1 DEF IInv, FileInHand, Issuing
  <2>3. fixedFd[FileOf[r]] \in Slots /\ ktable[fixedFd[FileOf[r]]] = FileOf[r]
    BY <2>2 DEF IInv, FileTableConsistent
  <2>4. sqe \in Sqe /\ ktable[sqe.fd] = FileOf[sqe.req]
    BY <2>3 DEF IInv, TypeOK, Sqe
  <2> HIDE DEF sqe
  <2>5. /\ DOMAIN sq' = 1 .. Len(sq) + 1 /\ sq'[Len(sq) + 1] = sqe
        /\ \A i \in 1 .. Len(sq) : sq'[i] = sq[i]
    BY <1>0, <2>1, <2>4, AppendProperties
  <2>6. \A i \in 1 .. Len(sq) + 1 : i \in 1 .. Len(sq) \/ i = Len(sq) + 1
    BY <1>0
  <2>7. \A i \in DOMAIN sq' : ktable[sq'[i].fd] = FileOf[sq'[i].req]
    BY <1>0, <2>4, <2>5, <2>6
  <2>8. QED  BY <1>0, <2>1, <2>7 DEF ReadsOwnFile
<1>6. ASSUME NEW n \in Consumed, Submit(n) PROVE ReadsOwnFile'
  <2>1. /\ n \in 0 .. Len(sq)
        /\ sq' \in Seq(Sqe) /\ Len(sq') = Len(sq) - n
        /\ \A i \in 1 .. Len(sq) - n : sq'[i] = sq[n + i]
        /\ inflight' \in Seq(Op) /\ Len(inflight') = Len(inflight) + n
        /\ \A i \in 1 .. Len(inflight) : inflight'[i] = inflight[i]
        /\ \A i \in 1 .. n : inflight'[Len(inflight) + i] = Resolve(sq[i])
    BY <1>6, SubmitProperties DEF IInv
  <2>2. ktable' = ktable
    BY <1>6 DEF Submit, fileVars
  <2>3. /\ DOMAIN sq' = 1 .. Len(sq) - n
        /\ DOMAIN inflight' = 1 .. Len(inflight) + n
    BY <2>1, LenProperties
  <2>4. \A i \in 1 .. Len(sq) - n : n + i \in 1 .. Len(sq)
    BY <1>0, <2>1
  <2>5. ASSUME NEW i \in DOMAIN sq' PROVE ktable[sq'[i].fd] = FileOf[sq'[i].req]
    <3>1. n + i \in 1 .. Len(sq) /\ sq'[i] = sq[n + i]
      BY <2>1, <2>3, <2>4
    <3>2. QED  BY <1>0, <3>1
  <2>6. ASSUME NEW i \in 1 .. Len(inflight) + n
        PROVE  inflight'[i].file = FileOf[inflight'[i].req]
    <3>1. CASE i \in 1 .. Len(inflight)
      BY <1>0, <2>1, <3>1
    <3>2. CASE i \notin 1 .. Len(inflight)
      <4>1. /\ i - Len(inflight) \in 1 .. n
            /\ i = Len(inflight) + (i - Len(inflight))
        BY <1>0, <2>1, <3>2
      <4>2. i - Len(inflight) \in 1 .. Len(sq)
        BY <1>0, <2>1, <4>1
      <4>3. inflight'[i] = Resolve(sq[i - Len(inflight)])
        BY <2>1, <4>1
      <4>4. QED  BY <1>0, <4>2, <4>3 DEF Resolve
    <3>3. QED  BY <3>1, <3>2
  <2>7. QED  BY <2>2, <2>3, <2>5, <2>6 DEF ReadsOwnFile
<1>7. CASE FlushOverflow \/ ReapBatch \/ NotifyAndAdvance \/ WaitEnter \/ WaitCqe
  <2>1. UNCHANGED <<sq, inflight, ktable>>
    BY <1>7 DEF FlushOverflow, ReapBatch, NotifyAndAdvance, WaitEnter, WaitCqe,
                fileVars, ringVars
  <2>2. QED  BY <1>1, <2>1
<1>8. CASE Kernel
  <2>1. PICK i \in DOMAIN inflight, ok \in BOOLEAN : Complete(i, ok)
    BY <1>8 DEF Kernel
  <2>2. inflight' = RemoveAt(inflight, i) /\ UNCHANGED <<sq, ktable>>
    BY <2>1 DEF Complete, fileVars
  <2>3. /\ inflight' \in Seq(Op) /\ Len(inflight') = Len(inflight) - 1
        /\ \A j \in 1 .. Len(inflight) - 1 :
              inflight'[j] = IF j < i THEN inflight[j] ELSE inflight[j + 1]
    <3>1. i \in 1 .. Len(inflight)
      BY <1>0
    <3>2. QED  BY <1>0, <2>2, <3>1, RemoveAtProperties
  <2>4. DOMAIN inflight' = 1 .. Len(inflight) - 1
    BY <2>3, LenProperties
  <2>5. \A j \in 1 .. Len(inflight) - 1 :
            j \in 1 .. Len(inflight) /\ j + 1 \in 1 .. Len(inflight)
    BY <1>0
  <2>6. ASSUME NEW j \in DOMAIN inflight'
        PROVE  inflight'[j].file = FileOf[inflight'[j].req]
    <3>1. j \in 1 .. Len(inflight) /\ j + 1 \in 1 .. Len(inflight)
      BY <2>4, <2>5
    <3>2. inflight'[j] = inflight[j] \/ inflight'[j] = inflight[j + 1]
      BY <2>3, <2>4
    <3>3. QED  BY <1>0, <3>1, <3>2
  <2>7. QED  BY <1>0, <2>2, <2>6 DEF ReadsOwnFile
<1>9. QED
  BY <1>2, <1>3, <1>4, <1>5, <1>6, <1>7, <1>8 DEF Next, Service, ServiceControl

-----------------------------------------------------------------------------
(* The theorems                                                              *)

LEMMA InitInvariant == Init => IInv
<1> SUFFICES ASSUME Init PROVE IInv
  OBVIOUS
<1> USE Constants
<1> DEFINE free == [i \in 1 .. MaxFixedFiles |-> MaxFixedFiles - i]
<1>1. FreeRegisteredFiles = free
  BY DEF Init
<1>2. /\ free \in Seq(Slots) /\ DOMAIN free = 1 .. MaxFixedFiles
      /\ \A i \in 1 .. MaxFixedFiles : free[i] = MaxFixedFiles - i
  <2>1. \A i \in 1 .. MaxFixedFiles : MaxFixedFiles - i \in Slots
    OBVIOUS
  <2>2. QED  BY <2>1
<1> HIDE DEF free
<1>3. \A s \in Slots : s \in ToSet(free)
  <2>1. \A s \in Slots : MaxFixedFiles - s \in 1 .. MaxFixedFiles
                         /\ MaxFixedFiles - (MaxFixedFiles - s) = s
    OBVIOUS
  <2>2. \A s \in Slots : free[MaxFixedFiles - s] = s
    BY <1>2, <2>1
  <2>3. QED  BY <1>2, <2>1, <2>2 DEF ToSet
<1>4. FileTableConsistent
  <2>1. \A i, j \in DOMAIN free : free[i] = free[j] => i = j
    BY <1>2
  <2>2. /\ \A f \in Files : state[f] = "Deleted"
        /\ \A s \in Slots : ktable[s] = None
    BY DEF Init
  <2>3. QED  BY <1>1, <1>3, <2>1, <2>2 DEF FileTableConsistent
<1>5. TypeOK
  <2>1. FreeRegisteredFiles \in Seq(Slots)
    BY <1>1, <1>2
  <2>2. /\ FilesToUnregister \in Seq(Files)
        /\ PendingSubmits \in Seq(Requests) /\ CompletedRequests \in Seq(Requests)
        /\ sq \in Seq(Sqe) /\ inflight \in Seq(Op)
        /\ deferred \in Seq(Cqe) /\ cq \in Seq(Cqe) /\ overflow \in Seq(Cqe)
    BY EmptySeq DEF Init
  <2>3. /\ buffer \in [Requests -> Buffers \cup {None}]
        /\ content \in [Buffers -> Requests \cup {None}]
        /\ state \in [Files -> {"Deleted", "Closed", "Fixed"}]
        /\ fixedFd \in [Files -> Slots \cup {-1}]
        /\ ktable \in [Slots -> Files \cup {None}]
    BY DEF Init
  <2>4. /\ idle \subseteq Requests /\ queue \subseteq Requests
        /\ delivered \subseteq Requests /\ freeBuffers \subseteq Buffers
        /\ bCancelled \subseteq Requests /\ bFailed \subseteq Requests
        /\ containers \subseteq Files
        /\ toNotify \subseteq {"io", "mount"} /\ wakeDispatcher \in BOOLEAN
        /\ NextRequest = None /\ AcquiredBuffer = None
        /\ NumPendingCompletions = 0 /\ ready = 0 /\ event \in BOOLEAN
        /\ pc = "start" /\ submitFrom = "request" /\ processFrom = "request"
    BY DEF Init
  <2>5. QED  BY <2>1, <2>2, <2>3, <2>4 DEF TypeOK
<1>6. RingBounds /\ PendingAccounting /\ NothingPending
  <2>1. /\ Len(sq) = 0 /\ Len(inflight) = 0 /\ Len(deferred) = 0 /\ Len(cq) = 0
        /\ Len(overflow) = 0 /\ ready = 0 /\ NumPendingCompletions = 0
    BY DEF Init
  <2>2. QED
    BY <2>1 DEF RingBounds, PendingAccounting, NothingPending, Outstanding
<1>7. RequestInHand /\ FileInHand /\ BatchDone
  BY DEF Init, RequestInHand, FileInHand, BatchDone, Issuing
<1>8. ReadsOwnFile
  BY DEF Init, ReadsOwnFile
<1>9. QED
  BY <1>4, <1>5, <1>6, <1>7, <1>8 DEF IInv

LEMMA TypeStep == IInv /\ Next => TypeOK'
<1> SUFFICES ASSUME IInv, Next PROVE TypeOK'
  OBVIOUS
<1>1. CASE Engine
  BY <1>1, EngineTypeStep DEF IInv
<1>2. CASE Kernel
  BY <1>2, KernelTypeStep DEF IInv
<1>3. CASE ServiceControl
  BY <1>3, ControlTypeStep DEF IInv
<1>4. CASE \/ \E f \in Files : UnregisterFile(f)
           \/ \E r \in Requests : RegisterFile(r)
  BY <1>4, FilesTypeStep DEF IInv
<1>5. CASE \/ \E r \in Requests : IssueRequest(r)
           \/ \E n \in Consumed : Submit(n)
           \/ FlushOverflow \/ ReapBatch \/ NotifyAndAdvance \/ WaitEnter \/ WaitCqe
  BY <1>5, RingTypeStep DEF IInv
<1>6. QED
  BY <1>1, <1>2, <1>3, <1>4, <1>5 DEF Next, Service, ServiceControl

LEMMA InductiveStep == IInv /\ [Next]_vars => IInv'
<1>1. ASSUME IInv, Next PROVE IInv'
  BY <1>1, TypeStep, AccountingStep, ControlStep, FileInHandStep, FileTableStep,
     ReadsOwnFileStep DEF IInv
<1>2. ASSUME IInv, UNCHANGED vars PROVE IInv'
  <2>1. TypeOK'
    BY <1>2 DEF IInv, TypeOK, vars, engineVars, fileVars, callVars, ringVars
  <2>2. RingBounds' /\ PendingAccounting' /\ NothingPending'
    BY <1>2 DEF IInv, RingBounds, PendingAccounting, Outstanding, NothingPending, vars,
                ringVars
  <2>3. RequestInHand' /\ FileInHand' /\ BatchDone'
    BY <1>2 DEF IInv, RequestInHand, FileInHand, BatchDone, Issuing, vars, fileVars,
                callVars
  <2>4. FileTableConsistent'
    BY <1>2 DEF IInv, FileTableConsistent, vars, fileVars
  <2>5. ReadsOwnFile'
    BY <1>2 DEF IInv, ReadsOwnFile, vars, fileVars, ringVars
  <2>6. QED  BY <2>1, <2>2, <2>3, <2>4, <2>5 DEF IInv
<1>3. QED  BY <1>1, <1>2

\* Every reachable state of the dispatcher satisfies the inductive invariant.
THEOREM Inductive == Spec => []IInv
<1>1. QED  BY InitInvariant, InductiveStep, PTL DEF Spec

\* Every variable keeps its type, for any requests, files, buffers and sizes:
\* in particular a submission entry always names a slot of the file table, never
\* the -1 of a file that is not registered (PrepareRequestNormal, RegisterFile).
THEOREM TypeCorrect == Spec => []TypeOK
<1>1. IInv => TypeOK
  BY DEF IInv
<1>2. QED  BY <1>1, Inductive, PTL

\* NumPendingCompletions, a plain counter of the service thread, equals the number
\* of reads in the ring and the kernel at every step, whatever the ring sizes, the
\* kernel's short submissions, its overflow list and its deferred task work.
THEOREM Accounting == Spec => []PendingAccounting
<1>1. IInv => PendingAccounting
  BY DEF IInv
<1>2. QED  BY <1>1, Inductive, PTL

\* Whenever StartRequests has returned, and while it unregisters files, nothing is
\* in the ring or the kernel: the loop on NumPendingCompletions is a full drain.
THEOREM Drained == Spec => []DrainedWhenServiceReturns
<1>1. IInv => DrainedWhenServiceReturns
  <2> SUFFICES ASSUME IInv, pc \in {"wait", "start", "unregister"}
               PROVE  /\ sq = <<>> /\ inflight = <<>> /\ deferred = <<>>
                      /\ cq = <<>> /\ overflow = <<>>
                      /\ PendingSubmits = <<>> /\ NextRequest = None
    BY DEF DrainedWhenServiceReturns
  <2>1. NumPendingCompletions <= 0 /\ ready = 0
    BY DEF IInv, NothingPending, RingBounds
  <2>2. sq = <<>> /\ inflight = <<>> /\ deferred = <<>> /\ overflow = <<>> /\ Len(cq) = 0
    BY <2>1, NothingPendingMeansEmpty DEF IInv
  <2>3. cq = <<>>
    BY <2>2, EmptySeq DEF IInv, TypeOK
  <2>4. PendingSubmits = <<>> /\ NextRequest = None
    BY DEF IInv, BatchDone, RequestInHand, Issuing
  <2>5. QED  BY <2>2, <2>3, <2>4
<1>2. QED  BY <1>1, Inductive, PTL

\* Handles, kernel table and free stack agree, for any number of files and slots:
\* RegisterFile and UnregisterFile neither leak a slot nor hand one out twice.
THEOREM FileTable == Spec => []FileTableConsistent
<1>1. IInv => FileTableConsistent
  BY DEF IInv
<1>2. QED  BY <1>1, Inductive, PTL

\* Every submitted read is of the file it was asked for, although a container may
\* be closed, and its slot given to another, while reads are under way.
THEOREM ReadsTheRightFile == Spec => []ReadsOwnFile
<1>1. IInv => ReadsOwnFile
  BY DEF IInv
<1>2. QED  BY <1>1, Inductive, PTL

\* No step of any party changes a slot of the kernel's file table that a queued
\* entry names or whose file the kernel is reading.
THEOREM SlotsStable == Spec => SlotsStableUnderReads
<1> DEFINE Stable == \A s \in Slots : ktable'[s] # ktable[s] =>
                       /\ \A i \in DOMAIN sq : sq[i].fd # s
                       /\ \A i \in DOMAIN inflight :
                             inflight[i].file # ktable[s] \/ ktable[s] = None
<1>1. ASSUME IInv, Next PROVE Stable
  <2>1. ASSUME NEW f \in Files, UnregisterFile(f) PROVE Stable
    <3>1. NumPendingCompletions <= 0
      BY <1>1, <2>1 DEF UnregisterFile, IInv, NothingPending
    <3>2. sq = <<>> /\ inflight = <<>>
      BY <1>1, <3>1, NothingPendingMeansEmpty DEF IInv
    <3>3. DOMAIN sq = {} /\ DOMAIN inflight = {}
      BY <3>2
    <3>4. QED  BY <3>3
  <2>2. ASSUME NEW r \in Requests, RegisterFile(r) PROVE Stable
    <3>1. /\ FreeRegisteredFiles # <<>>
          /\ ktable' = [ktable EXCEPT ![Last(FreeRegisteredFiles)] = FileOf[r]]
      BY <2>2 DEF RegisterFile, FilesUpdate
    <3>2. \A s \in Slots : ktable'[s] # ktable[s] => s = Last(FreeRegisteredFiles)
      BY <1>1, <3>1 DEF IInv, TypeOK
    <3>3. ktable[Last(FreeRegisteredFiles)] = None
      BY <1>1, <3>1, LastIsFree
    <3>4. \A i \in DOMAIN sq : ktable[sq[i].fd] # None
      <4>1. DOMAIN sq = 1 .. Len(sq) /\ \A i \in 1 .. Len(sq) : sq[i] \in Sqe
        BY <1>1, LenProperties, ElementOfSeq DEF IInv, TypeOK
      <4>2. \A i \in DOMAIN sq : sq[i].req \in Requests
        BY <4>1 DEF Sqe
      <4>3. QED  BY <1>1, <4>2, Constants DEF IInv, ReadsOwnFile
    <3>5. QED  BY <3>2, <3>3, <3>4
  <2>3. CASE /\ ~ \E f \in Files : UnregisterFile(f)
             /\ ~ \E r \in Requests : RegisterFile(r)
    <3>1. ktable' = ktable
      BY <1>1, <2>3, FileFrame DEF OpenContainer, fileVars
    <3>2. QED  BY <3>1
  <2>4. QED  BY <2>1, <2>2, <2>3
<1>2. IInv /\ [Next]_vars => [Stable]_vars
  BY <1>1
<1>3. QED  BY <1>2, Inductive, PTL DEF Spec, SlotsStableUnderReads

-----------------------------------------------------------------------------
(* The second part: what becomes of a request.  Its proofs say where they    *)
(* need the sets of program counters and slots.                              *)

HIDE DEF SubmitCallers, ProcessCallers, PCs, Slots

-----------------------------------------------------------------------------
(* Counting the entries of one request                                       *)

WithReq(S, r) == {e \in S : e.req = r}

LEMMA TimesIsOccurrences ==
    ASSUME NEW S, NEW s \in Seq(S), NEW r
    PROVE  Times(r, s) = Occurrences(s, WithReq(S, r))
<1>1. DOMAIN s = 1 .. Len(s) /\ \A i \in 1 .. Len(s) : s[i] \in S
  BY LenProperties, ElementOfSeq
<1>2. {i \in DOMAIN s : s[i].req = r} = {i \in DOMAIN s : s[i] \in WithReq(S, r)}
  BY <1>1 DEF WithReq
<1>3. QED  BY <1>2 DEF Times, Occurrences

LEMMA TimesType ==
    ASSUME NEW S, NEW s \in Seq(S), NEW r
    PROVE  /\ Times(r, s) \in Nat
           /\ Times(r, s) = 0 <=> \A i \in DOMAIN s : s[i].req # r
<1>1. DOMAIN s = 1 .. Len(s) /\ \A i \in 1 .. Len(s) : s[i] \in S
  BY LenProperties, ElementOfSeq
<1>2. \A i \in DOMAIN s : s[i] \notin WithReq(S, r) <=> s[i].req # r
  BY <1>1 DEF WithReq
<1>3. /\ Occurrences(s, WithReq(S, r)) \in Nat
      /\ Occurrences(s, WithReq(S, r)) = 0 <=> \A i \in DOMAIN s : s[i] \notin WithReq(S, r)
  BY OccurrencesType
<1>4. QED  BY <1>2, <1>3, TimesIsOccurrences

LEMMA TimesEmpty ==
    ASSUME NEW r
    PROVE  Times(r, <<>>) = 0
<1>1. {i \in DOMAIN <<>> : <<>>[i].req = r} = {}
  OBVIOUS
<1>2. QED  BY <1>1, FS_EmptySet DEF Times

LEMMA TimesConcat ==
    ASSUME NEW S, NEW s \in Seq(S), NEW t \in Seq(S), NEW r
    PROVE  Times(r, s \o t) = Times(r, s) + Times(r, t)
<1>1. s \o t \in Seq(S)
  BY ConcatProperties
<1>2. Occurrences(s \o t, WithReq(S, r)) =
        Occurrences(s, WithReq(S, r)) + Occurrences(t, WithReq(S, r))
  BY OccurrencesConcat
<1>3. /\ Times(r, s) = Occurrences(s, WithReq(S, r))
      /\ Times(r, t) = Occurrences(t, WithReq(S, r))
  BY TimesIsOccurrences
<1>4. Times(r, s \o t) = Occurrences(s \o t, WithReq(S, r))
  BY <1>1, TimesIsOccurrences
<1>5. QED  BY <1>2, <1>3, <1>4

LEMMA TimesAppend ==
    ASSUME NEW S, NEW s \in Seq(S), NEW e \in S, NEW r
    PROVE  Times(r, Append(s, e)) = Times(r, s) + Bit(e.req = r)
<1>1. Append(s, e) \in Seq(S)
  BY AppendProperties
<1>2. Occurrences(Append(s, e), WithReq(S, r)) =
        Occurrences(s, WithReq(S, r)) + (IF e \in WithReq(S, r) THEN 1 ELSE 0)
  BY OccurrencesAppend
<1>3. Times(r, s) = Occurrences(s, WithReq(S, r))
  BY TimesIsOccurrences
<1>4. Times(r, Append(s, e)) = Occurrences(Append(s, e), WithReq(S, r))
  BY <1>1, TimesIsOccurrences
<1>5. e \in WithReq(S, r) <=> e.req = r
  BY DEF WithReq
<1>6. QED  BY <1>2, <1>3, <1>4, <1>5 DEF Bit

LEMMA TimesSplit ==
    ASSUME NEW S, NEW s \in Seq(S), NEW n \in 0 .. Len(s), NEW r
    PROVE  Times(r, s) = Times(r, SubSeq(s, 1, n)) + Times(r, SubSeq(s, n + 1, Len(s)))
<1>1. SubSeq(s, 1, n) \in Seq(S) /\ SubSeq(s, n + 1, Len(s)) \in Seq(S)
  BY TakeProperties, DropProperties
<1>2. Occurrences(s, WithReq(S, r)) =
        Occurrences(SubSeq(s, 1, n), WithReq(S, r))
          + Occurrences(SubSeq(s, n + 1, Len(s)), WithReq(S, r))
  BY OccurrencesSplit
<1>3. Times(r, s) = Occurrences(s, WithReq(S, r))
  BY TimesIsOccurrences
<1>4. Times(r, SubSeq(s, 1, n)) = Occurrences(SubSeq(s, 1, n), WithReq(S, r))
  BY <1>1, TimesIsOccurrences
<1>5. Times(r, SubSeq(s, n + 1, Len(s))) =
        Occurrences(SubSeq(s, n + 1, Len(s)), WithReq(S, r))
  BY <1>1, TimesIsOccurrences
<1>6. QED  BY <1>2, <1>3, <1>4, <1>5

LEMMA TimesRemoveAt ==
    ASSUME NEW S, NEW s \in Seq(S), NEW i \in 1 .. Len(s), NEW r
    PROVE  Times(r, s) = Times(r, RemoveAt(s, i)) + Bit(s[i].req = r)
<1>1. RemoveAt(s, i) \in Seq(S) /\ s[i] \in S
  BY RemoveAtProperties, ElementOfSeq
<1>2. Occurrences(s, WithReq(S, r)) =
        Occurrences(RemoveAt(s, i), WithReq(S, r)) + (IF s[i] \in WithReq(S, r) THEN 1 ELSE 0)
  BY OccurrencesRemoveAt
<1>3. Times(r, s) = Occurrences(s, WithReq(S, r))
  BY TimesIsOccurrences
<1>4. Times(r, RemoveAt(s, i)) = Occurrences(RemoveAt(s, i), WithReq(S, r))
  BY <1>1, TimesIsOccurrences
<1>5. s[i] \in WithReq(S, r) <=> s[i].req = r
  BY <1>1 DEF WithReq
<1>6. QED  BY <1>2, <1>3, <1>4, <1>5 DEF Bit

LEMMA TimesTail ==
    ASSUME NEW S, NEW s \in Seq(S), s # <<>>, NEW r
    PROVE  Times(r, s) = Times(r, Tail(s)) + Bit(Head(s).req = r)
<1>1. Tail(s) \in Seq(S) /\ Head(s) \in S
  BY HeadTailProperties
<1>2. Occurrences(s, WithReq(S, r)) =
        Occurrences(Tail(s), WithReq(S, r)) + (IF Head(s) \in WithReq(S, r) THEN 1 ELSE 0)
  BY OccurrencesTail
<1>3. Times(r, s) = Occurrences(s, WithReq(S, r))
  BY TimesIsOccurrences
<1>4. Times(r, Tail(s)) = Occurrences(Tail(s), WithReq(S, r))
  BY <1>1, TimesIsOccurrences
<1>5. Head(s) \in WithReq(S, r) <=> Head(s).req = r
  BY <1>1 DEF WithReq
<1>6. QED  BY <1>2, <1>3, <1>4, <1>5 DEF Bit

\* Entries of different kinds for the same requests.
LEMMA TimesSame ==
    ASSUME NEW s, NEW t, NEW r, DOMAIN s = DOMAIN t, \A i \in DOMAIN s : s[i].req = t[i].req
    PROVE  Times(r, s) = Times(r, t)
<1>1. {i \in DOMAIN s : s[i].req = r} = {i \in DOMAIN t : t[i].req = r}
  OBVIOUS
<1>2. QED  BY <1>1 DEF Times

\* A sequence without none of its elements.
LEMMA TimesWhole ==
    ASSUME NEW S, NEW s \in Seq(S), NEW r
    PROVE  Times(r, SubSeq(s, 0 + 1, Len(s))) = Times(r, s)
<1>1. Len(s) \in Nat /\ 0 \in 0 .. Len(s)
  BY LenProperties
<1>2. SubSeq(s, 1, 0) \in Seq(S) /\ Len(SubSeq(s, 1, 0)) = 0
  BY <1>1, TakeProperties
<1>3. Times(r, SubSeq(s, 1, 0)) = 0
  <2>1. DOMAIN SubSeq(s, 1, 0) = {}
    BY <1>2, LenProperties
  <2>2. {i \in DOMAIN SubSeq(s, 1, 0) : SubSeq(s, 1, 0)[i].req = r} = {}
    BY <2>1
  <2>3. QED  BY <2>2, FS_EmptySet DEF Times
<1>4. Times(r, s) = Times(r, SubSeq(s, 1, 0)) + Times(r, SubSeq(s, 0 + 1, Len(s)))
  BY <1>1, TimesSplit
<1>5. SubSeq(s, 0 + 1, Len(s)) \in Seq(S)
  BY <1>1, DropProperties
<1>6. Times(r, SubSeq(s, 0 + 1, Len(s))) \in Nat
  BY <1>5, TimesType
<1>7. QED  BY <1>3, <1>4, <1>6

-----------------------------------------------------------------------------
(* The places a request can be in                                            *)

EngineHas(r) == Bit(r \in idle) + Bit(r \in queue) + Bit(r \in delivered)
ServiceHas(r) == Bit(r = NextRequest /\ pc # "submit")
RingHas(r) ==
    Times(r, sq) + Times(r, inflight) + Times(r, deferred) + Times(r, overflow)
      + Times(r, Unreaped)
CompletedHas(r) == Cardinality({i \in DOMAIN CompletedRequests : CompletedRequests[i] = r})

LEMMA PlacesTypes ==
    ASSUME TypeOK, RingBounds, NEW r \in Requests
    PROVE  /\ Unreaped \in Seq(Cqe)
           /\ Times(r, sq) \in Nat /\ Times(r, inflight) \in Nat
           /\ Times(r, deferred) \in Nat /\ Times(r, overflow) \in Nat
           /\ Times(r, Unreaped) \in Nat
           /\ EngineHas(r) \in Nat /\ ServiceHas(r) \in {0, 1} /\ RingHas(r) \in Nat
           /\ CompletedHas(r) = Occurrences(CompletedRequests, {r})
           /\ CompletedHas(r) \in Nat
           /\ CompletedHas(r) = 0 <=> r \notin ToSet(CompletedRequests)
<1>1. ready \in 0 .. Len(cq)
  BY LenProperties DEF TypeOK, RingBounds
<1>2. Unreaped \in Seq(Cqe)
  BY <1>1, DropProperties DEF TypeOK, Unreaped
<1>3. /\ Times(r, sq) \in Nat /\ Times(r, inflight) \in Nat
      /\ Times(r, deferred) \in Nat /\ Times(r, overflow) \in Nat
  BY TimesType DEF TypeOK
<1>4. Times(r, Unreaped) \in Nat
  BY <1>2, TimesType
<1>5. RingHas(r) \in Nat
  BY <1>3, <1>4 DEF RingHas
<1>6. EngineHas(r) \in Nat /\ ServiceHas(r) \in {0, 1}
  BY DEF EngineHas, ServiceHas, Bit
<1>7. CompletedHas(r) = Occurrences(CompletedRequests, {r})
  <2>1. {i \in DOMAIN CompletedRequests : CompletedRequests[i] = r} =
            {i \in DOMAIN CompletedRequests : CompletedRequests[i] \in {r}}
    OBVIOUS
  <2>2. QED  BY <2>1 DEF CompletedHas, Occurrences
<1>8. /\ Occurrences(CompletedRequests, {r}) \in Nat
      /\ Occurrences(CompletedRequests, {r}) = 0
           <=> \A i \in DOMAIN CompletedRequests : CompletedRequests[i] \notin {r}
  BY OccurrencesType DEF TypeOK
<1>9. r \in ToSet(CompletedRequests) <=> \E i \in DOMAIN CompletedRequests :
                                             CompletedRequests[i] = r
  BY DEF ToSet
<1>10. QED  BY <1>2, <1>3, <1>4, <1>5, <1>6, <1>7, <1>8, <1>9

LEMMA PartsAreNat ==
    ASSUME IInv, NEW r \in Requests
    PROVE  /\ EngineHas(r) \in Nat /\ ServiceHas(r) \in Nat /\ RingHas(r) \in Nat
           /\ CompletedHas(r) \in Nat
           /\ CompletedHas(r) = 0 <=> r \notin ToSet(CompletedRequests)
<1>1. TypeOK /\ RingBounds
  BY DEF IInv
<1>2. {0, 1} \subseteq Nat
  OBVIOUS
<1>3. QED  BY <1>1, <1>2, PlacesTypes

InOnePlace(r) == EngineHas(r) + ServiceHas(r) + RingHas(r) + CompletedHas(r) = 1

LEMMA OnePlaceByParts ==
    ASSUME TypeOK, RingBounds
    PROVE  OnePlace <=> \A r \in Requests : InOnePlace(r)
<1> SUFFICES ASSUME NEW r \in Requests
             PROVE  InOnePlace(r) <=>
                      Bit(r \in idle) + Bit(r \in queue) + Bit(r \in delivered)
                        + Bit(r = NextRequest /\ pc # "submit")
                        + Times(r, sq) + Times(r, inflight) + Times(r, deferred)
                        + Times(r, overflow) + Times(r, Unreaped)
                        + Cardinality({i \in DOMAIN CompletedRequests :
                                         CompletedRequests[i] = r}) = 1
  BY DEF OnePlace
<1>1. \A a, b, c, d, e, f, g, h, i, j \in Nat :
        (a + b + c) + d + (e + f + g + h + i) + j = a + b + c + d + e + f + g + h + i + j
  OBVIOUS
<1>2. /\ Bit(r \in idle) \in Nat /\ Bit(r \in queue) \in Nat /\ Bit(r \in delivered) \in Nat
      /\ Bit(r = NextRequest /\ pc # "submit") \in Nat
  BY DEF Bit
<1>3. /\ Times(r, sq) \in Nat /\ Times(r, inflight) \in Nat
      /\ Times(r, deferred) \in Nat /\ Times(r, overflow) \in Nat
      /\ Times(r, Unreaped) \in Nat /\ CompletedHas(r) \in Nat
  BY PlacesTypes
<1>4. QED
  BY <1>1, <1>2, <1>3 DEF InOnePlace, EngineHas, ServiceHas, RingHas, CompletedHas

-----------------------------------------------------------------------------
(* Steps inside the ring                                                     *)

\* Task work and the overflow list come to the queue.
LEMMA GetEventsKeeps ==
    ASSUME TypeOK, RingBounds, ready = 0, ready' = 0, GetEvents, NEW r
    PROVE  Times(r, deferred') + Times(r, overflow') + Times(r, Unreaped')
             = Times(r, deferred) + Times(r, overflow) + Times(r, Unreaped)
<1> DEFINE events == overflow \o deferred
           room == CqEntries - Len(cq)
           n == IF Len(events) < room THEN Len(events) ELSE room
<1>1. /\ cq \in Seq(Cqe) /\ overflow \in Seq(Cqe) /\ deferred \in Seq(Cqe)
      /\ Len(cq) \in Nat /\ Len(cq) <= CqEntries /\ CqEntries \in Nat
  BY LenProperties, Constants DEF TypeOK, RingBounds
<1>2. events \in Seq(Cqe) /\ Len(events) \in Nat
  <2>1. events \in Seq(Cqe)
    BY <1>1, ConcatProperties
  <2> HIDE DEF events
  <2>2. QED  BY <2>1, LenProperties
<1>3. Times(r, events) = Times(r, overflow) + Times(r, deferred)
  BY <1>1, TimesConcat
<1>4. /\ cq' = cq \o SubSeq(events, 1, n)
      /\ overflow' = SubSeq(events, n + 1, Len(events))
      /\ deferred' = <<>>
  BY DEF GetEvents, PostEvents
<1> HIDE DEF events
<1>5. n \in 0 .. Len(events)
  BY <1>1, <1>2
<1> HIDE DEF n
<1>6. Times(r, events) = Times(r, SubSeq(events, 1, n)) + Times(r, overflow')
  BY <1>2, <1>4, <1>5, TimesSplit
<1>7. SubSeq(events, 1, n) \in Seq(Cqe) /\ overflow' \in Seq(Cqe)
  BY <1>2, <1>4, <1>5, TakeProperties, DropProperties
<1>8. cq' \in Seq(Cqe)
  BY <1>1, <1>4, <1>7, ConcatProperties
<1>9. Times(r, cq') = Times(r, cq) + Times(r, SubSeq(events, 1, n))
  BY <1>1, <1>4, <1>7, TimesConcat
<1>10. Times(r, Unreaped) = Times(r, cq)
  BY <1>1, TimesWhole DEF Unreaped
<1>11. Times(r, Unreaped') = Times(r, cq')
  BY <1>8, TimesWhole DEF Unreaped
<1>12. Times(r, deferred') = 0
  BY <1>4, TimesEmpty
<1>13. /\ Times(r, cq) \in Nat /\ Times(r, overflow) \in Nat /\ Times(r, deferred) \in Nat
       /\ Times(r, overflow') \in Nat /\ Times(r, SubSeq(events, 1, n)) \in Nat
  BY <1>1, <1>7, TimesType
<1>14. QED  BY <1>3, <1>6, <1>9, <1>10, <1>11, <1>12, <1>13

\* io_uring_submit moves entries to the kernel.
LEMMA SubmitKeeps ==
    ASSUME TypeOK, NEW n \in Consumed, Submit(n), NEW r
    PROVE  Times(r, sq') + Times(r, inflight') = Times(r, sq) + Times(r, inflight)
<1> DEFINE taken == [i \in 1 .. n |-> Resolve(sq[i])]
           first == SubSeq(sq, 1, n)
<1>1. /\ sq \in Seq(Sqe) /\ inflight \in Seq(Op)
      /\ Len(sq) \in Nat /\ \A i \in 1 .. Len(sq) : sq[i] \in Sqe
  BY LenProperties, ElementOfSeq DEF TypeOK
<1>2. n \in 0 .. Len(sq)
  BY SubmitProperties
<1>3. \A e \in Sqe : Resolve(e) \in Op /\ Resolve(e).req = e.req
  BY DEF TypeOK, Resolve, Sqe, Op
<1>4. taken \in Seq(Op) /\ DOMAIN taken = 1 .. n /\ \A i \in 1 .. n : taken[i].req = sq[i].req
  BY <1>1, <1>2, <1>3
<1>5. sq' = SubSeq(sq, n + 1, Len(sq)) /\ inflight' = inflight \o taken
  BY DEF Submit
<1>6. first \in Seq(Sqe) /\ Len(first) = n /\ \A i \in 1 .. n : first[i] = sq[i]
  BY <1>1, <1>2, TakeProperties
<1>7. Times(r, sq) = Times(r, first) + Times(r, sq')
  BY <1>1, <1>2, <1>5, TimesSplit
<1> HIDE DEF taken, first
<1>8. DOMAIN first = 1 .. n
  BY <1>6, LenProperties
<1>9. Times(r, first) = Times(r, taken)
  BY <1>4, <1>6, <1>8, TimesSame
<1>10. Times(r, inflight') = Times(r, inflight) + Times(r, taken)
  BY <1>1, <1>4, <1>5, TimesConcat
<1>11. sq' \in Seq(Sqe)
  BY <1>1, <1>2, <1>5, DropProperties
<1>12. /\ Times(r, inflight) \in Nat /\ Times(r, taken) \in Nat
       /\ Times(r, sq') \in Nat
  BY <1>1, <1>4, <1>11, TimesType
<1>13. QED  BY <1>7, <1>9, <1>10, <1>12

\* The ring's part of a step: entries and completions move, or none does.
LEMMA RingKeeps ==
    ASSUME IInv, IInv', NEW r \in Requests,
           \/ \E n \in Consumed : Submit(n)
           \/ FlushOverflow \/ WaitEnter \/ NotifyAndAdvance
    PROVE  RingHas(r)' = RingHas(r)
<1>0. TypeOK /\ RingBounds /\ TypeOK' /\ RingBounds'
  BY DEF IInv
<1>1. /\ Times(r, sq) \in Nat /\ Times(r, inflight) \in Nat
      /\ Times(r, deferred) \in Nat /\ Times(r, overflow) \in Nat
      /\ Times(r, Unreaped) \in Nat
  BY <1>0, PlacesTypes
<1>2. /\ Times(r, sq)' \in Nat /\ Times(r, inflight)' \in Nat
      /\ Times(r, deferred)' \in Nat /\ Times(r, overflow)' \in Nat
      /\ Times(r, Unreaped)' \in Nat
  <2>1. ready' \in 0 .. Len(cq') /\ cq' \in Seq(Cqe)
    BY <1>0, LenProperties DEF TypeOK, RingBounds
  <2>2. Unreaped' \in Seq(Cqe)
    BY <2>1, DropProperties DEF Unreaped
  <2>3. Times(r, Unreaped') \in Nat
    BY <2>2, TimesType
  <2>4. /\ Times(r, sq') \in Nat /\ Times(r, inflight') \in Nat
        /\ Times(r, deferred') \in Nat /\ Times(r, overflow') \in Nat
    BY <1>0, TimesType DEF TypeOK
  <2>5. QED  BY <2>3, <2>4
<1>3. ASSUME NEW n \in Consumed, Submit(n) PROVE RingHas(r)' = RingHas(r)
  <2>1. Times(r, sq') + Times(r, inflight') = Times(r, sq) + Times(r, inflight)
    BY <1>0, <1>3, SubmitKeeps
  <2>2. ready = 0 /\ ready' = ready
    BY <1>0, <1>3 DEF Submit, RingBounds
  <2>3. Times(r, deferred') + Times(r, overflow') + Times(r, Unreaped')
          = Times(r, deferred) + Times(r, overflow) + Times(r, Unreaped)
    <3>1. CASE GetEvents
      BY <1>0, <2>2, <3>1, GetEventsKeeps
    <3>2. CASE UNCHANGED <<deferred, cq, overflow>>
      BY <2>2, <3>2 DEF Unreaped
    <3>3. QED  BY <1>3, <3>1, <3>2 DEF Submit
  <2>4. QED  BY <1>1, <1>2, <2>1, <2>3 DEF RingHas
<1>4. CASE FlushOverflow \/ WaitEnter
  <2>1. GetEvents /\ UNCHANGED <<sq, inflight, ready>> /\ pc # "reaped"
    BY <1>4 DEF FlushOverflow, WaitEnter
  <2>2. ready = 0
    BY <1>0, <2>1 DEF RingBounds
  <2>3. Times(r, deferred') + Times(r, overflow') + Times(r, Unreaped')
          = Times(r, deferred) + Times(r, overflow) + Times(r, Unreaped)
    BY <1>0, <2>1, <2>2, GetEventsKeeps
  <2>4. Times(r, sq') = Times(r, sq) /\ Times(r, inflight') = Times(r, inflight)
    BY <2>1
  <2>5. QED  BY <1>1, <1>2, <2>3, <2>4 DEF RingHas
<1>5. CASE NotifyAndAdvance
  <2>1. /\ UNCHANGED <<sq, inflight, deferred, overflow>>
        /\ ready' = 0 /\ cq' = Unreaped
    BY <1>5 DEF NotifyAndAdvance, Advanced, Unreaped
  <2>2. cq' \in Seq(Cqe)
    BY <1>0 DEF TypeOK
  <2>3. Times(r, Unreaped') = Times(r, cq')
    BY <2>1, <2>2, TimesWhole DEF Unreaped
  <2>4. QED  BY <2>1, <2>3 DEF RingHas
<1>6. QED  BY <1>3, <1>4, <1>5

\* A read completes: its request goes from the kernel's hands to a list of completions.
LEMMA CompleteKeeps ==
    ASSUME IInv, IInv', NEW i \in DOMAIN inflight, NEW ok \in BOOLEAN, Complete(i, ok),
           NEW r \in Requests
    PROVE  RingHas(r)' = RingHas(r)
<1> DEFINE cqe == [req |-> inflight[i].req, ok |-> ok]
           one == Bit(inflight[i].req = r)
<1>0. /\ sq \in Seq(Sqe) /\ inflight \in Seq(Op) /\ deferred \in Seq(Cqe)
      /\ overflow \in Seq(Cqe) /\ cq \in Seq(Cqe) /\ ready \in 0 .. Len(cq)
  BY LenProperties DEF IInv, TypeOK, RingBounds
<1>1. i \in 1 .. Len(inflight) /\ inflight[i] \in Op
  BY <1>0, LenProperties, ElementOfSeq
<1>2. cqe \in Cqe /\ (cqe.req = r <=> inflight[i].req = r)
  BY <1>1 DEF Op, Cqe
<1>3. /\ inflight' = RemoveAt(inflight, i) /\ UNCHANGED <<sq, ready>>
      /\ \/ deferred' = Append(deferred, cqe) /\ UNCHANGED <<cq, overflow>>
         \/ cq' = Append(cq, cqe) /\ UNCHANGED <<deferred, overflow>>
         \/ overflow' = Append(overflow, cqe) /\ UNCHANGED <<deferred, cq>>
  BY DEF Complete
<1>4. one \in Nat /\ Bit(cqe.req = r) = one
  BY <1>2 DEF Bit
<1> HIDE DEF cqe, one
<1>5. Times(r, inflight) = Times(r, inflight') + one
  BY <1>0, <1>1, <1>3, TimesRemoveAt DEF one
<1>6. inflight' \in Seq(Op)
  BY DEF IInv, TypeOK
<1>7. /\ Times(r, sq) \in Nat /\ Times(r, inflight') \in Nat
      /\ Times(r, deferred) \in Nat /\ Times(r, overflow) \in Nat
      /\ Times(r, cq) \in Nat
  BY <1>0, <1>6, TimesType
<1>8. Unreaped \in Seq(Cqe)
  BY <1>0, DropProperties DEF Unreaped
<1>9. Times(r, Unreaped) \in Nat
  BY <1>8, TimesType
<1>10. CASE deferred' = Append(deferred, cqe) /\ UNCHANGED <<cq, overflow>>
  <2>1. Times(r, deferred') = Times(r, deferred) + one
    BY <1>0, <1>2, <1>4, <1>10, TimesAppend
  <2>2. Times(r, overflow') = Times(r, overflow) /\ Times(r, Unreaped') = Times(r, Unreaped)
        /\ Times(r, sq') = Times(r, sq)
    BY <1>3, <1>10 DEF Unreaped
  <2>3. QED  BY <1>4, <1>5, <1>7, <1>9, <2>1, <2>2 DEF RingHas
<1>11. CASE cq' = Append(cq, cqe) /\ UNCHANGED <<deferred, overflow>>
  <2> DEFINE seen == SubSeq(cq, 1, ready)
             seenNext == SubSeq(cq', 1, ready)
  <2>1. Times(r, cq') = Times(r, cq) + one
    BY <1>0, <1>2, <1>4, <1>11, TimesAppend
  <2>2. /\ cq' \in Seq(Cqe) /\ Len(cq') = Len(cq) + 1
        /\ \A j \in 1 .. Len(cq) : cq'[j] = cq[j]
    BY <1>0, <1>2, <1>11, AppendProperties
  <2>3. ready \in 0 .. Len(cq') /\ \A j \in 1 .. ready : j \in 1 .. Len(cq)
    BY <1>0, <2>2, LenProperties
  <2>4. Times(r, cq) = Times(r, seen) + Times(r, Unreaped)
    BY <1>0, TimesSplit DEF Unreaped
  <2>5. Times(r, cq') = Times(r, seenNext) + Times(r, Unreaped')
    BY <1>3, <2>2, <2>3, TimesSplit DEF Unreaped
  <2>6. seen \in Seq(Cqe) /\ Len(seen) = ready /\ \A j \in 1 .. ready : seen[j] = cq[j]
    BY <1>0, TakeProperties
  <2>7. /\ seenNext \in Seq(Cqe) /\ Len(seenNext) = ready
        /\ \A j \in 1 .. ready : seenNext[j] = cq'[j]
    BY <2>2, <2>3, TakeProperties
  <2>8. Unreaped' \in Seq(Cqe)
    BY <1>3, <2>2, <2>3, DropProperties DEF Unreaped
  <2> HIDE DEF seen, seenNext
  <2>9. DOMAIN seen = 1 .. ready /\ DOMAIN seenNext = 1 .. ready
    BY <2>6, <2>7, LenProperties
  <2>10. \A j \in DOMAIN seen : seen[j].req = seenNext[j].req
    BY <2>2, <2>3, <2>6, <2>7, <2>9
  <2>11. Times(r, seen) = Times(r, seenNext)
    BY <2>9, <2>10, TimesSame
  <2>12. Times(r, seen) \in Nat /\ Times(r, Unreaped') \in Nat
    BY <2>6, <2>8, TimesType
  <2>13. Times(r, Unreaped') = Times(r, Unreaped) + one
    BY <1>4, <1>7, <1>9, <2>1, <2>4, <2>5, <2>11, <2>12
  <2>14. Times(r, overflow') = Times(r, overflow) /\ Times(r, deferred') = Times(r, deferred)
         /\ Times(r, sq') = Times(r, sq)
    BY <1>3, <1>11
  <2>15. QED  BY <1>4, <1>5, <1>7, <1>9, <2>13, <2>14 DEF RingHas
<1>12. CASE overflow' = Append(overflow, cqe) /\ UNCHANGED <<deferred, cq>>
  <2>1. Times(r, overflow') = Times(r, overflow) + one
    BY <1>0, <1>2, <1>4, <1>12, TimesAppend
  <2>2. Times(r, deferred') = Times(r, deferred) /\ Times(r, Unreaped') = Times(r, Unreaped)
        /\ Times(r, sq') = Times(r, sq)
    BY <1>3, <1>12 DEF Unreaped
  <2>3. QED  BY <1>4, <1>5, <1>7, <1>9, <2>1, <2>2 DEF RingHas
<1>13. QED  BY <1>3, <1>10, <1>11, <1>12

\* A run of completions is processed: its requests are in CompletedRequests.
LEMMA ProcessedAreCompleted ==
    ASSUME TypeOK, NEW cqes \in Seq(Cqe), ProcessCompletionEvents(cqes), NEW r \in Requests
    PROVE  CompletedHas(r)' = CompletedHas(r) + Times(r, cqes)
<1> DEFINE reqs == [j \in 1 .. Len(cqes) |-> cqes[j].req]
<1>1. DOMAIN cqes = 1 .. Len(cqes) /\ Len(cqes) \in Nat
      /\ \A j \in 1 .. Len(cqes) : cqes[j] \in Cqe
  BY LenProperties, ElementOfSeq
<1>2. reqs \in Seq(Requests)
  BY <1>1 DEF Cqe
<1>3. CompletedRequests' = CompletedRequests \o reqs /\ CompletedRequests \in Seq(Requests)
  BY DEF ProcessCompletionEvents, TypeOK
<1>4. Times(r, cqes) = Occurrences(reqs, {r})
  <2>1. {j \in DOMAIN cqes : cqes[j].req = r} = {j \in DOMAIN reqs : reqs[j] \in {r}}
    BY <1>1
  <2>2. QED  BY <2>1 DEF Times, Occurrences
<1> HIDE DEF reqs
<1>5. Occurrences(CompletedRequests', {r}) =
        Occurrences(CompletedRequests, {r}) + Occurrences(reqs, {r})
  BY <1>2, <1>3, OccurrencesConcat
<1>6. CompletedHas(r) = Occurrences(CompletedRequests, {r})
      /\ CompletedHas(r)' = Occurrences(CompletedRequests', {r})
  <2>1. \A s : {j \in DOMAIN s : s[j] = r} = {j \in DOMAIN s : s[j] \in {r}}
    OBVIOUS
  <2>2. QED  BY <2>1 DEF CompletedHas, Occurrences
<1>7. QED  BY <1>4, <1>5, <1>6

LEMMA ReapedAreCompleted ==
    ASSUME IInv, IInv', ReapBatch \/ WaitCqe, NEW r \in Requests
    PROVE  RingHas(r)' + CompletedHas(r)' = RingHas(r) + CompletedHas(r)
<1>0. /\ TypeOK /\ RingBounds /\ cq \in Seq(Cqe) /\ Len(cq) \in Nat /\ ready = 0
  BY LenProperties DEF IInv, TypeOK, RingBounds, ReapBatch, WaitCqe
<1>1. /\ Times(r, sq) \in Nat /\ Times(r, inflight) \in Nat
      /\ Times(r, deferred) \in Nat /\ Times(r, overflow) \in Nat
      /\ CompletedHas(r) \in Nat
  BY <1>0, PlacesTypes
<1>2. /\ Times(r, sq') = Times(r, sq) /\ Times(r, inflight') = Times(r, inflight)
      /\ Times(r, deferred') = Times(r, deferred) /\ Times(r, overflow') = Times(r, overflow)
  <2>1. UNCHANGED <<sq, inflight, deferred, overflow>>
    BY DEF ReapBatch, WaitCqe, ringVars
  <2>2. QED  BY <2>1
<1>3. Times(r, Unreaped) = Times(r, cq) /\ Times(r, cq) \in Nat
  BY <1>0, TimesWhole, TimesType DEF Unreaped
<1>4. CASE ReapBatch
  <2>1. ProcessCompletionEvents(cq) /\ ready' = Len(cq) /\ cq' = cq
    BY <1>4 DEF ReapBatch, ringVars
  <2>2. CompletedHas(r)' = CompletedHas(r) + Times(r, cq)
    BY <1>0, <2>1, ProcessedAreCompleted
  <2>3. Len(cq) \in 0 .. Len(cq)
    BY <1>0
  <2>4. Unreaped' \in Seq(Cqe) /\ Len(Unreaped') = 0
    BY <1>0, <2>1, <2>3, DropProperties DEF Unreaped
  <2>5. Times(r, Unreaped') = 0
    <3>1. DOMAIN (Unreaped') = {}
      BY <2>4, LenProperties
    <3>2. QED  BY <2>4, <3>1, TimesType
  <2>6. QED  BY <1>1, <1>2, <1>3, <2>2, <2>5 DEF RingHas
<1>5. CASE WaitCqe
  <2>1. /\ ProcessCompletionEvents(<<Head(cq)>>) /\ ready' = 0 /\ cq' = Tail(cq)
        /\ cq # <<>>
    BY <1>0, <1>5 DEF WaitCqe, Seen
  <2>2. Head(cq) \in Cqe /\ Tail(cq) \in Seq(Cqe)
    BY <1>0, <2>1, HeadTailProperties
  <2>3. <<Head(cq)>> \in Seq(Cqe)
    BY <2>2
  <2>4. CompletedHas(r)' = CompletedHas(r) + Times(r, <<Head(cq)>>)
    BY <1>0, <2>1, <2>3, ProcessedAreCompleted
  <2>5. Times(r, <<Head(cq)>>) = Bit(Head(cq).req = r)
    <3>1. Times(r, <<Head(cq)>>) = Occurrences(<<Head(cq)>>, WithReq(Cqe, r))
      BY <2>3, TimesIsOccurrences
    <3>2. Head(cq) \in WithReq(Cqe, r) <=> Head(cq).req = r
      BY <2>2 DEF WithReq
    <3>3. Occurrences(<<Head(cq)>>, WithReq(Cqe, r)) =
            IF Head(cq) \in WithReq(Cqe, r) THEN 1 ELSE 0
      BY OccurrencesOne
    <3>4. QED  BY <3>1, <3>2, <3>3 DEF Bit
  <2>6. Times(r, cq) = Times(r, Tail(cq)) + Bit(Head(cq).req = r)
    BY <1>0, <2>1, TimesTail
  <2>7. Times(r, Unreaped') = Times(r, Tail(cq)) /\ Times(r, Tail(cq)) \in Nat
    BY <2>1, <2>2, TimesWhole, TimesType DEF Unreaped
  <2>8. Bit(Head(cq).req = r) \in Nat
    BY DEF Bit
  <2>9. QED  BY <1>1, <1>2, <1>3, <2>4, <2>5, <2>6, <2>7, <2>8 DEF RingHas
<1>6. QED  BY <1>4, <1>5

\* IssueRequest puts the request in hand into the queue.
LEMMA IssuedIsInRing ==
    ASSUME IInv, NEW q \in Requests, IssueRequest(q), NEW r \in Requests
    PROVE  RingHas(r)' = RingHas(r) + Bit(q = r)
<1>0. TypeOK /\ RingBounds /\ TypeOK' /\ IInv'
  BY InductiveStep DEF IInv, Next, Service
<1>1. /\ Times(r, sq) \in Nat /\ Times(r, inflight) \in Nat
      /\ Times(r, deferred) \in Nat /\ Times(r, overflow) \in Nat
      /\ Times(r, Unreaped) \in Nat
  BY <1>0, PlacesTypes
<1> DEFINE e == [req |-> q, fd |-> fixedFd[FileOf[q]], buf |-> buffer[q]]
<1>2. sq' = Append(sq, e) /\ UNCHANGED <<inflight, deferred, overflow, cq, ready>>
  BY DEF IssueRequest
<1>3. sq \in Seq(Sqe) /\ e \in Sqe /\ e.req = q
  <2>1. sq \in Seq(Sqe) /\ buffer[q] \in Buffers \cup {None}
    BY <1>0 DEF TypeOK
  <2>2. fixedFd[FileOf[q]] \in Slots
    BY <1>0, Constants DEF IInv, FileInHand, FileTableConsistent, Issuing, IssueRequest
  <2>3. QED  BY <2>1, <2>2 DEF Sqe
<1> HIDE DEF e
<1>4. Times(r, sq') = Times(r, sq) + Bit(q = r)
  BY <1>2, <1>3, TimesAppend
<1>5. /\ Times(r, inflight') = Times(r, inflight) /\ Times(r, deferred') = Times(r, deferred)
      /\ Times(r, overflow') = Times(r, overflow) /\ Times(r, Unreaped') = Times(r, Unreaped)
  BY <1>2 DEF Unreaped
<1>6. Bit(q = r) \in Nat
  BY DEF Bit
<1>7. QED  BY <1>1, <1>4, <1>5, <1>6 DEF RingHas

-----------------------------------------------------------------------------
(* Every step keeps every request in one place                               *)

\* A step that moves no request.
LEMMA NoneMoves ==
    ASSUME NEW r, InOnePlace(r),
           UNCHANGED <<idle, queue, delivered, CompletedRequests, NextRequest>>,
           UNCHANGED <<ringVars, ready>>,
           pc' = pc \/ (pc # "submit" /\ pc' # "submit")
    PROVE  InOnePlace(r)'
<1>1. EngineHas(r)' = EngineHas(r) /\ ServiceHas(r)' = ServiceHas(r)
  BY DEF EngineHas, ServiceHas
<1>2. UNCHANGED <<sq, inflight, deferred, overflow, cq, ready>>
  BY DEF ringVars
<1>3. RingHas(r)' = RingHas(r)
  BY <1>2 DEF RingHas, Unreaped
<1>4. CompletedHas(r)' = CompletedHas(r)
  BY DEF CompletedHas
<1>5. QED  BY <1>1, <1>3, <1>4 DEF InOnePlace

\* A step that moves requests only inside the ring, or from it to CompletedRequests.
LEMMA OnlyRingMoves ==
    ASSUME IInv, NEW r \in Requests, InOnePlace(r),
           UNCHANGED <<idle, queue, delivered, NextRequest>>,
           pc' = pc \/ (pc # "submit" /\ pc' # "submit"),
           RingHas(r)' + CompletedHas(r)' = RingHas(r) + CompletedHas(r),
           RingHas(r)' \in Nat, CompletedHas(r)' \in Nat
    PROVE  InOnePlace(r)'
<1>1. EngineHas(r)' = EngineHas(r) /\ ServiceHas(r)' = ServiceHas(r)
  BY DEF EngineHas, ServiceHas
<1>2. /\ EngineHas(r) \in Nat /\ ServiceHas(r) \in Nat /\ RingHas(r) \in Nat
      /\ CompletedHas(r) \in Nat
  BY PartsAreNat
<1>3. QED  BY <1>1, <1>2 DEF InOnePlace

\* The engine pushes a request, collects the completed ones, releases one.
LEMMA EngineMoves ==
    ASSUME IInv, NEW r \in Requests, InOnePlace(r),
           \/ \E q \in Requests : PushRequest(q) \/ ReleaseRequest(q)
           \/ GetCompletedRequests
    PROVE  InOnePlace(r)'
<1>0. /\ EngineHas(r) \in Nat /\ ServiceHas(r) \in Nat /\ RingHas(r) \in Nat
      /\ CompletedHas(r) \in Nat
      /\ CompletedHas(r) = 0 <=> r \notin ToSet(CompletedRequests)
  BY PartsAreNat
<1>1. /\ ServiceHas(r)' = ServiceHas(r) /\ RingHas(r)' = RingHas(r)
  <2>1. UNCHANGED <<NextRequest, pc, ready, ringVars>>
    BY DEF PushRequest, ReleaseRequest, GetCompletedRequests
  <2>2. QED  BY <2>1 DEF ServiceHas, RingHas, Unreaped, ringVars
<1>2. ASSUME NEW q \in Requests, PushRequest(q) \/ ReleaseRequest(q)
      PROVE  InOnePlace(r)'
  <2>1. CompletedHas(r)' = CompletedHas(r)
    BY <1>2 DEF PushRequest, ReleaseRequest, CompletedHas
  <2>2. EngineHas(r)' = EngineHas(r)
    <3>1. CASE r # q
      BY <1>2, <3>1 DEF PushRequest, ReleaseRequest, EngineHas, Bit
    <3>2. CASE r = q /\ PushRequest(q)
      <4>1. /\ r \in idle /\ r \notin idle' /\ r \in queue' /\ delivered' = delivered
        BY <3>2 DEF PushRequest
      <4>2. r \notin queue /\ r \notin delivered
        BY <1>0, <4>1 DEF InOnePlace, EngineHas, Bit
      <4>3. QED  BY <4>1, <4>2 DEF EngineHas, Bit
    <3>3. CASE r = q /\ ReleaseRequest(q)
      <4>1. /\ r \in delivered /\ r \notin delivered' /\ r \in idle' /\ queue' = queue
        BY <3>3 DEF ReleaseRequest
      <4>2. r \notin queue /\ r \notin idle
        BY <1>0, <4>1 DEF InOnePlace, EngineHas, Bit
      <4>3. QED  BY <4>1, <4>2 DEF EngineHas, Bit
    <3>4. QED  BY <1>2, <3>1, <3>2, <3>3
  <2>3. QED  BY <1>1, <2>1, <2>2 DEF InOnePlace
<1>3. CASE GetCompletedRequests
  <2>1. /\ UNCHANGED <<idle, queue>> /\ CompletedRequests' = <<>>
        /\ delivered' = delivered \cup ToSet(CompletedRequests)
    BY <1>3 DEF GetCompletedRequests
  <2>2. CompletedHas(r)' = 0
    <3>1. {i \in DOMAIN <<>> : <<>>[i] = r} = {}
      OBVIOUS
    <3>2. QED  BY <2>1, <3>1, FS_EmptySet DEF CompletedHas
  <2>3. CASE r \in ToSet(CompletedRequests)
    <3>1. CompletedHas(r) = 1 /\ EngineHas(r) = 0
      BY <1>0, <2>3 DEF InOnePlace
    <3>2. r \notin idle /\ r \notin queue /\ r \notin delivered
      BY <3>1 DEF EngineHas, Bit
    <3>3. EngineHas(r)' = 1
      BY <2>1, <2>3, <3>2 DEF EngineHas, Bit
    <3>4. QED  BY <1>0, <1>1, <2>2, <3>1, <3>3 DEF InOnePlace
  <2>4. CASE r \notin ToSet(CompletedRequests)
    <3>1. EngineHas(r)' = EngineHas(r)
      BY <2>1, <2>4 DEF EngineHas, Bit
    <3>2. QED  BY <1>0, <1>1, <2>2, <2>4, <3>1 DEF InOnePlace
  <2>5. QED  BY <2>3, <2>4
<1>4. QED  BY <1>2, <1>3

\* The service thread takes a request from the queue, completes it, issues it.
LEMMA ServiceMoves ==
    ASSUME IInv, NEW r \in Requests, InOnePlace(r), NEW q \in Requests,
           PopRequest(q) \/ OnRequestComplete(q) \/ IssueRequest(q) \/ SubmitRequest(q)
    PROVE  InOnePlace(r)'
<1>0. /\ EngineHas(r) \in Nat /\ ServiceHas(r) \in Nat /\ RingHas(r) \in Nat
      /\ CompletedHas(r) \in Nat
  BY PartsAreNat
<1>1. CASE PopRequest(q)
  <2>1. /\ UNCHANGED <<idle, delivered, CompletedRequests, ready, ringVars>>
        /\ q \in queue /\ queue' = queue \ {q} /\ NextRequest' = q
        /\ pc = "next" /\ pc' # "submit"
    BY <1>1 DEF PopRequest
  <2>2. NextRequest = None
    BY <2>1, Constants DEF IInv, RequestInHand, Issuing
  <2>3. r # NextRequest
    BY <2>2, Constants
  <2>4. RingHas(r)' = RingHas(r) /\ CompletedHas(r)' = CompletedHas(r)
    BY <2>1 DEF RingHas, CompletedHas, Unreaped, ringVars
  <2>5. EngineHas(r)' + ServiceHas(r)' = EngineHas(r) + ServiceHas(r)
    <3>1. CASE r = q
      BY <2>1, <2>3, <3>1 DEF EngineHas, ServiceHas, Bit
    <3>2. CASE r # q
      BY <2>1, <2>3, <3>2 DEF EngineHas, ServiceHas, Bit
    <3>3. QED  BY <3>1, <3>2
  <2>6. EngineHas(r)' \in Nat /\ ServiceHas(r)' \in Nat
    BY DEF EngineHas, ServiceHas, Bit
  <2>7. QED  BY <1>0, <2>4, <2>5, <2>6 DEF InOnePlace
<1>2. CASE OnRequestComplete(q)
  <2>1. /\ UNCHANGED <<idle, queue, delivered, ready, ringVars>>
        /\ q = NextRequest /\ NextRequest' = None /\ pc = "completed"
        /\ CompletedRequests' = Append(CompletedRequests, q)
    BY <1>2 DEF OnRequestComplete, engineVars
  <2>2. RingHas(r)' = RingHas(r) /\ EngineHas(r)' = EngineHas(r)
    BY <2>1 DEF RingHas, EngineHas, Unreaped, ringVars
  <2>3. ServiceHas(r) = Bit(q = r) /\ ServiceHas(r)' = 0
    BY <2>1, Constants DEF ServiceHas, Bit
  <2>4. CompletedHas(r)' = CompletedHas(r) + Bit(q = r)
    <3>1. CompletedRequests \in Seq(Requests)
      BY DEF IInv, TypeOK
    <3>2. Occurrences(CompletedRequests', {r}) =
            Occurrences(CompletedRequests, {r}) + (IF q \in {r} THEN 1 ELSE 0)
      BY <2>1, <3>1, OccurrencesAppend
    <3>3. \A s : {j \in DOMAIN s : s[j] = r} = {j \in DOMAIN s : s[j] \in {r}}
      OBVIOUS
    <3>4. CompletedHas(r) = Occurrences(CompletedRequests, {r})
          /\ CompletedHas(r)' = Occurrences(CompletedRequests', {r})
      BY <3>3 DEF CompletedHas, Occurrences
    <3>5. (IF q \in {r} THEN 1 ELSE 0) = Bit(q = r)
      BY DEF Bit
    <3>6. QED  BY <3>2, <3>4, <3>5
  <2>5. Bit(q = r) \in Nat
    BY DEF Bit
  <2>6. QED  BY <1>0, <2>2, <2>3, <2>4, <2>5 DEF InOnePlace
<1>3. CASE IssueRequest(q)
  <2>1. /\ UNCHANGED <<idle, queue, delivered, CompletedRequests, NextRequest>>
        /\ q = NextRequest /\ pc = "issue" /\ pc' = "submit"
    BY <1>3 DEF IssueRequest, engineVars
  <2>2. CompletedHas(r)' = CompletedHas(r) /\ EngineHas(r)' = EngineHas(r)
    BY <2>1 DEF CompletedHas, EngineHas
  <2>3. ServiceHas(r) = Bit(q = r) /\ ServiceHas(r)' = 0
    BY <2>1 DEF ServiceHas, Bit
  <2>4. RingHas(r)' = RingHas(r) + Bit(q = r)
    BY <1>3, IssuedIsInRing
  <2>5. Bit(q = r) \in Nat
    BY DEF Bit
  <2>6. QED  BY <1>0, <2>2, <2>3, <2>4, <2>5 DEF InOnePlace
<1>4. CASE SubmitRequest(q)
  <2>1. /\ UNCHANGED <<idle, queue, delivered, CompletedRequests, ready, ringVars>>
        /\ pc = "submit" /\ NextRequest' = None
    BY <1>4 DEF SubmitRequest, engineVars
  <2>2. /\ CompletedHas(r)' = CompletedHas(r) /\ EngineHas(r)' = EngineHas(r)
        /\ RingHas(r)' = RingHas(r)
    BY <2>1 DEF CompletedHas, EngineHas, RingHas, Unreaped, ringVars
  <2>3. ServiceHas(r) = 0 /\ ServiceHas(r)' = 0
    BY <2>1, Constants DEF ServiceHas, Bit
  <2>4. QED  BY <2>2, <2>3 DEF InOnePlace
<1>5. QED  BY <1>1, <1>2, <1>3, <1>4

LEMMA OnePlaceStep ==
    ASSUME IInv, NEW r \in Requests, InOnePlace(r), Next
    PROVE  InOnePlace(r)'
<1>0. IInv' /\ TypeOK' /\ RingBounds'
  BY InductiveStep DEF IInv
<1>1. RingHas(r)' \in Nat /\ CompletedHas(r)' \in Nat
  <2>1. ready' \in 0 .. Len(cq') /\ cq' \in Seq(Cqe)
    BY <1>0, LenProperties DEF TypeOK, RingBounds
  <2>2. Unreaped' \in Seq(Cqe)
    BY <2>1, DropProperties DEF Unreaped
  <2>3. Times(r, Unreaped') \in Nat
    BY <2>2, TimesType
  <2>4. /\ Times(r, sq') \in Nat /\ Times(r, inflight') \in Nat
        /\ Times(r, deferred') \in Nat /\ Times(r, overflow') \in Nat
    BY <1>0, TimesType DEF TypeOK
  <2>5. Occurrences(CompletedRequests', {r}) \in Nat
    BY <1>0, OccurrencesType DEF TypeOK
  <2>6. \A s : {j \in DOMAIN s : s[j] = r} = {j \in DOMAIN s : s[j] \in {r}}
    OBVIOUS
  <2>7. QED  BY <2>3, <2>4, <2>5, <2>6 DEF RingHas, CompletedHas, Occurrences
<1>2. CASE Engine
  <2>1. CASE \/ \E q \in Requests : PushRequest(q) \/ ReleaseRequest(q)
             \/ GetCompletedRequests
    BY <2>1, EngineMoves
  <2>2. CASE \/ \E f \in Files : OpenContainer(f) \/ CloseContainer(f)
             \/ \E t \in toNotify : ServiceNotify(t)
             \/ \E q \in Requests : CancelRequest(q)
    BY <2>2, NoneMoves DEF OpenContainer, CloseContainer, ServiceNotify, CancelRequest
  <2>3. QED  BY <1>2, <2>1, <2>2 DEF Engine
<1>3. CASE Kernel
  <2>1. PICK i \in DOMAIN inflight, ok \in BOOLEAN : Complete(i, ok)
    BY <1>3 DEF Kernel
  <2>2. RingHas(r)' = RingHas(r)
    BY <1>0, <2>1, CompleteKeeps
  <2>3. UNCHANGED <<idle, queue, delivered, NextRequest, pc, CompletedRequests>>
    BY <2>1 DEF Complete, engineVars
  <2>4. CompletedHas(r)' = CompletedHas(r)
    BY <2>3 DEF CompletedHas
  <2>5. QED  BY <1>1, <2>2, <2>3, <2>4, OnlyRingMoves
<1>4. CASE \/ \E n \in Consumed : Submit(n)
           \/ FlushOverflow \/ WaitEnter \/ NotifyAndAdvance
  <2>1. RingHas(r)' = RingHas(r)
    BY <1>0, <1>4, RingKeeps
  <2>2. /\ UNCHANGED <<idle, queue, delivered, NextRequest, CompletedRequests>>
        /\ pc # "submit" /\ pc' # "submit"
    <3>1. CASE FlushOverflow \/ WaitEnter
      BY <3>1 DEF FlushOverflow, WaitEnter, engineVars
    <3>2. CASE NotifyAndAdvance
      <4>1. /\ UNCHANGED <<idle, queue, delivered, NextRequest, CompletedRequests>>
            /\ pc = "reaped" /\ pc' = AfterProcess /\ processFrom \in {"request", "flush", "wait"}
        BY <3>2 DEF NotifyAndAdvance, engineVars, IInv, TypeOK, ProcessCallers
      <4>2. AfterProcess # "submit"
        BY <4>1 DEF AfterProcess
      <4>3. QED  BY <4>1, <4>2
    <3>3. CASE \E n \in Consumed : Submit(n)
      BY <3>3 DEF Submit, engineVars
    <3>4. QED  BY <1>4, <3>1, <3>2, <3>3
  <2>3. CompletedHas(r)' = CompletedHas(r)
    BY <2>2 DEF CompletedHas
  <2>4. QED  BY <1>1, <2>1, <2>2, <2>3, OnlyRingMoves
<1>5. CASE ReapBatch \/ WaitCqe
  <2>1. RingHas(r)' + CompletedHas(r)' = RingHas(r) + CompletedHas(r)
    BY <1>0, <1>5, ReapedAreCompleted
  <2>2. /\ UNCHANGED <<idle, queue, delivered, NextRequest>>
        /\ pc # "submit" /\ pc' # "submit"
    BY <1>5 DEF ReapBatch, WaitCqe, engineVars
  <2>3. QED  BY <1>1, <2>1, <2>2, OnlyRingMoves
<1>6. CASE \E q \in Requests :
             PopRequest(q) \/ OnRequestComplete(q) \/ IssueRequest(q) \/ SubmitRequest(q)
  BY <1>6, ServiceMoves
<1>7. CASE \/ StartRequests \/ EnterRequestLoop \/ NoNextRequest
           \/ (\E f \in Files : UnregisterFile(f))
           \/ (\E b \in Buffers : AcquireBuffer(b))
  BY <1>7, NoneMoves DEF StartRequests, EnterRequestLoop, NoNextRequest, UnregisterFile,
                         AcquireBuffer, engineVars
<1>8. CASE \E q \in Requests :
             \/ FileIsFixed(q) \/ OpenFails(q) \/ RegisterFile(q) \/ OutOfRegisteredFiles(q)
             \/ \E hit \in BOOLEAN : AllocateMemory(q, hit)
  BY <1>8, NoneMoves DEF FileIsFixed, OpenFails, RegisterFile, OutOfRegisteredFiles,
                         AllocateMemory, engineVars
<1>9. CASE NotifyDispatcher \/ SubmissionQueueFull \/ FlushBatch \/ NothingToWaitFor
           \/ NotifyAndProcess \/ LoopOrReturn \/ ServiceWait
  BY <1>9, NoneMoves DEF NotifyDispatcher, SubmissionQueueFull, FlushBatch, NothingToWaitFor,
                         NotifyAndProcess, LoopOrReturn, ServiceWait, engineVars
<1>10. CASE NothingReady
  <2>1. /\ UNCHANGED <<idle, queue, delivered, NextRequest, CompletedRequests, ready, ringVars>>
        /\ pc = "process" /\ pc' = AfterProcess /\ processFrom \in {"request", "flush", "wait"}
    BY <1>10 DEF NothingReady, engineVars, IInv, TypeOK, ProcessCallers
  <2>2. AfterProcess # "submit"
    BY <2>1 DEF AfterProcess
  <2>3. QED  BY <2>1, <2>2, NoneMoves
<1>11. QED
  BY <1>2, <1>3, <1>4, <1>5, <1>6, <1>7, <1>8, <1>9, <1>10, Zenon DEF Next, Service

LEMMA OnePlaceInit == Init => \A r \in Requests : InOnePlace(r)
<1> SUFFICES ASSUME Init, NEW r \in Requests PROVE InOnePlace(r)
  OBVIOUS
<1>1. EngineHas(r) = 1 /\ ServiceHas(r) = 0
  BY Constants DEF Init, EngineHas, ServiceHas, Bit
<1>2. cq \in Seq(Cqe) /\ cq = <<>> /\ ready = 0
  BY DEF Init
<1>3. Times(r, Unreaped) = 0
  BY <1>2, TimesWhole, TimesEmpty DEF Unreaped
<1>4. RingHas(r) = 0
  BY <1>3, TimesEmpty DEF Init, RingHas
<1>5. CompletedHas(r) = 0
  <2>1. {i \in DOMAIN <<>> : <<>>[i] = r} = {}
    OBVIOUS
  <2>2. QED  BY <2>1, FS_EmptySet DEF Init, CompletedHas
<1>6. QED  BY <1>1, <1>4, <1>5 DEF InOnePlace

LEMMA PlacesInvariance == Spec => [](\A r \in Requests : InOnePlace(r))
<1> DEFINE Each == \A r \in Requests : InOnePlace(r)
<1>1. Init => Each
  BY OnePlaceInit
<1>2. IInv /\ Each /\ [Next]_vars => Each'
  <2>1. ASSUME IInv, Each, Next PROVE Each'
    BY <2>1, OnePlaceStep
  <2>2. ASSUME Each, UNCHANGED vars PROVE Each'
    BY <2>2, NoneMoves DEF vars, engineVars
  <2>3. QED  BY <2>1, <2>2
<1> HIDE DEF Each
<1>3. Spec => []Each
  BY <1>1, <1>2, Inductive, PTL DEF Spec
<1>4. QED  BY <1>3 DEF Each

\* However the engine pushes, cancels and releases, and in whatever order the kernel
\* answers, no request is lost, issued twice or completed twice.
THEOREM RequestsInOnePlace == Spec => []OnePlace
<1> DEFINE Each == \A r \in Requests : InOnePlace(r)
<1>1. Spec => []Each
  BY PlacesInvariance
<1>2. IInv /\ Each => OnePlace
  BY OnePlaceByParts DEF IInv
<1> HIDE DEF Each
<1>3. QED  BY <1>1, <1>2, Inductive, PTL

-----------------------------------------------------------------------------
(* Buffers                                                                   *)

\* A request has a buffer from AllocateMemory on; who waits for it has none.
WithoutBuffer(r) == r \in idle \cup queue \/ (r = NextRequest /\ pc \in {"open", "alloc"})
NoBufferBefore == \A r \in Requests : WithoutBuffer(r) => buffer[r] = None

\* A request's buffer is nobody else's, and every buffer is somewhere.
OwnBuffers ==
    /\ \A r \in Requests : buffer[r] # None =>
          buffer[r] \notin freeBuffers /\ buffer[r] # AcquiredBuffer
    /\ \A r, q \in Requests : r # q /\ buffer[r] = buffer[q] => buffer[r] = None
    /\ AcquiredBuffer # None => AcquiredBuffer \notin freeBuffers
    /\ \A b \in Buffers :
          b \in freeBuffers \/ b = AcquiredBuffer \/ \E r \in Requests : buffer[r] = b

\* An entry names its request's buffer, and the kernel writes into it.
RingBuffers ==
    /\ \A i \in DOMAIN sq : sq[i].buf = buffer[sq[i].req]
    /\ \A i \in DOMAIN inflight : inflight[i].buf = buffer[inflight[i].req]

BufferInv == NoBufferBefore /\ OwnBuffers /\ RingBuffers

\* A step that hands on no buffer, and no request that waits for one.
LEMMA NoBufferMoves ==
    ASSUME NoBufferBefore, OwnBuffers, UNCHANGED <<buffer, freeBuffers, AcquiredBuffer>>,
           \A r \in Requests : WithoutBuffer(r)' => WithoutBuffer(r)
    PROVE  NoBufferBefore' /\ OwnBuffers'
  BY DEF NoBufferBefore, OwnBuffers

LEMMA OwnBuffersStep ==
    ASSUME IInv, \A r \in Requests : InOnePlace(r), NoBufferBefore, OwnBuffers, Next
    PROVE  NoBufferBefore' /\ OwnBuffers'
<1> USE Constants
<1>0. /\ buffer \in [Requests -> Buffers \cup {None}] /\ freeBuffers \subseteq Buffers
      /\ AcquiredBuffer \in Buffers \cup {None}
  BY DEF IInv, TypeOK
<1>1. ASSUME NEW q \in Requests, ReleaseRequest(q) PROVE NoBufferBefore' /\ OwnBuffers'
  <2>1. /\ UNCHANGED <<queue, AcquiredBuffer, NextRequest, pc>> /\ idle' = idle \cup {q}
        /\ freeBuffers' = freeBuffers \cup ({buffer[q]} \ {None})
        /\ buffer' = [buffer EXCEPT ![q] = None]
    BY <1>1 DEF ReleaseRequest
  <2>2. /\ buffer'[q] = None
        /\ \A r \in Requests \ {q} : buffer'[r] = buffer[r]
    BY <1>0, <2>1
  <2>3. NoBufferBefore'
    BY <2>1, <2>2 DEF NoBufferBefore, WithoutBuffer
  <2>4. \A r \in Requests : buffer'[r] # None =>
           buffer'[r] \notin freeBuffers' /\ buffer'[r] # AcquiredBuffer'
    BY <2>1, <2>2 DEF OwnBuffers
  <2>5. \A r, p \in Requests : r # p /\ buffer'[r] = buffer'[p] => buffer'[r] = None
    BY <2>2 DEF OwnBuffers
  <2>6. AcquiredBuffer' # None => AcquiredBuffer' \notin freeBuffers'
    BY <2>1 DEF OwnBuffers
  <2>7. \A b \in Buffers :
           b \in freeBuffers' \/ b = AcquiredBuffer' \/ \E r \in Requests : buffer'[r] = b
    BY <2>1, <2>2 DEF OwnBuffers
  <2>8. QED  BY <2>3, <2>4, <2>5, <2>6, <2>7 DEF OwnBuffers
<1>2. ASSUME NEW b \in Buffers, AcquireBuffer(b) PROVE NoBufferBefore' /\ OwnBuffers'
  <2>1. /\ UNCHANGED <<idle, queue, buffer, NextRequest, pc>>
        /\ AcquiredBuffer = None /\ AcquiredBuffer' = b
        /\ b \in freeBuffers /\ freeBuffers' = freeBuffers \ {b}
    BY <1>2 DEF AcquireBuffer
  <2>2. NoBufferBefore'
    BY <2>1 DEF NoBufferBefore, WithoutBuffer
  <2>3. OwnBuffers'
    BY <2>1 DEF OwnBuffers
  <2>4. QED  BY <2>2, <2>3
<1>3. ASSUME NEW q \in Requests, NEW hit \in BOOLEAN, AllocateMemory(q, hit)
      PROVE  NoBufferBefore' /\ OwnBuffers'
  <2>1. /\ UNCHANGED <<idle, queue, freeBuffers, NextRequest>>
        /\ AcquiredBuffer' = None /\ pc = "alloc" /\ q = NextRequest
        /\ pc' \notin {"open", "alloc"}
        /\ buffer' = [buffer EXCEPT ![q] = AcquiredBuffer]
    BY <1>3 DEF AllocateMemory, AcquiredAfter, engineVars
  <2>2. buffer[q] = None
    BY <2>1 DEF NoBufferBefore, WithoutBuffer
  <2>3. /\ buffer'[q] = AcquiredBuffer
        /\ \A r \in Requests \ {q} : buffer'[r] = buffer[r]
    BY <1>0, <2>1
  <2>4. q \notin idle \cup queue
    <3>1. ServiceHas(q) = 1
      BY <2>1 DEF ServiceHas, Bit
    <3>2. EngineHas(q) = 0
      BY <3>1, PartsAreNat DEF InOnePlace
    <3>3. QED  BY <3>2 DEF EngineHas, Bit
  <2>5. NoBufferBefore'
    BY <2>1, <2>3, <2>4 DEF NoBufferBefore, WithoutBuffer
  <2>6. OwnBuffers'
    BY <2>1, <2>2, <2>3 DEF OwnBuffers
  <2>7. QED  BY <2>5, <2>6
<1>4. ASSUME NEW q \in Requests, PushRequest(q) PROVE NoBufferBefore' /\ OwnBuffers'
  <2>1. /\ UNCHANGED <<buffer, freeBuffers, AcquiredBuffer, NextRequest, pc>>
        /\ q \in idle /\ idle' = idle \ {q} /\ queue' = queue \cup {q}
    BY <1>4 DEF PushRequest
  <2>2. \A r \in Requests : WithoutBuffer(r)' => WithoutBuffer(r)
    BY <2>1 DEF WithoutBuffer
  <2>3. QED  BY <2>1, <2>2, NoBufferMoves
<1>5. ASSUME NEW q \in Requests, PopRequest(q) PROVE NoBufferBefore' /\ OwnBuffers'
  <2>1. /\ UNCHANGED <<buffer, freeBuffers, AcquiredBuffer, idle>>
        /\ q \in queue /\ queue' = queue \ {q} /\ NextRequest' = q
    BY <1>5 DEF PopRequest
  <2>2. \A r \in Requests : WithoutBuffer(r)' => WithoutBuffer(r)
    BY <2>1 DEF WithoutBuffer
  <2>3. QED  BY <2>1, <2>2, NoBufferMoves
<1>6. ASSUME NEW q \in Requests, FileIsFixed(q) \/ RegisterFile(q)
      PROVE  NoBufferBefore' /\ OwnBuffers'
  <2>1. /\ UNCHANGED <<buffer, freeBuffers, AcquiredBuffer, idle, queue, NextRequest>>
        /\ pc = "open"
    BY <1>6 DEF FileIsFixed, RegisterFile, engineVars
  <2>2. \A r \in Requests : WithoutBuffer(r)' => WithoutBuffer(r)
    BY <2>1 DEF WithoutBuffer
  <2>3. QED  BY <2>1, <2>2, NoBufferMoves
<1>7. ASSUME UNCHANGED <<buffer, freeBuffers, AcquiredBuffer, idle, queue>>,
             \/ UNCHANGED <<NextRequest, pc>>
             \/ pc' \notin {"open", "alloc"}
      PROVE  NoBufferBefore' /\ OwnBuffers'
  <2>1. \A r \in Requests : WithoutBuffer(r)' => WithoutBuffer(r)
    BY <1>7 DEF WithoutBuffer
  <2>2. QED  BY <1>7, <2>1, NoBufferMoves
<1>8. CASE Engine
  <2>1. CASE \/ \E f \in Files : OpenContainer(f) \/ CloseContainer(f)
             \/ \E t \in toNotify : ServiceNotify(t)
             \/ \E r \in Requests : CancelRequest(r)
             \/ GetCompletedRequests
    <3>1. UNCHANGED <<buffer, freeBuffers, AcquiredBuffer, idle, queue, NextRequest, pc>>
      BY <2>1 DEF OpenContainer, CloseContainer, ServiceNotify, CancelRequest,
                  GetCompletedRequests
    <3>2. QED  BY <1>7, <3>1
  <2>2. QED  BY <1>1, <1>4, <1>8, <2>1 DEF Engine
<1>9. CASE Kernel
  <2>1. UNCHANGED <<buffer, freeBuffers, AcquiredBuffer, idle, queue, NextRequest, pc>>
    BY <1>9 DEF Kernel, Complete, engineVars
  <2>2. QED  BY <1>7, <2>1
<1>10. CASE \/ StartRequests \/ EnterRequestLoop \/ NoNextRequest
            \/ (\E f \in Files : UnregisterFile(f))
            \/ NotifyDispatcher \/ SubmissionQueueFull \/ FlushBatch \/ FlushOverflow
            \/ ReapBatch \/ NothingToWaitFor \/ WaitEnter \/ WaitCqe
            \/ NotifyAndProcess \/ LoopOrReturn \/ ServiceWait
  <2>1. /\ UNCHANGED <<buffer, freeBuffers, AcquiredBuffer, idle, queue>>
        /\ \/ UNCHANGED <<NextRequest, pc>>
           \/ pc' \notin {"open", "alloc"}
    <3>1. CASE StartRequests \/ EnterRequestLoop \/ NoNextRequest
               \/ \E f \in Files : UnregisterFile(f)
      BY <3>1 DEF StartRequests, EnterRequestLoop, NoNextRequest, UnregisterFile, engineVars
    <3>2. CASE NotifyDispatcher \/ SubmissionQueueFull \/ FlushBatch \/ FlushOverflow
               \/ ReapBatch
      BY <3>2 DEF NotifyDispatcher, SubmissionQueueFull, FlushBatch, FlushOverflow,
                  ReapBatch, engineVars
    <3>3. CASE NothingToWaitFor \/ WaitEnter \/ WaitCqe \/ NotifyAndProcess
               \/ LoopOrReturn \/ ServiceWait
      BY <3>3 DEF NothingToWaitFor, WaitEnter, WaitCqe, NotifyAndProcess, LoopOrReturn,
                  ServiceWait, engineVars
    <3>4. QED  BY <1>10, <3>1, <3>2, <3>3
  <2>2. QED  BY <1>7, <2>1
<1>11. CASE NothingReady \/ NotifyAndAdvance
  <2>1. processFrom \in {"request", "flush", "wait"} /\ pc' = AfterProcess
    BY <1>11 DEF NothingReady, NotifyAndAdvance, IInv, TypeOK, ProcessCallers
  <2>2. pc' \notin {"open", "alloc"}
    BY <2>1 DEF AfterProcess
  <2>3. UNCHANGED <<buffer, freeBuffers, AcquiredBuffer, idle, queue>>
    BY <1>11 DEF NothingReady, NotifyAndAdvance, engineVars
  <2>4. QED  BY <1>7, <2>2, <2>3
<1>12. CASE \/ \E r \in Requests : \/ OpenFails(r) \/ OutOfRegisteredFiles(r)
                                 \/ OnRequestComplete(r) \/ IssueRequest(r)
                                 \/ SubmitRequest(r)
            \/ \E n \in Consumed : Submit(n)
  <2>1. /\ UNCHANGED <<buffer, freeBuffers, AcquiredBuffer, idle, queue>>
        /\ pc' \notin {"open", "alloc"}
    BY <1>12 DEF OpenFails, OutOfRegisteredFiles, OnRequestComplete, IssueRequest,
                 SubmitRequest, Submit, engineVars
  <2>2. QED  BY <1>7, <2>1
<1>13. QED
  BY <1>2, <1>3, <1>5, <1>6, <1>8, <1>9, <1>10, <1>11, <1>12, Zenon DEF Next, Service

\* A request that is not in the ring has no entry there.
LEMMA NoEntry ==
    ASSUME IInv, NEW q \in Requests, RingHas(q) = 0
    PROVE  /\ \A i \in DOMAIN sq : sq[i].req # q
           /\ \A i \in DOMAIN inflight : inflight[i].req # q
<1>1. TypeOK /\ RingBounds
  BY DEF IInv
<1>2. /\ Times(q, sq) \in Nat /\ Times(q, inflight) \in Nat
      /\ Times(q, deferred) \in Nat /\ Times(q, overflow) \in Nat
      /\ Times(q, Unreaped) \in Nat
  BY <1>1, PlacesTypes
<1>3. Times(q, sq) = 0 /\ Times(q, inflight) = 0
  BY <1>2 DEF RingHas
<1>4. QED  BY <1>1, <1>3, TimesType DEF TypeOK

LEMMA RingBuffersStep ==
    ASSUME IInv, \A r \in Requests : InOnePlace(r), RingBuffers, Next
    PROVE  RingBuffers'
<1> USE Constants
<1>0. /\ TypeOK /\ RingBounds
      /\ sq \in Seq(Sqe) /\ inflight \in Seq(Op)
      /\ Len(sq) \in Nat /\ DOMAIN sq = 1 .. Len(sq)
      /\ Len(inflight) \in Nat /\ DOMAIN inflight = 1 .. Len(inflight)
      /\ buffer \in [Requests -> Buffers \cup {None}]
  BY LenProperties DEF IInv, TypeOK
<1>1. /\ \A i \in DOMAIN sq : sq[i].req \in Requests
      /\ \A i \in DOMAIN inflight : inflight[i].req \in Requests
  <2>1. /\ \A i \in 1 .. Len(sq) : sq[i] \in Sqe
        /\ \A i \in 1 .. Len(inflight) : inflight[i] \in Op
    BY <1>0, ElementOfSeq
  <2>2. QED  BY <1>0, <2>1 DEF Sqe, Op
<1>2. ASSUME NEW q \in Requests,
             ReleaseRequest(q) \/ \E hit \in BOOLEAN : AllocateMemory(q, hit)
      PROVE  RingBuffers'
  <2>1. RingHas(q) = 0
    <3>1. /\ EngineHas(q) \in Nat /\ ServiceHas(q) \in Nat /\ RingHas(q) \in Nat
          /\ CompletedHas(q) \in Nat /\ InOnePlace(q)
      BY PartsAreNat
    <3>2. CASE ReleaseRequest(q)
      <4>1. Bit(q \in delivered) = 1 /\ Bit(q \in idle) \in Nat /\ Bit(q \in queue) \in Nat
        BY <3>2 DEF ReleaseRequest, Bit
      <4>2. EngineHas(q) >= 1
        BY <4>1 DEF EngineHas
      <4>3. EngineHas(q) + ServiceHas(q) + RingHas(q) + CompletedHas(q) = 1
        BY <3>1 DEF InOnePlace
      <4>4. \A e, s, g, c \in Nat : e >= 1 /\ e + s + g + c = 1 => g = 0
        OBVIOUS
      <4>5. QED  BY <3>1, <4>2, <4>3, <4>4
    <3>3. CASE \E hit \in BOOLEAN : AllocateMemory(q, hit)
      <4>1. q = NextRequest /\ pc = "alloc"
        BY <3>3 DEF AllocateMemory
      <4>2. ServiceHas(q) = 1
        BY <4>1 DEF ServiceHas, Bit
      <4>3. QED  BY <3>1, <4>2 DEF InOnePlace
    <3>4. QED  BY <1>2, <3>2, <3>3
  <2>2. /\ \A i \in DOMAIN sq : sq[i].req # q
        /\ \A i \in DOMAIN inflight : inflight[i].req # q
    BY <2>1, NoEntry
  <2>3. /\ UNCHANGED <<sq, inflight>>
        /\ \A r \in Requests \ {q} : buffer'[r] = buffer[r]
    BY <1>0, <1>2 DEF ReleaseRequest, AllocateMemory, ringVars
  <2>4. QED  BY <1>1, <2>2, <2>3 DEF RingBuffers
<1>3. ASSUME NEW q \in Requests, IssueRequest(q) PROVE RingBuffers'
  <2> DEFINE e == [req |-> q, fd |-> fixedFd[FileOf[q]], buf |-> buffer[q]]
  <2>1. sq' = Append(sq, e) /\ UNCHANGED <<inflight, buffer>>
    BY <1>3 DEF IssueRequest
  <2>2. e \in Sqe
    <3>1. fixedFd[FileOf[q]] \in Slots
      BY <1>3 DEF IInv, FileInHand, FileTableConsistent, Issuing, IssueRequest
    <3>2. QED  BY <1>0, <3>1 DEF Sqe
  <2>3. e.req = q /\ e.buf = buffer[q]
    OBVIOUS
  <2> HIDE DEF e
  <2>4. /\ Append(sq, e) \in Seq(Sqe) /\ Len(Append(sq, e)) = Len(sq) + 1
        /\ \A i \in 1 .. Len(sq) : Append(sq, e)[i] = sq[i]
        /\ Append(sq, e)[Len(sq) + 1] = e
    BY <1>0, <2>2, AppendProperties
  <2>5. DOMAIN sq' = 1 .. Len(sq) + 1
    BY <2>1, <2>4, LenProperties
  <2>6. \A i \in DOMAIN sq' : sq'[i].buf = buffer'[sq'[i].req]
    <3> SUFFICES ASSUME NEW i \in DOMAIN sq' PROVE sq'[i].buf = buffer'[sq'[i].req]
      OBVIOUS
    <3>1. CASE i \in 1 .. Len(sq)
      BY <1>0, <2>1, <2>4, <3>1 DEF RingBuffers
    <3>2. CASE i = Len(sq) + 1
      BY <2>1, <2>3, <2>4, <3>2
    <3>3. QED  BY <1>0, <2>5, <3>1, <3>2
  <2>7. QED  BY <2>1, <2>6 DEF RingBuffers
<1>4. ASSUME NEW n \in Consumed, Submit(n) PROVE RingBuffers'
  <2>1. /\ n \in 0 .. Len(sq)
        /\ sq' \in Seq(Sqe) /\ Len(sq') = Len(sq) - n
        /\ \A i \in 1 .. Len(sq) - n : sq'[i] = sq[n + i]
        /\ inflight' \in Seq(Op) /\ Len(inflight') = Len(inflight) + n
        /\ \A i \in 1 .. Len(inflight) : inflight'[i] = inflight[i]
        /\ \A i \in 1 .. n : inflight'[Len(inflight) + i] = Resolve(sq[i])
    BY <1>0, <1>4, SubmitProperties
  <2>2. /\ DOMAIN sq' = 1 .. Len(sq) - n
        /\ DOMAIN inflight' = 1 .. Len(inflight) + n
    BY <2>1, LenProperties
  <2>3. buffer' = buffer
    BY <1>4 DEF Submit
  <2>4. \A i \in DOMAIN sq' : sq'[i].buf = buffer'[sq'[i].req]
    <3> SUFFICES ASSUME NEW i \in 1 .. Len(sq) - n PROVE sq'[i].buf = buffer'[sq'[i].req]
      BY <2>2
    <3>1. n + i \in DOMAIN sq
      BY <1>0, <2>1
    <3>2. QED  BY <2>1, <2>3, <3>1 DEF RingBuffers
  <2>5. \A i \in DOMAIN inflight' : inflight'[i].buf = buffer'[inflight'[i].req]
    <3> SUFFICES ASSUME NEW i \in 1 .. Len(inflight) + n
                 PROVE  inflight'[i].buf = buffer'[inflight'[i].req]
      BY <2>2
    <3>1. CASE i \in 1 .. Len(inflight)
      BY <1>0, <2>1, <2>3, <3>1 DEF RingBuffers
    <3>2. CASE i \notin 1 .. Len(inflight)
      <4>1. PICK j \in 1 .. n : i = Len(inflight) + j
        <5>1. i - Len(inflight) \in 1 .. n /\ i = Len(inflight) + (i - Len(inflight))
          BY <1>0, <2>1, <3>2
        <5>2. QED  BY <5>1
      <4>2. inflight'[i] = Resolve(sq[j])
        BY <2>1, <4>1
      <4>3. j \in DOMAIN sq
        BY <1>0, <2>1
      <4>4. QED  BY <2>3, <4>2, <4>3 DEF RingBuffers, Resolve
    <3>3. QED  BY <3>1, <3>2
  <2>6. QED  BY <2>4, <2>5 DEF RingBuffers
<1>5. CASE Kernel
  <2>1. PICK i \in DOMAIN inflight, ok \in BOOLEAN : Complete(i, ok)
    BY <1>5 DEF Kernel
  <2>2. inflight' = RemoveAt(inflight, i) /\ UNCHANGED <<sq, buffer>>
    BY <2>1 DEF Complete
  <2>3. /\ RemoveAt(inflight, i) \in Seq(Op)
        /\ Len(RemoveAt(inflight, i)) = Len(inflight) - 1
        /\ \A j \in 1 .. Len(inflight) - 1 :
             RemoveAt(inflight, i)[j] = IF j < i THEN inflight[j] ELSE inflight[j + 1]
    <3>1. inflight \in Seq(Op) /\ i \in 1 .. Len(inflight)
      BY <1>0
    <3>2. QED  BY <3>1, RemoveAtProperties
  <2>4. DOMAIN inflight' = 1 .. Len(inflight) - 1
    BY <2>2, <2>3, LenProperties
  <2>5. \A j \in DOMAIN inflight' : inflight'[j].buf = buffer'[inflight'[j].req]
    <3> SUFFICES ASSUME NEW j \in 1 .. Len(inflight) - 1
                 PROVE  inflight'[j].buf = buffer'[inflight'[j].req]
      BY <2>4
    <3>1. j \in DOMAIN inflight /\ j + 1 \in DOMAIN inflight
      BY <1>0
    <3>2. inflight'[j] = inflight[j] \/ inflight'[j] = inflight[j + 1]
      BY <2>2, <2>3
    <3>3. QED  BY <2>2, <3>1, <3>2 DEF RingBuffers
  <2>6. QED  BY <2>2, <2>5 DEF RingBuffers
<1>6. ASSUME UNCHANGED <<sq, inflight, buffer>> PROVE RingBuffers'
  BY <1>6 DEF RingBuffers
<1>7. CASE Engine
  <2>1. CASE ~\E r \in Requests : ReleaseRequest(r)
    <3>1. UNCHANGED <<sq, inflight, buffer>>
      BY <1>7, <2>1 DEF Engine, OpenContainer, CloseContainer, ServiceNotify, PushRequest,
                        CancelRequest, GetCompletedRequests, ringVars
    <3>2. QED  BY <1>6, <3>1
  <2>2. QED  BY <1>2, <2>1
<1>8. CASE \/ StartRequests \/ EnterRequestLoop \/ NoNextRequest
           \/ (\E f \in Files : UnregisterFile(f))
           \/ (\E b \in Buffers : AcquireBuffer(b))
           \/ NotifyDispatcher \/ SubmissionQueueFull \/ FlushBatch \/ NothingReady
           \/ FlushOverflow \/ ReapBatch \/ NotifyAndAdvance \/ NothingToWaitFor
           \/ WaitEnter \/ WaitCqe \/ NotifyAndProcess \/ LoopOrReturn \/ ServiceWait
  <2>1. UNCHANGED <<sq, inflight, buffer>>
    <3>1. CASE \/ StartRequests \/ EnterRequestLoop \/ NoNextRequest
               \/ (\E f \in Files : UnregisterFile(f))
               \/ (\E b \in Buffers : AcquireBuffer(b))
      BY <3>1 DEF StartRequests, EnterRequestLoop, NoNextRequest, UnregisterFile,
                  AcquireBuffer, ringVars
    <3>2. CASE NotifyDispatcher \/ SubmissionQueueFull \/ FlushBatch \/ NothingReady
               \/ FlushOverflow \/ ReapBatch \/ NotifyAndAdvance
      BY <3>2 DEF NotifyDispatcher, SubmissionQueueFull, FlushBatch, NothingReady,
                  FlushOverflow, ReapBatch, NotifyAndAdvance, ringVars
    <3>3. CASE NothingToWaitFor \/ WaitEnter \/ WaitCqe \/ NotifyAndProcess
               \/ LoopOrReturn \/ ServiceWait
      BY <3>3 DEF NothingToWaitFor, WaitEnter, WaitCqe, NotifyAndProcess, LoopOrReturn,
                  ServiceWait, ringVars
    <3>4. QED  BY <1>8, <3>1, <3>2, <3>3
  <2>2. QED  BY <1>6, <2>1
<1>9. CASE \E r \in Requests :
              \/ PopRequest(r) \/ FileIsFixed(r) \/ OpenFails(r) \/ RegisterFile(r)
              \/ OutOfRegisteredFiles(r) \/ OnRequestComplete(r) \/ SubmitRequest(r)
  <2>1. UNCHANGED <<sq, inflight, buffer>>
    BY <1>9 DEF PopRequest, FileIsFixed, OpenFails, RegisterFile, OutOfRegisteredFiles,
                OnRequestComplete, SubmitRequest, ringVars
  <2>2. QED  BY <1>6, <2>1
<1>10. QED
  BY <1>2, <1>3, <1>4, <1>5, <1>7, <1>8, <1>9, Zenon DEF Next, Service

LEMMA BufferInit == Init => BufferInv
<1> SUFFICES ASSUME Init PROVE BufferInv
  OBVIOUS
<1>1. \A r \in Requests : buffer[r] = None
  BY DEF Init
<1>2. NoBufferBefore
  BY <1>1 DEF NoBufferBefore
<1>3. OwnBuffers
  BY <1>1 DEF Init, OwnBuffers
<1>4. RingBuffers
  BY DEF Init, RingBuffers
<1>5. QED  BY <1>2, <1>3, <1>4 DEF BufferInv

LEMMA BufferInvariance == Spec => []BufferInv
<1> DEFINE Each == \A r \in Requests : InOnePlace(r)
<1>1. Init => BufferInv
  BY BufferInit
<1>2. IInv /\ Each /\ BufferInv /\ [Next]_vars => BufferInv'
  <2>1. ASSUME IInv, Each, BufferInv, Next PROVE BufferInv'
    BY <2>1, OwnBuffersStep, RingBuffersStep DEF BufferInv
  <2>2. ASSUME BufferInv, UNCHANGED vars PROVE BufferInv'
    BY <2>2 DEF vars, engineVars, ringVars, BufferInv, NoBufferBefore, WithoutBuffer,
                OwnBuffers, RingBuffers
  <2>3. QED  BY <2>1, <2>2
<1>3. Spec => []Each
  BY PlacesInvariance
<1> HIDE DEF Each
<1>4. QED  BY <1>1, <1>2, <1>3, Inductive, PTL DEF Spec

LEMMA BuffersAreExclusive ==
    ASSUME IInv, BufferInv
    PROVE  BuffersExclusive
<1> USE Constants
<1>1. ASSUME NEW b \in Buffers
      PROVE  LET users == {r \in Requests : buffer[r] = b}
             IN  \/ b \in freeBuffers /\ b # AcquiredBuffer /\ users = {}
                 \/ b \notin freeBuffers /\ b = AcquiredBuffer /\ users = {}
                 \/ b \notin freeBuffers /\ b # AcquiredBuffer /\ Cardinality(users) = 1
  <2> DEFINE users == {r \in Requests : buffer[r] = b}
  <2>0. b # None
    OBVIOUS
  <2>1. CASE users = {}
    <3>1. \A r \in Requests : buffer[r] # b
      BY <2>1
    <3>2. QED  BY <2>0, <2>1, <3>1 DEF BufferInv, OwnBuffers
  <2>2. CASE users # {}
    <3>1. PICK r \in Requests : buffer[r] = b
      BY <2>2
    <3>2. b \notin freeBuffers /\ b # AcquiredBuffer
      BY <2>0, <3>1 DEF BufferInv, OwnBuffers
    <3>3. \A q \in Requests : buffer[q] = b => q = r
      BY <2>0, <3>1 DEF BufferInv, OwnBuffers
    <3>4. users = {r}
      BY <3>1, <3>3
    <3>5. Cardinality(users) = 1
      BY <3>4, FS_Singleton
    <3>6. QED  BY <3>2, <3>5
  <2>3. QED  BY <2>1, <2>2
<1>2. QED  BY <1>1 DEF BuffersExclusive, BufferInv, RingBuffers

\* Whatever the engine cancels and releases while reads complete, no two requests
\* share a buffer, none is lost, and the kernel writes only into the buffer of the
\* request it reads for.
THEOREM BuffersStayExclusive == Spec => []BuffersExclusive
<1>1. IInv /\ BufferInv => BuffersExclusive
  BY BuffersAreExclusive
<1>2. QED  BY <1>1, BufferInvariance, Inductive, PTL

-----------------------------------------------------------------------------
(* The batch and the submission queue                                        *)

Queued == [i \in DOMAIN sq |-> sq[i].req]

LEMMA BatchStep ==
    ASSUME ~SubmitCanFail, IInv, BatchIsQueue, Next
    PROVE  BatchIsQueue'
<1>0. /\ TypeOK
      /\ sq \in Seq(Sqe) /\ Len(sq) \in Nat /\ DOMAIN sq = 1 .. Len(sq)
      /\ PendingSubmits \in Seq(Requests)
  BY LenProperties DEF IInv, TypeOK
<1>1. ASSUME UNCHANGED <<sq, PendingSubmits>>, pc' = pc \/ (pc # "submit" /\ pc' # "submit"),
             pc = "submit" => NextRequest' = NextRequest
      PROVE  BatchIsQueue'
  <2>1. CASE pc = "submit"
    BY <1>1, <2>1 DEF BatchIsQueue
  <2>2. CASE pc # "submit"
    BY <1>1, <2>2 DEF BatchIsQueue
  <2>3. QED  BY <2>1, <2>2
<1>2. ASSUME NEW q \in Requests, IssueRequest(q) PROVE BatchIsQueue'
  <2> DEFINE e == [req |-> q, fd |-> fixedFd[FileOf[q]], buf |-> buffer[q]]
  <2>1. /\ sq' = Append(sq, e) /\ UNCHANGED <<PendingSubmits, NextRequest>>
        /\ pc = "issue" /\ pc' = "submit" /\ q = NextRequest
    BY <1>2 DEF IssueRequest
  <2>2. e \in Sqe /\ e.req = q
    <3>1. fixedFd[FileOf[q]] \in Slots
      BY <1>2, Constants DEF IInv, FileInHand, FileTableConsistent, Issuing, IssueRequest
    <3>2. buffer[q] \in Buffers \cup {None}
      BY <1>0 DEF TypeOK
    <3>3. QED  BY <3>1, <3>2 DEF Sqe
  <2> HIDE DEF e
  <2>3. Queued = PendingSubmits
    BY <2>1 DEF BatchIsQueue, Queued
  <2>4. Len(PendingSubmits) = Len(sq) /\ \A i \in 1 .. Len(sq) : PendingSubmits[i] = sq[i].req
    <3>1. DOMAIN PendingSubmits = 1 .. Len(sq)
      BY <1>0, <2>3 DEF Queued
    <3>2. DOMAIN PendingSubmits = 1 .. Len(PendingSubmits) /\ Len(PendingSubmits) \in Nat
      BY <1>0, LenProperties
    <3>3. \A i \in 1 .. Len(sq) : Queued[i] = sq[i].req
      BY <1>0 DEF Queued
    <3>4. QED  BY <1>0, <2>3, <3>1, <3>2, <3>3
  <2>5. /\ Append(sq, e) \in Seq(Sqe) /\ Len(Append(sq, e)) = Len(sq) + 1
        /\ \A i \in 1 .. Len(sq) : Append(sq, e)[i] = sq[i]
        /\ Append(sq, e)[Len(sq) + 1] = e
    BY <1>0, <2>2, AppendProperties
  <2>6. /\ Append(PendingSubmits, q) \in Seq(Requests)
        /\ Len(Append(PendingSubmits, q)) = Len(sq) + 1
        /\ \A i \in 1 .. Len(sq) : Append(PendingSubmits, q)[i] = PendingSubmits[i]
        /\ Append(PendingSubmits, q)[Len(sq) + 1] = q
    BY <1>0, <2>4, AppendProperties
  <2> DEFINE longer == Append(PendingSubmits, q)
             s == Append(sq, e)
             t == [i \in DOMAIN s |-> s[i].req]
  <2>7. DOMAIN s = 1 .. Len(sq) + 1 /\ DOMAIN longer = 1 .. Len(sq) + 1
    BY <2>5, <2>6, LenProperties
  <2>8. \A i \in 1 .. Len(sq) + 1 : s[i].req = longer[i]
    <3> SUFFICES ASSUME NEW i \in 1 .. Len(sq) + 1 PROVE s[i].req = longer[i]
      OBVIOUS
    <3>1. CASE i \in 1 .. Len(sq)
      BY <2>4, <2>5, <2>6, <3>1
    <3>2. CASE i = Len(sq) + 1
      BY <2>2, <2>5, <2>6, <3>2
    <3>3. i \in 1 .. Len(sq) \/ i = Len(sq) + 1
      BY <1>0
    <3> HIDE DEF s, longer
    <3>4. QED  BY <3>1, <3>2, <3>3, Zenon
  <2>9. longer = [i \in 1 .. Len(sq) + 1 |-> longer[i]]
    <3>1. longer \in Seq(Requests)
      BY <2>6
    <3> HIDE DEF longer
    <3>2. PICK n \in Nat : longer \in [1 .. n -> Requests]
      BY <3>1, SeqDef
    <3>3. longer = [i \in DOMAIN longer |-> longer[i]]
      BY <3>2
    <3>4. QED  BY <2>7, <3>3
  <2>10. t = longer
    <3> HIDE DEF s, longer
    <3>1. t = [i \in 1 .. Len(sq) + 1 |-> s[i].req]
      BY <2>7
    <3>2. [i \in 1 .. Len(sq) + 1 |-> s[i].req] = [i \in 1 .. Len(sq) + 1 |-> longer[i]]
      BY <2>8
    <3> HIDE DEF t
    <3>3. QED  BY <2>9, <3>1, <3>2, Zenon
  <2>11. /\ [i \in DOMAIN sq' |-> sq'[i].req] = t
         /\ Append(PendingSubmits', NextRequest') = longer
    BY <2>1
  <2> HIDE DEF longer, s, t
  <2>12. QED  BY <2>1, <2>10, <2>11 DEF BatchIsQueue
<1>3. ASSUME NEW q \in Requests, SubmitRequest(q) PROVE BatchIsQueue'
  <2>1. /\ sq' = sq /\ pc = "submit" /\ q = NextRequest
        /\ PendingSubmits' = Append(PendingSubmits, q)
    BY <1>3 DEF SubmitRequest, ringVars
  <2>2. pc' # "submit"
    BY <1>3 DEF SubmitRequest
  <2>3. QED  BY <2>1, <2>2 DEF BatchIsQueue
<1>4. ASSUME NEW n \in Consumed, Submit(n) PROVE BatchIsQueue'
  <2>1. n = Len(sq)
    BY DEF Consumed
  <2>2. sq' \in Seq(Sqe) /\ Len(sq') = Len(sq) - n
    BY <1>0, <1>4, SubmitProperties
  <2>3. sq' = <<>>
    BY <1>0, <2>1, <2>2, EmptySeq
  <2>4. PendingSubmits' = <<>> /\ pc' # "submit"
    BY <1>4 DEF Submit, BatchLeft
  <2>5. QED  BY <2>3, <2>4 DEF BatchIsQueue
<1>5. CASE Engine
  <2>1. UNCHANGED <<sq, PendingSubmits, pc, NextRequest>>
    BY <1>5 DEF Engine, OpenContainer, CloseContainer, ServiceNotify, PushRequest,
                CancelRequest, ReleaseRequest, GetCompletedRequests, ringVars
  <2>2. QED  BY <1>1, <2>1
<1>6. CASE Kernel
  <2>1. UNCHANGED <<sq, PendingSubmits, pc, NextRequest>>
    BY <1>6 DEF Kernel, Complete
  <2>2. QED  BY <1>1, <2>1
<1>7. CASE \/ StartRequests \/ EnterRequestLoop \/ NoNextRequest
           \/ (\E f \in Files : UnregisterFile(f))
           \/ (\E b \in Buffers : AcquireBuffer(b))
           \/ NotifyDispatcher \/ SubmissionQueueFull \/ FlushBatch \/ FlushOverflow
           \/ ReapBatch \/ NothingToWaitFor \/ WaitEnter \/ WaitCqe
           \/ NotifyAndProcess \/ LoopOrReturn \/ ServiceWait
  <2>1. UNCHANGED <<sq, PendingSubmits>> /\ pc # "submit" /\ pc' # "submit"
    <3>1. CASE \/ StartRequests \/ EnterRequestLoop \/ NoNextRequest
               \/ (\E f \in Files : UnregisterFile(f))
               \/ (\E b \in Buffers : AcquireBuffer(b))
      BY <3>1 DEF StartRequests, EnterRequestLoop, NoNextRequest, UnregisterFile,
                  AcquireBuffer, ringVars
    <3>2. CASE NotifyDispatcher \/ SubmissionQueueFull \/ FlushBatch \/ FlushOverflow
               \/ ReapBatch
      BY <3>2 DEF NotifyDispatcher, SubmissionQueueFull, FlushBatch, FlushOverflow,
                  ReapBatch, ringVars
    <3>3. CASE NothingToWaitFor \/ WaitEnter \/ WaitCqe \/ NotifyAndProcess
               \/ LoopOrReturn \/ ServiceWait
      BY <3>3 DEF NothingToWaitFor, WaitEnter, WaitCqe, NotifyAndProcess, LoopOrReturn,
                  ServiceWait, ringVars
    <3>4. QED  BY <1>7, <3>1, <3>2, <3>3
  <2>2. QED  BY <1>1, <2>1
<1>8. CASE NothingReady \/ NotifyAndAdvance
  <2>1. processFrom \in {"request", "flush", "wait"} /\ pc' = AfterProcess
    BY <1>0, <1>8 DEF NothingReady, NotifyAndAdvance, TypeOK, ProcessCallers
  <2>2. pc' # "submit"
    BY <2>1 DEF AfterProcess
  <2>3. UNCHANGED <<sq, PendingSubmits>> /\ pc # "submit"
    BY <1>8 DEF NothingReady, NotifyAndAdvance, ringVars
  <2>4. QED  BY <1>1, <2>2, <2>3
<1>9. CASE \E r \in Requests :
              \/ PopRequest(r) \/ FileIsFixed(r) \/ OpenFails(r) \/ RegisterFile(r)
              \/ OutOfRegisteredFiles(r) \/ OnRequestComplete(r)
              \/ \E hit \in BOOLEAN : AllocateMemory(r, hit)
  <2>1. UNCHANGED <<sq, PendingSubmits>> /\ pc # "submit" /\ pc' # "submit"
    BY <1>9 DEF PopRequest, FileIsFixed, OpenFails, RegisterFile, OutOfRegisteredFiles,
                OnRequestComplete, AllocateMemory, ringVars
  <2>2. QED  BY <1>1, <2>1
<1>10. QED
  BY <1>2, <1>3, <1>4, <1>5, <1>6, <1>7, <1>8, <1>9, Zenon DEF Next, Service

\* As long as the kernel takes every entry it is offered, the pending batch is what
\* the submission queue holds, whatever the batch size and the ring's: the count
\* io_uring_submit returns is comparable with PendingSubmits.Num().
THEOREM BatchMatchesQueue ==
    ASSUME ~SubmitCanFail
    PROVE  Spec => []BatchIsQueue
<1>1. Init => BatchIsQueue
  BY DEF Init, BatchIsQueue
<1>2. IInv /\ BatchIsQueue /\ [Next]_vars => BatchIsQueue'
  <2>1. ASSUME IInv, BatchIsQueue, Next PROVE BatchIsQueue'
    BY <2>1, BatchStep
  <2>2. ASSUME BatchIsQueue, UNCHANGED vars PROVE BatchIsQueue'
    BY <2>2 DEF vars, ringVars, BatchIsQueue
  <2>3. QED  BY <2>1, <2>2
<1>3. QED  BY <1>1, <1>2, Inductive, PTL DEF Spec

-----------------------------------------------------------------------------
(* Wake-ups: what holds besides the two properties                           *)

\* The service's event is set, or a thread is about to set it.
Told == event \/ toNotify # {}

\* GetNextRequest has returned nullptr, and the request loop has not begun again.
PastRequests ==
    \/ pc \in {"flush", "waitcqe", "waited", "loop", "wait"}
    \/ pc = "enter" /\ submitFrom = "flush"
    \/ pc \in {"process", "reaped"} /\ processFrom # "request"

\* A closed file is unregistered at the next StartRequests, which there will be.
FilesTold == FilesToUnregister # <<>> => Told \/ pc \in {"start", "unregister"}

\* Once GetNextRequest has returned nullptr, only a notification brings work.
RequestsTold ==
    PastRequests =>
        Told \/ queue = {} \/ (AcquiredBuffer = None /\ freeBuffers = {})

WakeupInv == NoStrandedCompletion /\ FilesTold /\ RequestsTold

-----------------------------------------------------------------------------
(* Completions                                                               *)

\* Who adds to CompletedRequests wakes the dispatcher thread as its next step, and
\* that thread takes the whole list with its flag.
LEMMA CompletionStep ==
    ASSUME TypeOK, NoStrandedCompletion, Next
    PROVE  NoStrandedCompletion'
<1> USE DEF NoStrandedCompletion
<1>1. CASE Engine
  <2>1. CASE GetCompletedRequests
    BY <2>1 DEF GetCompletedRequests
  <2>2. CASE ~GetCompletedRequests
    <3>1. UNCHANGED <<CompletedRequests, wakeDispatcher, pc>>
      BY <1>1, <2>2 DEF Engine, OpenContainer, CloseContainer, ServiceNotify, PushRequest,
                        CancelRequest, ReleaseRequest
    <3>2. QED  BY <3>1
  <2>3. QED  BY <2>1, <2>2
<1>2. CASE Kernel
  <2>1. UNCHANGED <<CompletedRequests, wakeDispatcher, pc>>
    BY <1>2 DEF Kernel, Complete
  <2>2. QED  BY <2>1
<1>3. CASE NotifyDispatcher \/ NotifyAndAdvance \/ NotifyAndProcess
  <2>1. wakeDispatcher'
    BY <1>3 DEF NotifyDispatcher, NotifyAndAdvance, NotifyAndProcess, Woken
  <2>2. QED  BY <2>1
<1>4. CASE ReapBatch \/ WaitCqe \/ \E r \in Requests : OnRequestComplete(r)
  <2>1. pc' \in {"notify", "reaped", "waited"}
    BY <1>4 DEF ReapBatch, WaitCqe, OnRequestComplete
  <2>2. QED  BY <2>1
<1>5. ASSUME UNCHANGED <<CompletedRequests, wakeDispatcher>>,
             pc \notin {"notify", "reaped", "waited"}
      PROVE  NoStrandedCompletion'
  BY <1>5
<1>6. CASE StartRequests \/ EnterRequestLoop \/ NoNextRequest
           \/ (\E f \in Files : UnregisterFile(f))
           \/ (\E b \in Buffers : AcquireBuffer(b))
  BY <1>5, <1>6 DEF StartRequests, EnterRequestLoop, NoNextRequest, UnregisterFile,
                    AcquireBuffer
<1>7. CASE \E r \in Requests :
             \/ PopRequest(r) \/ FileIsFixed(r) \/ OpenFails(r) \/ RegisterFile(r)
             \/ OutOfRegisteredFiles(r)
  BY <1>5, <1>7 DEF PopRequest, FileIsFixed, OpenFails, RegisterFile, OutOfRegisteredFiles
<1>8. CASE \E r \in Requests :
             \/ IssueRequest(r) \/ SubmitRequest(r)
             \/ \E hit \in BOOLEAN : AllocateMemory(r, hit)
  BY <1>5, <1>8 DEF IssueRequest, SubmitRequest, AllocateMemory
<1>9. CASE SubmissionQueueFull \/ FlushBatch \/ (\E n \in Consumed : Submit(n))
  BY <1>5, <1>9 DEF SubmissionQueueFull, FlushBatch, Submit
<1>10. CASE NothingReady \/ FlushOverflow \/ NothingToWaitFor \/ WaitEnter
            \/ LoopOrReturn \/ ServiceWait
  BY <1>5, <1>10 DEF NothingReady, FlushOverflow, NothingToWaitFor, WaitEnter,
                     LoopOrReturn, ServiceWait
<1>11. QED
  BY <1>1, <1>2, <1>3, <1>4, <1>6, <1>7, <1>8, <1>9, <1>10 DEF Next, Service

-----------------------------------------------------------------------------
(* Closed files                                                              *)

LEMMA FilesToldStep ==
    ASSUME TypeOK, FilesTold, Next
    PROVE  FilesTold'
<1> USE DEF FilesTold, Told
<1>1. CASE Engine
  <2>1. CASE \E f \in Files : CloseContainer(f)
    BY <2>1 DEF CloseContainer, Notifies
  <2>2. CASE \E t \in toNotify : ServiceNotify(t)
    BY <2>2 DEF ServiceNotify, Triggered
  <2>3. CASE ~(\E f \in Files : CloseContainer(f)) /\ ~(\E t \in toNotify : ServiceNotify(t))
    <3>1. UNCHANGED <<FilesToUnregister, event, pc>> /\ toNotify \subseteq toNotify'
      BY <1>1, <2>3 DEF Engine, OpenContainer, PushRequest, CancelRequest, ReleaseRequest,
                        GetCompletedRequests, Notifies
    <3>2. QED  BY <3>1
  <2>4. QED  BY <2>1, <2>2, <2>3
<1>2. CASE Kernel
  BY <1>2 DEF Kernel, Complete, engineVars
<1>3. CASE StartRequests \/ EnterRequestLoop \/ ServiceWait
           \/ \E f \in Files : UnregisterFile(f)
  BY <1>3 DEF StartRequests, EnterRequestLoop, ServiceWait, UnregisterFile, engineVars
<1>4. ASSUME UNCHANGED <<FilesToUnregister, event, toNotify>>,
             pc \notin {"start", "unregister"}
      PROVE  FilesTold'
  BY <1>4
<1>5. CASE NoNextRequest \/ \E b \in Buffers : AcquireBuffer(b)
  BY <1>4, <1>5 DEF NoNextRequest, AcquireBuffer, engineVars
<1>6. CASE \E r \in Requests :
             \/ PopRequest(r) \/ FileIsFixed(r) \/ OpenFails(r) \/ RegisterFile(r)
             \/ OutOfRegisteredFiles(r) \/ OnRequestComplete(r)
  BY <1>4, <1>6 DEF PopRequest, FileIsFixed, OpenFails, RegisterFile, OutOfRegisteredFiles,
                    OnRequestComplete, engineVars
<1>7. CASE \E r \in Requests :
             \/ IssueRequest(r) \/ SubmitRequest(r)
             \/ \E hit \in BOOLEAN : AllocateMemory(r, hit)
  BY <1>4, <1>7 DEF IssueRequest, SubmitRequest, AllocateMemory, engineVars
<1>8. CASE NotifyDispatcher \/ SubmissionQueueFull \/ FlushBatch
           \/ \E n \in Consumed : Submit(n)
  BY <1>4, <1>8 DEF NotifyDispatcher, SubmissionQueueFull, FlushBatch, Submit, engineVars
<1>9. CASE NothingReady \/ FlushOverflow \/ ReapBatch \/ NotifyAndAdvance
  BY <1>4, <1>9 DEF NothingReady, FlushOverflow, ReapBatch, NotifyAndAdvance, engineVars
<1>10. CASE NothingToWaitFor \/ WaitEnter \/ WaitCqe \/ NotifyAndProcess \/ LoopOrReturn
  BY <1>4, <1>10 DEF NothingToWaitFor, WaitEnter, WaitCqe, NotifyAndProcess, LoopOrReturn,
                     engineVars
<1>11. QED
  BY <1>1, <1>2, <1>3, <1>5, <1>6, <1>7, <1>8, <1>9, <1>10 DEF Next, Service

-----------------------------------------------------------------------------
(* Queued requests                                                           *)

\* What a service step past the requests must not disturb.
requestVars == <<event, toNotify, queue, AcquiredBuffer, freeBuffers>>

LEMMA RequestsToldStep ==
    ASSUME TypeOK, RequestsTold, Next
    PROVE  RequestsTold'
<1> USE DEF RequestsTold
<1>1. ASSUME UNCHANGED requestVars, PastRequests' => PastRequests
      PROVE  RequestsTold'
  BY <1>1 DEF requestVars, Told
<1>2. CASE Engine
  <2>1. CASE (\E t \in toNotify : ServiceNotify(t)) \/ (\E r \in Requests : PushRequest(r))
    BY <2>1 DEF ServiceNotify, PushRequest, Triggered, Notifies, Told
  <2>2. CASE \E r \in Requests : ReleaseRequest(r)
    <3>1. PICK r \in Requests : ReleaseRequest(r)
      BY <2>2
    <3>2. /\ UNCHANGED <<event, queue, AcquiredBuffer, pc, callVars>>
          /\ toNotify' = IF buffer[r] = None THEN toNotify ELSE toNotify \cup {"io"}
          /\ freeBuffers' = freeBuffers \cup ({buffer[r]} \ {None})
      BY <3>1 DEF ReleaseRequest
    <3>3. CASE buffer[r] = None
      <4>1. UNCHANGED requestVars
        BY <3>2, <3>3 DEF requestVars
      <4>2. QED  BY <1>1, <3>2, <4>1 DEF PastRequests, callVars
    <3>4. CASE buffer[r] # None
      BY <3>2, <3>4 DEF Told
    <3>5. QED  BY <3>3, <3>4
  <2>3. CASE ~(\E t \in toNotify : ServiceNotify(t))
             /\ ~(\E r \in Requests : PushRequest(r) \/ ReleaseRequest(r))
    <3>1. /\ UNCHANGED <<event, queue, AcquiredBuffer, freeBuffers, pc, callVars>>
          /\ toNotify \subseteq toNotify'
      BY <1>2, <2>3 DEF Engine, OpenContainer, CloseContainer, CancelRequest,
                        GetCompletedRequests, Notifies
    <3>2. QED  BY <3>1 DEF PastRequests, callVars, Told
  <2>4. QED  BY <2>1, <2>2, <2>3
<1>3. CASE Kernel
  <2>1. UNCHANGED requestVars /\ UNCHANGED <<pc, callVars>>
    BY <1>3 DEF Kernel, Complete, engineVars, requestVars
  <2>2. QED  BY <1>1, <2>1 DEF PastRequests, callVars
<1>4. CASE NoNextRequest
  <2>1. /\ UNCHANGED <<queue, AcquiredBuffer, freeBuffers>>
        /\ IF AcquiredBuffer = None THEN freeBuffers = {} ELSE queue = {}
    BY <1>4 DEF NoNextRequest, engineVars
  <2>2. QED  BY <2>1
<1>5. CASE ~PastRequests'
  BY <1>5
<1>6. CASE StartRequests \/ EnterRequestLoop \/ (\E f \in Files : UnregisterFile(f))
           \/ (\E b \in Buffers : AcquireBuffer(b)) \/ NotifyDispatcher \/ ServiceWait
  <2>1. pc' \in {"start", "unregister", "next"}
    BY <1>6 DEF StartRequests, EnterRequestLoop, UnregisterFile, AcquireBuffer,
                NotifyDispatcher, ServiceWait
  <2>2. QED  BY <1>5, <2>1 DEF PastRequests
<1>7. CASE \E r \in Requests :
             \/ PopRequest(r) \/ FileIsFixed(r) \/ OpenFails(r) \/ RegisterFile(r)
             \/ OutOfRegisteredFiles(r) \/ OnRequestComplete(r) \/ IssueRequest(r)
             \/ \E hit \in BOOLEAN : AllocateMemory(r, hit)
  <2>1. pc' \in {"completed", "open", "alloc", "fatal", "issue", "notify", "submit"}
    BY <1>7 DEF PopRequest, FileIsFixed, OpenFails, RegisterFile, OutOfRegisteredFiles,
                OnRequestComplete, IssueRequest, AllocateMemory
  <2>2. QED  BY <1>5, <2>1 DEF PastRequests
<1>8. CASE SubmissionQueueFull \/ \E r \in Requests : SubmitRequest(r)
  <2>1. \/ pc' = "enter" /\ submitFrom' \in {"full", "request"}
        \/ pc' = "process" /\ processFrom' = "request"
    BY <1>8 DEF SubmissionQueueFull, SubmitRequest
  <2>2. QED  BY <1>5, <2>1 DEF PastRequests
<1>9. CASE FlushBatch
  <2>1. UNCHANGED requestVars /\ pc = "flush"
    BY <1>9 DEF FlushBatch, engineVars, requestVars
  <2>2. QED  BY <1>1, <2>1 DEF PastRequests
<1>10. ASSUME NEW n \in Consumed, Submit(n) PROVE RequestsTold'
  <2>1. /\ UNCHANGED requestVars /\ pc = "enter"
        /\ IF submitFrom = "full" THEN pc' = "issue"
           ELSE pc' = "process" /\ processFrom' = submitFrom
    BY <1>10 DEF Submit, engineVars, requestVars
  <2>2. submitFrom \in {"request", "full", "flush"}
    BY DEF TypeOK, SubmitCallers
  <2>3. PastRequests' => PastRequests
    BY <2>1, <2>2 DEF PastRequests
  <2>4. QED  BY <1>1, <2>1, <2>3
<1>11. CASE NothingReady \/ NotifyAndAdvance
  <2>1. UNCHANGED requestVars /\ pc \in {"process", "reaped"} /\ pc' = AfterProcess
    BY <1>11 DEF NothingReady, NotifyAndAdvance, engineVars, requestVars
  <2>2. processFrom = "request" => pc' = "next"
    BY <2>1 DEF AfterProcess
  <2>3. PastRequests' => PastRequests
    BY <2>1, <2>2 DEF PastRequests
  <2>4. QED  BY <1>1, <2>1, <2>3
<1>12. CASE FlushOverflow \/ ReapBatch
  <2>1. /\ UNCHANGED requestVars /\ UNCHANGED callVars
        /\ pc = "process" /\ pc' \in {"process", "reaped"}
    BY <1>12 DEF FlushOverflow, ReapBatch, engineVars, requestVars
  <2>2. QED  BY <1>1, <2>1 DEF PastRequests, callVars
<1>13. CASE NothingToWaitFor \/ WaitEnter \/ WaitCqe \/ NotifyAndProcess \/ LoopOrReturn
  <2>1. UNCHANGED requestVars /\ pc \in {"waitcqe", "waited", "loop"}
    BY <1>13 DEF NothingToWaitFor, WaitEnter, WaitCqe, NotifyAndProcess, LoopOrReturn,
                 engineVars, requestVars
  <2>2. QED  BY <1>1, <2>1 DEF PastRequests
<1>14. QED
  BY <1>2, <1>3, <1>4, <1>6, <1>7, <1>8, <1>9, <1>10, <1>11, <1>12, <1>13
  DEF Next, Service

-----------------------------------------------------------------------------
(* The theorems                                                              *)

LEMMA WakeupInvariance == Spec => []WakeupInv
<1>1. Init => WakeupInv
  BY DEF Init, WakeupInv, NoStrandedCompletion, FilesTold, RequestsTold, PastRequests
<1>2. TypeOK /\ WakeupInv /\ [Next]_vars => WakeupInv'
  <2>1. ASSUME TypeOK, WakeupInv, Next PROVE WakeupInv'
    BY <2>1, CompletionStep, FilesToldStep, RequestsToldStep DEF WakeupInv
  <2>2. ASSUME WakeupInv, UNCHANGED vars PROVE WakeupInv'
    BY <2>2 DEF WakeupInv, NoStrandedCompletion, FilesTold, RequestsTold, PastRequests, Told,
                vars, engineVars, callVars
  <2>3. QED  BY <2>1, <2>2
<1>3. QED  BY <1>1, <1>2, TypeCorrect, PTL DEF Spec

\* ServiceWait does not sleep through a request that was pushed, a buffer that was
\* released or a container that was closed while StartRequests was on its way out:
\* the notification comes after what it tells of, and the event remembers it.
THEOREM ServiceNotStranded == Spec => []NoStrandedWork
<1>1. WakeupInv => NoStrandedWork
  BY DEF WakeupInv, FilesTold, RequestsTold, PastRequests, Told, NoStrandedWork
<1>2. QED  BY <1>1, WakeupInvariance, PTL

\* The dispatcher thread hears of every completed request, by whichever of the
\* three ways the request came to CompletedRequests.
THEOREM CompletionsNotStranded == Spec => []NoStrandedCompletion
<1>1. WakeupInv => NoStrandedCompletion
  BY DEF WakeupInv
<1>2. QED  BY <1>1, WakeupInvariance, PTL


-----------------------------------------------------------------------------
(* The store: what is known of flags, containers and data                    *)

\* The engine reads from open containers only; an open or closing one has its
\* handle, and a closing one is on the list once.
MountsKnown ==
    /\ \A r \in queue : FileOf[r] \in containers
    /\ \A f \in containers : state[f] # "Deleted" /\ f \notin ToSet(FilesToUnregister)
    /\ \A f \in ToSet(FilesToUnregister) : state[f] # "Deleted"
    /\ \A i, j \in DOMAIN FilesToUnregister :
          FilesToUnregister[i] = FilesToUnregister[j] => i = j
    /\ NextRequest # None => state[FileOf[NextRequest]] # "Deleted"

\* A cancelled request never gets a buffer, and only the others can fail.
FlagsKnown ==
    /\ \A r \in idle : r \notin bCancelled /\ r \notin bFailed
    /\ \A r \in queue : r \notin bFailed
    /\ \A r \in bCancelled : r \notin bFailed /\ buffer[r] = None
    /\ pc \in {"open", "alloc"} => NextRequest \notin bCancelled

\* A read goes to the ring with a buffer.
BuffersKnown ==
    /\ pc \in {"open", "alloc"} => AcquiredBuffer # None
    /\ Issuing => buffer[NextRequest] # None
    /\ \A i \in DOMAIN sq : sq[i].buf # None
    /\ \A i \in DOMAIN inflight : inflight[i].buf # None

\* A good completion means that the buffer has the request's data, until it is reaped.
HasData(r) == buffer[r] # None /\ content[buffer[r]] = r
Delivers(c) == buffer[c.req] # None /\ (c.ok => HasData(c.req))
CompletionsKnown ==
    /\ \A i \in DOMAIN deferred : Delivers(deferred[i])
    /\ \A i \in DOMAIN overflow : Delivers(overflow[i])
    /\ \A i \in DOMAIN cq : i > ready => Delivers(cq[i])

\* A request is completed without the ring only with an answer.
AnswerKnown ==
    pc = "completed" => NextRequest \in bFailed \cup bCancelled \/ HasData(NextRequest)

StoreInv == MountsKnown /\ FlagsKnown /\ BuffersKnown /\ CompletionsKnown /\ AnswerKnown

\* What the dispatcher's other invariants say.
Known == IInv /\ BufferInv /\ \A r \in Requests : InOnePlace(r)

-----------------------------------------------------------------------------
(* Where a request is not                                                    *)

LEMMA InRingOnly ==
    ASSUME IInv, NEW r \in Requests, InOnePlace(r), RingHas(r) # 0
    PROVE  /\ r \notin idle /\ r \notin queue /\ r \notin delivered
           /\ r = NextRequest => pc = "submit"
           /\ r \notin ToSet(CompletedRequests)
<1>1. /\ EngineHas(r) \in Nat /\ ServiceHas(r) \in Nat /\ RingHas(r) \in Nat
      /\ CompletedHas(r) \in Nat
      /\ CompletedHas(r) = 0 <=> r \notin ToSet(CompletedRequests)
  BY PartsAreNat
<1>2. EngineHas(r) + ServiceHas(r) + RingHas(r) + CompletedHas(r) = 1
  BY DEF InOnePlace
<1>3. \A e, s, g, c \in Nat : g # 0 /\ e + s + g + c = 1 => e = 0 /\ s = 0 /\ c = 0
  OBVIOUS
<1>4. EngineHas(r) = 0 /\ ServiceHas(r) = 0 /\ CompletedHas(r) = 0
  BY <1>1, <1>2, <1>3
<1>5. r \notin idle /\ r \notin queue /\ r \notin delivered
  BY <1>4 DEF EngineHas, Bit
<1>6. r = NextRequest => pc = "submit"
  BY <1>4 DEF ServiceHas, Bit
<1>7. QED  BY <1>1, <1>4, <1>5, <1>6

LEMMA InHandOnly ==
    ASSUME IInv, NEW r \in Requests, InOnePlace(r), r = NextRequest, pc # "submit"
    PROVE  /\ r \notin idle /\ r \notin queue /\ r \notin delivered
           /\ RingHas(r) = 0
           /\ r \notin ToSet(CompletedRequests)
<1>1. /\ EngineHas(r) \in Nat /\ ServiceHas(r) \in Nat /\ RingHas(r) \in Nat
      /\ CompletedHas(r) \in Nat
      /\ CompletedHas(r) = 0 <=> r \notin ToSet(CompletedRequests)
  BY PartsAreNat
<1>2. EngineHas(r) + ServiceHas(r) + RingHas(r) + CompletedHas(r) = 1
  BY DEF InOnePlace
<1>3. \A e, g, c \in Nat : e + 1 + g + c = 1 => e = 0 /\ g = 0 /\ c = 0
  OBVIOUS
<1>4. ServiceHas(r) = 1
  BY DEF ServiceHas, Bit
<1>5. EngineHas(r) = 0 /\ RingHas(r) = 0 /\ CompletedHas(r) = 0
  BY <1>1, <1>2, <1>3, <1>4
<1>6. QED  BY <1>1, <1>5 DEF EngineHas, Bit

LEMMA InEngineOnly ==
    ASSUME IInv, NEW r \in Requests, InOnePlace(r)
    PROVE  /\ r \in idle => r \notin queue /\ r \notin delivered
           /\ r \in queue => r \notin idle /\ r \notin delivered
           /\ r \in delivered => r \notin idle /\ r \notin queue
           /\ r \in idle \cup queue \cup delivered =>
                 /\ RingHas(r) = 0 /\ r \notin ToSet(CompletedRequests)
                 /\ r = NextRequest => pc = "submit"
<1>1. /\ EngineHas(r) \in Nat /\ ServiceHas(r) \in Nat /\ RingHas(r) \in Nat
      /\ CompletedHas(r) \in Nat
      /\ CompletedHas(r) = 0 <=> r \notin ToSet(CompletedRequests)
  BY PartsAreNat
<1>2. EngineHas(r) + ServiceHas(r) + RingHas(r) + CompletedHas(r) = 1
  BY DEF InOnePlace
<1>3. EngineHas(r) <= 1
  BY <1>1, <1>2
<1>4. /\ r \in idle => r \notin queue /\ r \notin delivered
      /\ r \in queue => r \notin idle /\ r \notin delivered
      /\ r \in delivered => r \notin idle /\ r \notin queue
  BY <1>3 DEF EngineHas, Bit
<1>5. ASSUME r \in idle \cup queue \cup delivered
      PROVE  /\ RingHas(r) = 0 /\ r \notin ToSet(CompletedRequests)
             /\ r = NextRequest => pc = "submit"
  <2>1. EngineHas(r) >= 1
    BY <1>5 DEF EngineHas, Bit
  <2>2. \A e, s, g, c \in Nat : e >= 1 /\ e + s + g + c = 1 => s = 0 /\ g = 0 /\ c = 0
    OBVIOUS
  <2>3. ServiceHas(r) = 0 /\ RingHas(r) = 0 /\ CompletedHas(r) = 0
    BY <1>1, <1>2, <2>1, <2>2
  <2>4. QED  BY <1>1, <2>3 DEF ServiceHas, Bit
<1>6. QED  BY <1>4, <1>5

\* Entries and completions are of requests in the ring, and each of another one.
LEMMA EntriesInRing ==
    ASSUME IInv, \A r \in Requests : InOnePlace(r)
    PROVE  /\ \A i \in DOMAIN inflight :
                 /\ inflight[i].req \in Requests /\ RingHas(inflight[i].req) # 0
                 /\ \A j \in DOMAIN deferred : deferred[j].req # inflight[i].req
                 /\ \A j \in DOMAIN overflow : overflow[j].req # inflight[i].req
                 /\ \A j \in DOMAIN cq : j > ready => cq[j].req # inflight[i].req
           /\ \A j \in DOMAIN deferred :
                 deferred[j].req \in Requests /\ RingHas(deferred[j].req) # 0
           /\ \A j \in DOMAIN overflow :
                 overflow[j].req \in Requests /\ RingHas(overflow[j].req) # 0
           /\ \A j \in DOMAIN cq :
                 /\ cq[j].req \in Requests
                 /\ j > ready => RingHas(cq[j].req) # 0
<1>0. /\ TypeOK /\ RingBounds
      /\ sq \in Seq(Sqe) /\ inflight \in Seq(Op) /\ deferred \in Seq(Cqe)
      /\ overflow \in Seq(Cqe) /\ cq \in Seq(Cqe) /\ ready \in 0 .. Len(cq)
      /\ Len(cq) \in Nat /\ DOMAIN cq = 1 .. Len(cq)
  BY LenProperties DEF IInv, TypeOK, RingBounds
<1>1. /\ \A i \in DOMAIN inflight : inflight[i].req \in Requests
      /\ \A i \in DOMAIN deferred : deferred[i].req \in Requests
      /\ \A i \in DOMAIN overflow : overflow[i].req \in Requests
      /\ \A i \in DOMAIN cq : cq[i].req \in Requests
  <2>1. /\ \A i \in DOMAIN inflight : inflight[i] \in Op
        /\ \A i \in DOMAIN deferred : deferred[i] \in Cqe
        /\ \A i \in DOMAIN overflow : overflow[i] \in Cqe
        /\ \A i \in DOMAIN cq : cq[i] \in Cqe
    BY <1>0, LenProperties, ElementOfSeq
  <2>2. QED  BY <2>1 DEF Op, Cqe
<1>2. \A r \in Requests :
        /\ Times(r, sq) \in Nat /\ Times(r, inflight) \in Nat
        /\ Times(r, deferred) \in Nat /\ Times(r, overflow) \in Nat
        /\ Times(r, Unreaped) \in Nat
        /\ EngineHas(r) \in Nat /\ ServiceHas(r) \in Nat /\ RingHas(r) \in Nat
        /\ CompletedHas(r) \in Nat
  BY <1>0, PlacesTypes, PartsAreNat
<1>3. \A r \in Requests : RingHas(r) <= 1
  <2>1. \A e, s, g, c \in Nat : e + s + g + c = 1 => g <= 1
    OBVIOUS
  <2>2. QED  BY <1>2, <2>1 DEF InOnePlace
<1>4. \A r \in Requests :
        /\ Times(r, inflight) = 0 <=> \A i \in DOMAIN inflight : inflight[i].req # r
        /\ Times(r, deferred) = 0 <=> \A i \in DOMAIN deferred : deferred[i].req # r
        /\ Times(r, overflow) = 0 <=> \A i \in DOMAIN overflow : overflow[i].req # r
  BY <1>0, TimesType
<1>5. \A r \in Requests :
        Times(r, Unreaped) = 0 <=> \A j \in DOMAIN cq : j > ready => cq[j].req # r
  <2> SUFFICES ASSUME NEW r \in Requests
               PROVE  Times(r, Unreaped) = 0 <=>
                        \A j \in DOMAIN cq : j > ready => cq[j].req # r
    OBVIOUS
  <2>1. /\ Unreaped \in Seq(Cqe) /\ Len(Unreaped) = Len(cq) - ready
        /\ \A j \in 1 .. Len(cq) - ready : Unreaped[j] = cq[ready + j]
    BY <1>0, DropProperties DEF Unreaped
  <2>2. DOMAIN Unreaped = 1 .. Len(cq) - ready
    BY <2>1, LenProperties
  <2>3. Times(r, Unreaped) = 0 <=> \A j \in DOMAIN Unreaped : Unreaped[j].req # r
    BY <2>1, TimesType
  <2>4. ASSUME \A j \in DOMAIN Unreaped : Unreaped[j].req # r, NEW j \in DOMAIN cq, j > ready
        PROVE  cq[j].req # r
    <3>1. j - ready \in 1 .. Len(cq) - ready /\ ready + (j - ready) = j
      BY <1>0, <2>4
    <3>2. QED  BY <2>1, <2>2, <2>4, <3>1
  <2>5. ASSUME \A j \in DOMAIN cq : j > ready => cq[j].req # r, NEW j \in DOMAIN Unreaped
        PROVE  Unreaped[j].req # r
    <3>1. ready + j \in DOMAIN cq /\ ready + j > ready
      BY <1>0, <2>2
    <3>2. QED  BY <2>1, <2>2, <2>5, <3>1
  <2>6. QED  BY <2>3, <2>4, <2>5
<1>6. \A a, b, c, d, e \in Nat :
        /\ a # 0 \/ b # 0 \/ c # 0 \/ d # 0 \/ e # 0 => a + b + c + d + e # 0
        /\ b # 0 /\ a + b + c + d + e <= 1 => c = 0 /\ d = 0 /\ e = 0
  OBVIOUS
<1>7. \A r \in Requests :
        /\ \/ Times(r, inflight) # 0 \/ Times(r, deferred) # 0 \/ Times(r, overflow) # 0
           \/ Times(r, Unreaped) # 0
           => RingHas(r) # 0
        /\ Times(r, inflight) # 0 =>
             Times(r, deferred) = 0 /\ Times(r, overflow) = 0 /\ Times(r, Unreaped) = 0
  BY <1>2, <1>3, <1>6 DEF RingHas
<1>8. ASSUME NEW i \in DOMAIN inflight
      PROVE  /\ inflight[i].req \in Requests /\ RingHas(inflight[i].req) # 0
             /\ \A j \in DOMAIN deferred : deferred[j].req # inflight[i].req
             /\ \A j \in DOMAIN overflow : overflow[j].req # inflight[i].req
             /\ \A j \in DOMAIN cq : j > ready => cq[j].req # inflight[i].req
  <2>1. PICK r \in Requests : r = inflight[i].req
    BY <1>1
  <2>2. Times(r, inflight) # 0
    BY <1>4, <2>1
  <2>3. QED  BY <1>4, <1>5, <1>7, <2>1, <2>2
<1>9. QED  BY <1>1, <1>4, <1>5, <1>7, <1>8

-----------------------------------------------------------------------------
(* The store's invariant holds in every step                                 *)

LEMMA MountsStep ==
    ASSUME Known, MountsKnown, Next
    PROVE  MountsKnown'
<1> USE Constants
<1>0. /\ IInv /\ TypeOK /\ \A r \in Requests : InOnePlace(r)
      /\ FilesToUnregister \in Seq(Files) /\ Len(FilesToUnregister) \in Nat
      /\ DOMAIN FilesToUnregister = 1 .. Len(FilesToUnregister)
      /\ state \in [Files -> {"Deleted", "Closed", "Fixed"}]
      /\ NextRequest \in Requests \cup {None} /\ containers \subseteq Files
      /\ queue \subseteq Requests
  BY LenProperties DEF Known, IInv, TypeOK
<1>1. ASSUME NEW f \in Files, OpenContainer(f) PROVE MountsKnown'
  <2>1. /\ state[f] = "Deleted" /\ state' = [state EXCEPT ![f] = "Closed"]
        /\ containers' = containers \cup {f}
        /\ UNCHANGED <<queue, FilesToUnregister, NextRequest>>
    BY <1>1 DEF OpenContainer
  <2>2. /\ state'[f] = "Closed" /\ \A g \in Files \ {f} : state'[g] = state[g]
    BY <1>0, <2>1
  <2>3. ToSet(FilesToUnregister) \subseteq Files
    BY <1>0, ElementOfSeq DEF ToSet
  <2>4. QED  BY <1>0, <2>1, <2>2, <2>3 DEF MountsKnown
<1>2. ASSUME NEW f \in Files, CloseContainer(f) PROVE MountsKnown'
  <2>1. /\ f \in containers /\ containers' = containers \ {f}
        /\ FilesToUnregister' = Append(FilesToUnregister, f)
        /\ UNCHANGED <<queue, state, NextRequest>>
        /\ \A r \in Requests : FileOf[r] = f => r \in idle \cup delivered \/ r \notin queue
    BY <1>2 DEF CloseContainer, fileVars
  <2>2. \A r \in queue : FileOf[r] # f
    BY <1>0, <2>1, InEngineOnly
  <2>3. /\ Len(Append(FilesToUnregister, f)) = Len(FilesToUnregister) + 1
        /\ Append(FilesToUnregister, f) \in Seq(Files)
        /\ \A i \in 1 .. Len(FilesToUnregister) :
             Append(FilesToUnregister, f)[i] = FilesToUnregister[i]
        /\ Append(FilesToUnregister, f)[Len(FilesToUnregister) + 1] = f
    BY <1>0, AppendProperties
  <2>4. DOMAIN FilesToUnregister' = 1 .. Len(FilesToUnregister) + 1
    BY <2>1, <2>3, LenProperties
  <2>5. ToSet(FilesToUnregister') = ToSet(FilesToUnregister) \cup {f}
    <3>1. ASSUME NEW g
          PROVE  g \in ToSet(FilesToUnregister') <=> g \in ToSet(FilesToUnregister) \/ g = f
      <4>1. CASE g \in ToSet(FilesToUnregister) \/ g = f
        <5>1. \E i \in 1 .. Len(FilesToUnregister) + 1 : FilesToUnregister'[i] = g
          <6>1. CASE g = f
            BY <1>0, <2>1, <2>3, <6>1
          <6>2. CASE g \in ToSet(FilesToUnregister)
            BY <1>0, <2>1, <2>3, <6>2 DEF ToSet
          <6>3. QED  BY <4>1, <6>1, <6>2
        <5>2. QED  BY <2>4, <4>1, <5>1 DEF ToSet
      <4>2. CASE g \in ToSet(FilesToUnregister')
        <5>1. PICK i \in 1 .. Len(FilesToUnregister) + 1 : FilesToUnregister'[i] = g
          BY <2>4, <4>2 DEF ToSet
        <5>2. CASE i = Len(FilesToUnregister) + 1
          <6>1. FilesToUnregister'[Len(FilesToUnregister) + 1] = f
            BY <2>1, <2>3
          <6>2. QED  BY <4>2, <5>1, <5>2, <6>1, Zenon
        <5>3. CASE i \in 1 .. Len(FilesToUnregister)
          BY <1>0, <2>1, <2>3, <5>1, <5>3 DEF ToSet
        <5>4. QED  BY <1>0, <4>2, <5>2, <5>3
      <4>3. QED  BY <4>1, <4>2
    <3>2. QED  BY <3>1
  <2>6. \A i, j \in DOMAIN FilesToUnregister' :
           FilesToUnregister'[i] = FilesToUnregister'[j] => i = j
    <3>1. \A i \in 1 .. Len(FilesToUnregister) : FilesToUnregister[i] # f
      BY <1>0, <2>1 DEF MountsKnown, ToSet
    <3>2. \A i \in 1 .. Len(FilesToUnregister) + 1 :
             i \in 1 .. Len(FilesToUnregister) \/ i = Len(FilesToUnregister) + 1
      BY <1>0
    <3>3. QED  BY <1>0, <2>1, <2>3, <2>4, <3>1, <3>2 DEF MountsKnown
  <2>7. QED  BY <2>1, <2>2, <2>5, <2>6 DEF MountsKnown
<1>3. ASSUME NEW f \in Files, UnregisterFile(f) PROVE MountsKnown'
  <2>1. /\ pc = "unregister" /\ FilesToUnregister # <<>> /\ f = Head(FilesToUnregister)
        /\ FilesToUnregister' = Tail(FilesToUnregister)
        /\ state' = [state EXCEPT ![f] = "Deleted"]
        /\ UNCHANGED <<queue, containers, NextRequest>>
    BY <1>3 DEF UnregisterFile, engineVars
  <2>2. NextRequest = None
    BY <1>0, <2>1 DEF IInv, RequestInHand, Issuing
  <2>3. /\ Len(FilesToUnregister) # 0 /\ f = FilesToUnregister[1]
        /\ Tail(FilesToUnregister) \in Seq(Files)
        /\ Len(Tail(FilesToUnregister)) = Len(FilesToUnregister) - 1
        /\ \A i \in 1 .. Len(FilesToUnregister) - 1 :
             Tail(FilesToUnregister)[i] = FilesToUnregister[i + 1]
    BY <1>0, <2>1, HeadTailProperties, EmptySeq
  <2>4. DOMAIN FilesToUnregister' = 1 .. Len(FilesToUnregister) - 1
    BY <2>1, <2>3, LenProperties
  <2>5. \A i \in 1 .. Len(FilesToUnregister) - 1 :
           /\ i + 1 \in DOMAIN FilesToUnregister /\ i + 1 # 1
           /\ FilesToUnregister'[i] = FilesToUnregister[i + 1]
    BY <1>0, <2>1, <2>3
  <2>6. 1 \in DOMAIN FilesToUnregister
    BY <1>0, <2>3
  <2>7. /\ f \in ToSet(FilesToUnregister)
        /\ ToSet(FilesToUnregister') \subseteq ToSet(FilesToUnregister) \ {f}
    BY <2>3, <2>4, <2>5, <2>6 DEF MountsKnown, ToSet
  <2>8. \A i, j \in DOMAIN FilesToUnregister' :
           FilesToUnregister'[i] = FilesToUnregister'[j] => i = j
    <3> SUFFICES ASSUME NEW i \in 1 .. Len(FilesToUnregister) - 1,
                        NEW j \in 1 .. Len(FilesToUnregister) - 1,
                        FilesToUnregister'[i] = FilesToUnregister'[j]
                 PROVE  i = j
      BY <2>4
    <3>1. i + 1 = j + 1
      BY <2>5 DEF MountsKnown
    <3>2. QED  BY <1>0, <3>1
  <2>9. f \notin containers
    BY <2>7 DEF MountsKnown
  <2>10. \A g \in Files \ {f} : state'[g] = state[g]
    BY <1>0, <2>1
  <2>11. ToSet(FilesToUnregister) \subseteq Files
    BY <1>0, ElementOfSeq DEF ToSet
  <2>12. QED
    BY <1>0, <2>1, <2>2, <2>7, <2>8, <2>9, <2>10, <2>11 DEF MountsKnown
<1>4. ASSUME NEW q \in Requests, PushRequest(q) PROVE MountsKnown'
  <2>1. /\ FileOf[q] \in containers /\ queue' = queue \cup {q}
        /\ UNCHANGED <<containers, state, FilesToUnregister, NextRequest>>
    BY <1>4 DEF PushRequest, fileVars
  <2>2. QED  BY <2>1 DEF MountsKnown
<1>5. ASSUME NEW q \in Requests, PopRequest(q) PROVE MountsKnown'
  <2>1. /\ q \in queue /\ queue' = queue \ {q} /\ NextRequest' = q
        /\ UNCHANGED <<containers, state, FilesToUnregister>>
    BY <1>5 DEF PopRequest, fileVars
  <2>2. QED  BY <2>1 DEF MountsKnown
<1>6. ASSUME NEW q \in Requests, OnRequestComplete(q) \/ SubmitRequest(q)
      PROVE  MountsKnown'
  <2>1. /\ NextRequest' = None
        /\ UNCHANGED <<queue, containers, state, FilesToUnregister>>
    BY <1>6 DEF OnRequestComplete, SubmitRequest, fileVars, engineVars
  <2>2. QED  BY <2>1 DEF MountsKnown
<1>7. ASSUME NEW q \in Requests, RegisterFile(q) PROVE MountsKnown'
  <2>1. /\ state' = [state EXCEPT ![FileOf[q]] = "Fixed"]
        /\ UNCHANGED <<queue, containers, FilesToUnregister, NextRequest>>
    BY <1>7 DEF RegisterFile, engineVars
  <2>2. \A g \in Files : state[g] # "Deleted" => state'[g] # "Deleted"
    BY <1>0, <2>1
  <2>3. ToSet(FilesToUnregister) \subseteq Files
    BY <1>0, ElementOfSeq DEF ToSet
  <2>4. QED  BY <1>0, <2>1, <2>2, <2>3 DEF MountsKnown
<1>8. ASSUME UNCHANGED <<queue, containers, state, FilesToUnregister, NextRequest>>
      PROVE  MountsKnown'
  BY <1>8 DEF MountsKnown
<1>9. CASE Engine
  <2>1. CASE \/ \E t \in toNotify : ServiceNotify(t)
             \/ \E r \in Requests : CancelRequest(r) \/ ReleaseRequest(r)
             \/ GetCompletedRequests
    <3>1. UNCHANGED <<queue, containers, state, FilesToUnregister, NextRequest>>
      BY <2>1 DEF ServiceNotify, CancelRequest, ReleaseRequest, GetCompletedRequests, fileVars
    <3>2. QED  BY <1>8, <3>1
  <2>2. QED  BY <1>1, <1>2, <1>4, <1>9, <2>1 DEF Engine
<1>10. CASE Kernel
  <2>1. UNCHANGED <<queue, containers, state, FilesToUnregister, NextRequest>>
    BY <1>10 DEF Kernel, Complete, fileVars, engineVars
  <2>2. QED  BY <1>8, <2>1
<1>11. CASE \/ StartRequests \/ EnterRequestLoop \/ NoNextRequest
            \/ (\E b \in Buffers : AcquireBuffer(b))
            \/ NotifyDispatcher \/ SubmissionQueueFull \/ FlushBatch \/ NothingReady
            \/ FlushOverflow \/ ReapBatch \/ NotifyAndAdvance \/ NothingToWaitFor
            \/ WaitEnter \/ WaitCqe \/ NotifyAndProcess \/ LoopOrReturn \/ ServiceWait
  <2>1. UNCHANGED <<queue, containers, state, FilesToUnregister, NextRequest>>
    <3>1. CASE \/ StartRequests \/ EnterRequestLoop \/ NoNextRequest
               \/ (\E b \in Buffers : AcquireBuffer(b))
      BY <3>1 DEF StartRequests, EnterRequestLoop, NoNextRequest, AcquireBuffer,
                  engineVars, fileVars
    <3>2. CASE NotifyDispatcher \/ SubmissionQueueFull \/ FlushBatch \/ NothingReady
               \/ FlushOverflow \/ ReapBatch \/ NotifyAndAdvance
      BY <3>2 DEF NotifyDispatcher, SubmissionQueueFull, FlushBatch, NothingReady,
                  FlushOverflow, ReapBatch, NotifyAndAdvance, engineVars, fileVars
    <3>3. CASE NothingToWaitFor \/ WaitEnter \/ WaitCqe \/ NotifyAndProcess
               \/ LoopOrReturn \/ ServiceWait
      BY <3>3 DEF NothingToWaitFor, WaitEnter, WaitCqe, NotifyAndProcess, LoopOrReturn,
                  ServiceWait, engineVars, fileVars
    <3>4. QED  BY <1>11, <3>1, <3>2, <3>3
  <2>2. QED  BY <1>8, <2>1
<1>12. CASE \/ \E r \in Requests : \/ FileIsFixed(r) \/ OpenFails(r)
                                 \/ OutOfRegisteredFiles(r) \/ IssueRequest(r)
                                 \/ \E hit \in BOOLEAN : AllocateMemory(r, hit)
            \/ \E n \in Consumed : Submit(n)
  <2>1. UNCHANGED <<queue, containers, state, FilesToUnregister, NextRequest>>
    BY <1>12 DEF FileIsFixed, OpenFails, OutOfRegisteredFiles, IssueRequest,
                 AllocateMemory, Submit, engineVars, fileVars
  <2>2. QED  BY <1>8, <2>1
<1>13. QED
  BY <1>3, <1>5, <1>6, <1>7, <1>9, <1>10, <1>11, <1>12, Zenon DEF Next, Service

\* A request whose completion waits to be reaped is not cancelled.
LEMMA FlagsAtReaping ==
    ASSUME Known, FlagsKnown, CompletionsKnown, ready = 0,
           NEW cqes, \A i \in DOMAIN cqes : \E j \in DOMAIN cq : cqes[i] = cq[j]
    PROVE  \A r \in FailedIn(cqes) : r \notin idle /\ r \notin queue /\ r \notin bCancelled
<1> SUFFICES ASSUME NEW r \in FailedIn(cqes)
             PROVE  r \notin idle /\ r \notin queue /\ r \notin bCancelled
  OBVIOUS
<1>1. PICK i \in DOMAIN cqes : cqes[i].req = r
  BY DEF FailedIn, ToSet
<1>2. PICK j \in DOMAIN cq : cq[j].req = r
  BY <1>1
<1>3. j > ready
  <2>1. cq \in Seq(Cqe)
    BY DEF Known, IInv, TypeOK
  <2>2. j \in 1 .. Len(cq)
    BY <2>1, LenProperties
  <2>3. QED  BY <2>2
<1>4. r \in Requests /\ RingHas(r) # 0
  BY <1>2, <1>3, EntriesInRing DEF Known
<1>5. r \notin idle /\ r \notin queue
  BY <1>4, InRingOnly DEF Known
<1>6. buffer[r] # None
  BY <1>2, <1>3 DEF CompletionsKnown, Delivers
<1>7. QED  BY <1>5, <1>6 DEF FlagsKnown

LEMMA FlagsStep ==
    ASSUME Known, FlagsKnown, CompletionsKnown, Next
    PROVE  FlagsKnown'
<1> USE Constants
<1>0. /\ IInv /\ TypeOK /\ \A r \in Requests : InOnePlace(r)
      /\ NoBufferBefore
      /\ buffer \in [Requests -> Buffers \cup {None}]
      /\ idle \subseteq Requests /\ queue \subseteq Requests
      /\ bCancelled \subseteq Requests
  BY DEF Known, BufferInv, IInv, TypeOK
<1>1. ASSUME NEW q \in Requests, PushRequest(q) PROVE FlagsKnown'
  <2>1. /\ q \in idle /\ idle' = idle \ {q} /\ queue' = queue \cup {q}
        /\ UNCHANGED <<bCancelled, bFailed, buffer, pc, NextRequest>>
    BY <1>1 DEF PushRequest
  <2>2. QED  BY <2>1 DEF FlagsKnown
<1>2. ASSUME NEW q \in Requests, CancelRequest(q) PROVE FlagsKnown'
  <2>1. /\ q \in queue /\ bCancelled' = bCancelled \cup {q}
        /\ UNCHANGED <<idle, queue, bFailed, buffer, pc, NextRequest>>
    BY <1>2 DEF CancelRequest
  <2>2. q \notin idle /\ (q = NextRequest => pc = "submit")
    BY <1>0, <2>1, InEngineOnly
  <2>3. buffer[q] = None
    BY <1>0, <2>1 DEF NoBufferBefore, WithoutBuffer
  <2>4. QED  BY <2>1, <2>2, <2>3 DEF FlagsKnown
<1>3. ASSUME NEW q \in Requests, ReleaseRequest(q) PROVE FlagsKnown'
  <2>1. /\ q \in delivered /\ idle' = idle \cup {q}
        /\ bCancelled' = bCancelled \ {q} /\ bFailed' = bFailed \ {q}
        /\ buffer' = [buffer EXCEPT ![q] = None]
        /\ UNCHANGED <<queue, pc, NextRequest>>
    BY <1>3 DEF ReleaseRequest
  <2>2. \A r \in Requests \ {q} : buffer'[r] = buffer[r]
    BY <1>0, <2>1
  <2>3. QED  BY <1>0, <2>1, <2>2 DEF FlagsKnown
<1>4. ASSUME NEW q \in Requests, PopRequest(q) PROVE FlagsKnown'
  <2>1. /\ q \in queue /\ queue' = queue \ {q} /\ NextRequest' = q
        /\ pc' \in {"open", "alloc"} => q \notin bCancelled
        /\ UNCHANGED <<idle, bCancelled, bFailed, buffer>>
    BY <1>4 DEF PopRequest
  <2>2. QED  BY <2>1 DEF FlagsKnown
<1>5. ASSUME NEW q \in Requests, FileIsFixed(q) \/ RegisterFile(q) PROVE FlagsKnown'
  <2>1. /\ pc = "open"
        /\ UNCHANGED <<idle, queue, bCancelled, bFailed, buffer, NextRequest>>
    BY <1>5 DEF FileIsFixed, RegisterFile, engineVars
  <2>2. QED  BY <2>1 DEF FlagsKnown
<1>6. ASSUME NEW q \in Requests, OpenFails(q) PROVE FlagsKnown'
  <2>1. /\ pc = "open" /\ q = NextRequest /\ bFailed' = bFailed \cup {q}
        /\ pc' = "completed"
        /\ UNCHANGED <<idle, queue, bCancelled, buffer>>
    BY <1>6 DEF OpenFails, engineVars
  <2>2. q \notin idle /\ q \notin queue
    BY <1>0, <2>1, InHandOnly
  <2>3. QED  BY <2>1, <2>2 DEF FlagsKnown
<1>7. ASSUME NEW q \in Requests, NEW hit \in BOOLEAN, AllocateMemory(q, hit)
      PROVE  FlagsKnown'
  <2>1. /\ pc = "alloc" /\ q = NextRequest /\ pc' \notin {"open", "alloc"}
        /\ buffer' = [buffer EXCEPT ![q] = AcquiredBuffer]
        /\ UNCHANGED <<idle, queue, bCancelled, bFailed>>
    BY <1>7 DEF AllocateMemory, engineVars
  <2>2. q \notin bCancelled
    BY <2>1 DEF FlagsKnown
  <2>3. \A r \in Requests \ {q} : buffer'[r] = buffer[r]
    BY <1>0, <2>1
  <2>4. QED  BY <1>0, <2>1, <2>2, <2>3 DEF FlagsKnown
<1>8. ASSUME ReapBatch \/ WaitCqe PROVE FlagsKnown'
  <2>0. cq \in Seq(Cqe) /\ DOMAIN cq = 1 .. Len(cq)
    BY <1>0, LenProperties DEF TypeOK
  <2>1. /\ ready = 0 /\ pc' \notin {"open", "alloc"}
        /\ UNCHANGED <<idle, queue, bCancelled, buffer>>
    BY <1>0, <1>8 DEF ReapBatch, WaitCqe, engineVars, IInv, RingBounds
  <2>2. PICK cqes :
          /\ \A i \in DOMAIN cqes : \E j \in DOMAIN cq : cqes[i] = cq[j]
          /\ bFailed' = bFailed \cup FailedIn(cqes)
    <3>1. CASE ReapBatch
      BY <3>1 DEF ReapBatch, ProcessCompletionEvents
    <3>2. CASE WaitCqe
      <4>1. cq # <<>> /\ bFailed' = bFailed \cup FailedIn(<<Head(cq)>>)
        BY <3>2 DEF WaitCqe, ProcessCompletionEvents
      <4>2. 1 \in DOMAIN cq /\ Head(cq) = cq[1]
        BY <2>0, <4>1, EmptySeq
      <4>3. DOMAIN <<Head(cq)>> = {1} /\ <<Head(cq)>>[1] = Head(cq)
        OBVIOUS
      <4>4. \A i \in DOMAIN <<Head(cq)>> : \E j \in DOMAIN cq : <<Head(cq)>>[i] = cq[j]
        BY <4>2, <4>3
      <4>5. QED  BY <4>1, <4>4
    <3>3. QED  BY <1>8, <3>1, <3>2
  <2>3. \A r \in FailedIn(cqes) : r \notin idle /\ r \notin queue /\ r \notin bCancelled
    BY <2>1, <2>2, FlagsAtReaping
  <2>4. QED  BY <2>1, <2>2, <2>3 DEF FlagsKnown
<1>9. ASSUME UNCHANGED <<idle, queue, bCancelled, bFailed, buffer>>,
             \/ UNCHANGED <<NextRequest, pc>>
             \/ pc' \notin {"open", "alloc"}
      PROVE  FlagsKnown'
  BY <1>9 DEF FlagsKnown
<1>10. CASE Engine
  <2>1. CASE \/ \E f \in Files : OpenContainer(f) \/ CloseContainer(f)
             \/ \E t \in toNotify : ServiceNotify(t)
             \/ GetCompletedRequests
    <3>1. UNCHANGED <<idle, queue, bCancelled, bFailed, buffer, NextRequest, pc>>
      BY <2>1 DEF OpenContainer, CloseContainer, ServiceNotify, GetCompletedRequests
    <3>2. QED  BY <1>9, <3>1
  <2>2. QED  BY <1>1, <1>2, <1>3, <1>10, <2>1 DEF Engine
<1>11. CASE Kernel
  <2>1. UNCHANGED <<idle, queue, bCancelled, bFailed, buffer, NextRequest, pc>>
    BY <1>11 DEF Kernel, Complete, engineVars
  <2>2. QED  BY <1>9, <2>1
<1>12. CASE \/ StartRequests \/ EnterRequestLoop \/ NoNextRequest
            \/ (\E f \in Files : UnregisterFile(f))
            \/ (\E b \in Buffers : AcquireBuffer(b))
            \/ NotifyDispatcher \/ SubmissionQueueFull \/ FlushBatch \/ FlushOverflow
            \/ NothingToWaitFor \/ WaitEnter
            \/ NotifyAndProcess \/ LoopOrReturn \/ ServiceWait
  <2>1. /\ UNCHANGED <<idle, queue, bCancelled, bFailed, buffer>>
        /\ UNCHANGED <<NextRequest, pc>> \/ pc' \notin {"open", "alloc"}
    <3>1. CASE \/ StartRequests \/ EnterRequestLoop \/ NoNextRequest
               \/ (\E f \in Files : UnregisterFile(f))
               \/ (\E b \in Buffers : AcquireBuffer(b))
      BY <3>1 DEF StartRequests, EnterRequestLoop, NoNextRequest, UnregisterFile,
                  AcquireBuffer, engineVars
    <3>2. CASE NotifyDispatcher \/ SubmissionQueueFull \/ FlushBatch \/ FlushOverflow
      BY <3>2 DEF NotifyDispatcher, SubmissionQueueFull, FlushBatch, FlushOverflow, engineVars
    <3>3. CASE NothingToWaitFor \/ WaitEnter \/ NotifyAndProcess \/ LoopOrReturn \/ ServiceWait
      BY <3>3 DEF NothingToWaitFor, WaitEnter, NotifyAndProcess, LoopOrReturn,
                  ServiceWait, engineVars
    <3>4. QED  BY <1>12, <3>1, <3>2, <3>3
  <2>2. QED  BY <1>9, <2>1
<1>13. CASE NothingReady \/ NotifyAndAdvance
  <2>1. processFrom \in {"request", "flush", "wait"} /\ pc' = AfterProcess
    BY <1>0, <1>13 DEF NothingReady, NotifyAndAdvance, TypeOK, ProcessCallers
  <2>2. pc' \notin {"open", "alloc"}
    BY <2>1 DEF AfterProcess
  <2>3. UNCHANGED <<idle, queue, bCancelled, bFailed, buffer>>
    BY <1>13 DEF NothingReady, NotifyAndAdvance, engineVars
  <2>4. QED  BY <1>9, <2>2, <2>3
<1>14. CASE \/ \E r \in Requests : \/ OutOfRegisteredFiles(r) \/ OnRequestComplete(r)
                                 \/ IssueRequest(r) \/ SubmitRequest(r)
            \/ \E n \in Consumed : Submit(n)
  <2>1. /\ UNCHANGED <<idle, queue, bCancelled, bFailed, buffer>>
        /\ pc' \notin {"open", "alloc"}
    BY <1>14 DEF OutOfRegisteredFiles, OnRequestComplete, IssueRequest, SubmitRequest,
                 Submit, engineVars
  <2>2. QED  BY <1>9, <2>1
<1>15. QED
  BY <1>4, <1>5, <1>6, <1>7, <1>8, <1>10, <1>11, <1>12, <1>13, <1>14, Zenon
     DEF Next, Service

LEMMA BuffersKnownStep ==
    ASSUME Known, BuffersKnown, Next
    PROVE  BuffersKnown'
<1> USE Constants
<1>0. /\ IInv /\ TypeOK /\ \A r \in Requests : InOnePlace(r)
      /\ sq \in Seq(Sqe) /\ inflight \in Seq(Op)
      /\ Len(sq) \in Nat /\ DOMAIN sq = 1 .. Len(sq)
      /\ Len(inflight) \in Nat /\ DOMAIN inflight = 1 .. Len(inflight)
      /\ buffer \in [Requests -> Buffers \cup {None}]
  BY LenProperties DEF Known, IInv, TypeOK
<1>1. ASSUME UNCHANGED <<sq, inflight, buffer, NextRequest>>,
             pc' \in {"open", "alloc"} => pc \in {"open", "alloc"} /\ AcquiredBuffer' = AcquiredBuffer,
             Issuing' => Issuing
      PROVE  BuffersKnown'
  BY <1>1 DEF BuffersKnown
<1>2. ASSUME NEW q \in Requests, ReleaseRequest(q) PROVE BuffersKnown'
  <2>1. /\ q \in delivered /\ buffer' = [buffer EXCEPT ![q] = None]
        /\ UNCHANGED <<sq, inflight, NextRequest, pc, AcquiredBuffer, submitFrom>>
    BY <1>2 DEF ReleaseRequest, ringVars, callVars
  <2>2. q = NextRequest => pc = "submit"
    BY <1>0, <2>1, InEngineOnly
  <2>3. Issuing' <=> Issuing
    BY <2>1 DEF Issuing
  <2>4. Issuing => q # NextRequest
    BY <2>2 DEF Issuing
  <2>5. \A r : r # q => buffer'[r] = buffer[r]
    BY <1>0, <2>1
  <2>6. QED  BY <2>1, <2>3, <2>4, <2>5 DEF BuffersKnown
<1>3. ASSUME NEW q \in Requests, PopRequest(q) PROVE BuffersKnown'
  <2>1. /\ AcquiredBuffer # None /\ pc' \in {"open", "completed"}
        /\ UNCHANGED <<sq, inflight, buffer, AcquiredBuffer>>
    BY <1>3 DEF PopRequest, ringVars
  <2>2. QED  BY <2>1 DEF BuffersKnown, Issuing
<1>4. ASSUME NEW q \in Requests, NEW hit \in BOOLEAN, AllocateMemory(q, hit)
      PROVE  BuffersKnown'
  <2>1. /\ pc = "alloc" /\ q = NextRequest /\ pc' \in {"issue", "completed"}
        /\ buffer' = [buffer EXCEPT ![q] = AcquiredBuffer]
        /\ UNCHANGED <<sq, inflight, NextRequest>>
    BY <1>4 DEF AllocateMemory, ringVars
  <2>2. buffer'[q] = AcquiredBuffer /\ AcquiredBuffer # None
    BY <1>0, <2>1 DEF BuffersKnown
  <2>3. QED  BY <2>1, <2>2 DEF BuffersKnown
<1>5. ASSUME NEW q \in Requests, IssueRequest(q) PROVE BuffersKnown'
  <2> DEFINE e == [req |-> q, fd |-> fixedFd[FileOf[q]], buf |-> buffer[q]]
  <2>1. /\ sq' = Append(sq, e) /\ UNCHANGED <<inflight, buffer>>
        /\ pc = "issue" /\ q = NextRequest /\ pc' = "submit"
    BY <1>5 DEF IssueRequest
  <2>2. e \in Sqe
    <3>1. fixedFd[FileOf[q]] \in Slots
      BY <1>0, <1>5 DEF IInv, FileInHand, FileTableConsistent, Issuing, IssueRequest
    <3>2. QED  BY <1>0, <3>1 DEF Sqe
  <2>3. e.buf # None
    BY <2>1 DEF BuffersKnown, Issuing
  <2> HIDE DEF e
  <2>4. /\ Append(sq, e) \in Seq(Sqe) /\ Len(Append(sq, e)) = Len(sq) + 1
        /\ \A i \in 1 .. Len(sq) : Append(sq, e)[i] = sq[i]
        /\ Append(sq, e)[Len(sq) + 1] = e
    BY <1>0, <2>2, AppendProperties
  <2>5. DOMAIN sq' = 1 .. Len(sq) + 1
    BY <2>1, <2>4, LenProperties
  <2>6. \A i \in DOMAIN sq' : sq'[i].buf # None
    <3> SUFFICES ASSUME NEW i \in DOMAIN sq' PROVE sq'[i].buf # None
      OBVIOUS
    <3>1. CASE i \in 1 .. Len(sq)
      BY <1>0, <2>1, <2>4, <3>1 DEF BuffersKnown
    <3>2. CASE i = Len(sq) + 1
      BY <2>1, <2>3, <2>4, <3>2
    <3>3. QED  BY <1>0, <2>5, <3>1, <3>2
  <2>7. QED  BY <2>1, <2>6 DEF BuffersKnown, Issuing
<1>6. ASSUME NEW n \in Consumed, Submit(n) PROVE BuffersKnown'
  <2>1. /\ n \in 0 .. Len(sq)
        /\ sq' \in Seq(Sqe) /\ Len(sq') = Len(sq) - n
        /\ \A i \in 1 .. Len(sq) - n : sq'[i] = sq[n + i]
        /\ inflight' \in Seq(Op) /\ Len(inflight') = Len(inflight) + n
        /\ \A i \in 1 .. Len(inflight) : inflight'[i] = inflight[i]
        /\ \A i \in 1 .. n : inflight'[Len(inflight) + i] = Resolve(sq[i])
    BY <1>0, <1>6, SubmitProperties
  <2>2. /\ DOMAIN sq' = 1 .. Len(sq) - n
        /\ DOMAIN inflight' = 1 .. Len(inflight) + n
    BY <2>1, LenProperties
  <2>3. /\ buffer' = buffer /\ NextRequest' = NextRequest /\ pc' \in {"issue", "process"}
        /\ pc' = "issue" => Issuing
    BY <1>6 DEF Submit, Issuing
  <2>4. \A i \in DOMAIN sq' : sq'[i].buf # None
    <3> SUFFICES ASSUME NEW i \in 1 .. Len(sq) - n PROVE sq'[i].buf # None
      BY <2>2
    <3>1. n + i \in DOMAIN sq
      BY <1>0, <2>1
    <3>2. QED  BY <2>1, <3>1 DEF BuffersKnown
  <2>5. \A i \in DOMAIN inflight' : inflight'[i].buf # None
    <3> SUFFICES ASSUME NEW i \in 1 .. Len(inflight) + n
                 PROVE  inflight'[i].buf # None
      BY <2>2
    <3>1. CASE i \in 1 .. Len(inflight)
      BY <1>0, <2>1, <3>1 DEF BuffersKnown
    <3>2. CASE i \notin 1 .. Len(inflight)
      <4>1. PICK j \in 1 .. n : i = Len(inflight) + j
        <5>1. i - Len(inflight) \in 1 .. n /\ i = Len(inflight) + (i - Len(inflight))
          BY <1>0, <2>1, <3>2
        <5>2. QED  BY <5>1
      <4>2. inflight'[i] = Resolve(sq[j])
        BY <2>1, <4>1
      <4>3. j \in DOMAIN sq
        BY <1>0, <2>1
      <4>4. QED  BY <4>2, <4>3 DEF BuffersKnown, Resolve
    <3>3. QED  BY <3>1, <3>2
  <2>6. QED  BY <2>3, <2>4, <2>5 DEF BuffersKnown, Issuing
<1>7. CASE Kernel
  <2>1. PICK i \in DOMAIN inflight, ok \in BOOLEAN : Complete(i, ok)
    BY <1>7 DEF Kernel
  <2>2. /\ inflight' = RemoveAt(inflight, i)
        /\ UNCHANGED <<sq, buffer, NextRequest, pc, AcquiredBuffer, submitFrom>>
    BY <2>1 DEF Complete, callVars
  <2>3. /\ RemoveAt(inflight, i) \in Seq(Op)
        /\ Len(RemoveAt(inflight, i)) = Len(inflight) - 1
        /\ \A j \in 1 .. Len(inflight) - 1 :
             RemoveAt(inflight, i)[j] = IF j < i THEN inflight[j] ELSE inflight[j + 1]
    <3>1. inflight \in Seq(Op) /\ i \in 1 .. Len(inflight)
      BY <1>0
    <3>2. QED  BY <3>1, RemoveAtProperties
  <2>4. DOMAIN inflight' = 1 .. Len(inflight) - 1
    BY <2>2, <2>3, LenProperties
  <2>5. \A j \in DOMAIN inflight' : inflight'[j].buf # None
    <3> SUFFICES ASSUME NEW j \in 1 .. Len(inflight) - 1 PROVE inflight'[j].buf # None
      BY <2>4
    <3>1. j \in DOMAIN inflight /\ j + 1 \in DOMAIN inflight
      BY <1>0
    <3>2. inflight'[j] = inflight[j] \/ inflight'[j] = inflight[j + 1]
      BY <2>2, <2>3
    <3>3. QED  BY <3>1, <3>2 DEF BuffersKnown
  <2>6. QED  BY <2>2, <2>5 DEF BuffersKnown, Issuing
<1>8. CASE Engine
  <2>1. CASE \/ \E f \in Files : OpenContainer(f) \/ CloseContainer(f)
             \/ \E t \in toNotify : ServiceNotify(t)
             \/ \E r \in Requests : PushRequest(r) \/ CancelRequest(r)
             \/ GetCompletedRequests
    <3>1. UNCHANGED <<sq, inflight, buffer, NextRequest, pc, AcquiredBuffer, submitFrom>>
      BY <2>1 DEF OpenContainer, CloseContainer, ServiceNotify, PushRequest, CancelRequest,
                  GetCompletedRequests, ringVars, callVars
    <3>2. Issuing' <=> Issuing
      BY <3>1 DEF Issuing
    <3>3. QED  BY <1>1, <3>1, <3>2
  <2>2. QED  BY <1>2, <1>8, <2>1 DEF Engine
<1>9. ASSUME UNCHANGED <<sq, inflight, buffer>>, pc' \notin {"open", "alloc", "issue", "enter"}
      PROVE  BuffersKnown'
  BY <1>9 DEF BuffersKnown, Issuing
<1>10. CASE \/ StartRequests \/ EnterRequestLoop \/ NoNextRequest
            \/ (\E f \in Files : UnregisterFile(f))
            \/ (\E b \in Buffers : AcquireBuffer(b))
            \/ NotifyDispatcher \/ FlushOverflow \/ ReapBatch
            \/ NothingToWaitFor \/ WaitEnter \/ WaitCqe
            \/ NotifyAndProcess \/ LoopOrReturn \/ ServiceWait
  <2>1. UNCHANGED <<sq, inflight, buffer>> /\ pc' \notin {"open", "alloc", "issue", "enter"}
    <3>1. CASE \/ StartRequests \/ EnterRequestLoop \/ NoNextRequest
               \/ (\E f \in Files : UnregisterFile(f))
               \/ (\E b \in Buffers : AcquireBuffer(b))
      BY <3>1 DEF StartRequests, EnterRequestLoop, NoNextRequest, UnregisterFile,
                  AcquireBuffer, ringVars
    <3>2. CASE NotifyDispatcher \/ FlushOverflow \/ ReapBatch
      BY <3>2 DEF NotifyDispatcher, FlushOverflow, ReapBatch, ringVars
    <3>3. CASE NothingToWaitFor \/ WaitEnter \/ WaitCqe \/ NotifyAndProcess
               \/ LoopOrReturn \/ ServiceWait
      BY <3>3 DEF NothingToWaitFor, WaitEnter, WaitCqe, NotifyAndProcess, LoopOrReturn,
                  ServiceWait, ringVars
    <3>4. QED  BY <1>10, <3>1, <3>2, <3>3
  <2>2. QED  BY <1>9, <2>1
<1>11. CASE NothingReady \/ NotifyAndAdvance
  <2>1. processFrom \in {"request", "flush", "wait"} /\ pc' = AfterProcess
    BY <1>0, <1>11 DEF NothingReady, NotifyAndAdvance, TypeOK, ProcessCallers
  <2>2. pc' \notin {"open", "alloc", "issue", "enter"}
    BY <2>1 DEF AfterProcess
  <2>3. UNCHANGED <<sq, inflight, buffer>>
    BY <1>11 DEF NothingReady, NotifyAndAdvance, ringVars
  <2>4. QED  BY <1>9, <2>2, <2>3
<1>12. CASE SubmissionQueueFull \/ FlushBatch
  <2>1. UNCHANGED <<sq, inflight, buffer, NextRequest>> /\ pc' \notin {"open", "alloc"}
    BY <1>12 DEF SubmissionQueueFull, FlushBatch, ringVars
  <2>2. Issuing' => Issuing
    BY <1>12 DEF SubmissionQueueFull, FlushBatch, Issuing
  <2>3. QED  BY <1>1, <2>1, <2>2
<1>13. CASE \E r \in Requests : FileIsFixed(r) \/ RegisterFile(r)
  <2>1. /\ UNCHANGED <<sq, inflight, buffer, NextRequest, AcquiredBuffer>>
        /\ pc = "open" /\ pc' = "alloc"
    BY <1>13 DEF FileIsFixed, RegisterFile, ringVars
  <2>2. QED  BY <2>1 DEF BuffersKnown, Issuing
<1>14. CASE \E r \in Requests : OpenFails(r) \/ OutOfRegisteredFiles(r) \/ OnRequestComplete(r)
  <2>1. UNCHANGED <<sq, inflight, buffer>> /\ pc' \notin {"open", "alloc", "issue", "enter"}
    BY <1>14 DEF OpenFails, OutOfRegisteredFiles, OnRequestComplete, ringVars
  <2>2. QED  BY <1>9, <2>1
<1>15. CASE \E r \in Requests : SubmitRequest(r)
  <2>1. /\ UNCHANGED <<sq, inflight, buffer>> /\ pc' \in {"process", "enter"}
        /\ pc' = "enter" => submitFrom' = "request"
    BY <1>15 DEF SubmitRequest, ringVars
  <2>2. QED  BY <2>1 DEF BuffersKnown, Issuing
<1>16. QED
  BY <1>3, <1>4, <1>5, <1>6, <1>7, <1>8, <1>10, <1>11, <1>12, <1>13, <1>14, <1>15, Zenon
     DEF Next, Service

\* What is in a request's buffer stays there, unless the request is released, is given
\* a buffer, or is read for.
LEMMA DataStays ==
    ASSUME Known, BuffersKnown, Next,
           NEW r \in Requests, buffer[r] # None, ~ReleaseRequest(r),
           r = NextRequest => pc # "alloc",
           \A i \in DOMAIN inflight : inflight[i].req # r
    PROVE  buffer'[r] = buffer[r] /\ content'[buffer[r]] = content[buffer[r]]
<1> USE Constants
<1>0. /\ IInv /\ TypeOK /\ OwnBuffers /\ RingBuffers
      /\ buffer \in [Requests -> Buffers \cup {None}]
      /\ content \in [Buffers -> Requests \cup {None}]
      /\ buffer[r] \in Buffers
  BY DEF Known, BufferInv, IInv, TypeOK
<1>1. ASSUME NEW q \in Requests, ReleaseRequest(q)
      PROVE  buffer'[r] = buffer[r] /\ content'[buffer[r]] = content[buffer[r]]
  <2>1. /\ buffer' = [buffer EXCEPT ![q] = None]
        /\ content' = [b \in Buffers |-> IF b = buffer[q] THEN None ELSE content[b]]
    BY <1>1 DEF ReleaseRequest
  <2>2. q # r /\ buffer[q] # buffer[r]
    BY <1>0, <1>1 DEF OwnBuffers
  <2>3. QED  BY <1>0, <2>1, <2>2
<1>2. ASSUME NEW q \in Requests, NEW hit \in BOOLEAN, AllocateMemory(q, hit)
      PROVE  buffer'[r] = buffer[r] /\ content'[buffer[r]] = content[buffer[r]]
  <2>1. /\ pc = "alloc" /\ q = NextRequest /\ buffer' = [buffer EXCEPT ![q] = AcquiredBuffer]
        /\ content' = IF hit THEN [content EXCEPT ![AcquiredBuffer] = q] ELSE content
    BY <1>2 DEF AllocateMemory
  <2>2. q # r /\ AcquiredBuffer # buffer[r]
    BY <1>0, <2>1 DEF OwnBuffers
  <2>3. buffer'[r] = buffer[r]
    BY <1>0, <2>1, <2>2
  <2>4. CASE hit
    BY <1>0, <2>1, <2>2, <2>3, <2>4
  <2>5. CASE ~hit
    BY <2>1, <2>3, <2>5
  <2>6. QED  BY <2>4, <2>5
<1>3. CASE Kernel
  <2>1. PICK i \in DOMAIN inflight, ok \in BOOLEAN : Complete(i, ok)
    BY <1>3 DEF Kernel
  <2>2. /\ buffer' = buffer
        /\ \E value : content' = [content EXCEPT ![inflight[i].buf] = value]
    BY <2>1 DEF Complete
  <2>3. inflight[i].req \in Requests /\ inflight[i].req # r
    BY EntriesInRing DEF Known
  <2>4. inflight[i].buf = buffer[inflight[i].req]
    BY <1>0 DEF RingBuffers
  <2>5. inflight[i].buf # buffer[r]
    BY <2>3, <2>4, <1>0 DEF OwnBuffers
  <2>6. QED  BY <1>0, <2>2, <2>5
<1>4. ASSUME UNCHANGED <<buffer, content>>
      PROVE  buffer'[r] = buffer[r] /\ content'[buffer[r]] = content[buffer[r]]
  BY <1>4
<1>5. CASE Engine
  <2>1. CASE \/ \E f \in Files : OpenContainer(f) \/ CloseContainer(f)
             \/ \E t \in toNotify : ServiceNotify(t)
             \/ \E q \in Requests : PushRequest(q) \/ CancelRequest(q)
             \/ GetCompletedRequests
    <3>1. UNCHANGED <<buffer, content>>
      BY <2>1 DEF OpenContainer, CloseContainer, ServiceNotify, PushRequest, CancelRequest,
                  GetCompletedRequests
    <3>2. QED  BY <1>4, <3>1
  <2>2. QED  BY <1>1, <1>5, <2>1 DEF Engine
<1>6. CASE \/ StartRequests \/ EnterRequestLoop \/ NoNextRequest
           \/ (\E f \in Files : UnregisterFile(f))
           \/ (\E b \in Buffers : AcquireBuffer(b))
           \/ NotifyDispatcher \/ SubmissionQueueFull \/ FlushBatch \/ NothingReady
           \/ FlushOverflow \/ ReapBatch \/ NotifyAndAdvance \/ NothingToWaitFor
           \/ WaitEnter \/ WaitCqe \/ NotifyAndProcess \/ LoopOrReturn \/ ServiceWait
  <2>1. UNCHANGED <<buffer, content>>
    <3>1. CASE \/ StartRequests \/ EnterRequestLoop \/ NoNextRequest
               \/ (\E f \in Files : UnregisterFile(f))
               \/ (\E b \in Buffers : AcquireBuffer(b))
      BY <3>1 DEF StartRequests, EnterRequestLoop, NoNextRequest, UnregisterFile,
                  AcquireBuffer
    <3>2. CASE NotifyDispatcher \/ SubmissionQueueFull \/ FlushBatch \/ NothingReady
               \/ FlushOverflow \/ ReapBatch \/ NotifyAndAdvance
      BY <3>2 DEF NotifyDispatcher, SubmissionQueueFull, FlushBatch, NothingReady,
                  FlushOverflow, ReapBatch, NotifyAndAdvance
    <3>3. CASE NothingToWaitFor \/ WaitEnter \/ WaitCqe \/ NotifyAndProcess
               \/ LoopOrReturn \/ ServiceWait
      BY <3>3 DEF NothingToWaitFor, WaitEnter, WaitCqe, NotifyAndProcess, LoopOrReturn,
                  ServiceWait
    <3>4. QED  BY <1>6, <3>1, <3>2, <3>3
  <2>2. QED  BY <1>4, <2>1
<1>7. CASE \/ \E q \in Requests :
                 \/ PopRequest(q) \/ FileIsFixed(q) \/ OpenFails(q) \/ RegisterFile(q)
                 \/ OutOfRegisteredFiles(q) \/ OnRequestComplete(q) \/ IssueRequest(q)
                 \/ SubmitRequest(q)
           \/ \E n \in Consumed : Submit(n)
  <2>1. UNCHANGED <<buffer, content>>
    BY <1>7 DEF PopRequest, FileIsFixed, OpenFails, RegisterFile, OutOfRegisteredFiles,
                OnRequestComplete, IssueRequest, SubmitRequest, Submit
  <2>2. QED  BY <1>4, <2>1
<1>8. QED
  BY <1>2, <1>3, <1>5, <1>6, <1>7, Zenon DEF Next, Service

\* Completions come to the queue from the lists in the kernel.
LEMMA GetEventsElements ==
    ASSUME TypeOK, Len(cq) <= CqEntries, GetEvents
    PROVE  /\ \A c \in ToSet(cq') \cup ToSet(overflow') :
                 c \in ToSet(cq) \cup ToSet(overflow) \cup ToSet(deferred)
           /\ deferred' = <<>>
<1> DEFINE events == overflow \o deferred
           room == CqEntries - Len(cq)
           n == IF Len(events) < room THEN Len(events) ELSE room
<1>1. /\ cq \in Seq(Cqe) /\ overflow \in Seq(Cqe) /\ deferred \in Seq(Cqe)
      /\ Len(cq) \in Nat /\ Len(overflow) \in Nat /\ Len(deferred) \in Nat
      /\ DOMAIN cq = 1 .. Len(cq) /\ DOMAIN overflow = 1 .. Len(overflow)
      /\ DOMAIN deferred = 1 .. Len(deferred)
  BY LenProperties DEF TypeOK
<1>2. /\ events \in Seq(Cqe) /\ Len(events) = Len(overflow) + Len(deferred)
      /\ \A i \in 1 .. Len(overflow) + Len(deferred) : events[i] =
            IF i <= Len(overflow) THEN overflow[i] ELSE deferred[i - Len(overflow)]
  BY <1>1, ConcatProperties
<1>3. /\ cq' = cq \o SubSeq(events, 1, n)
      /\ overflow' = SubSeq(events, n + 1, Len(events))
      /\ deferred' = <<>>
  BY DEF GetEvents, PostEvents
<1> HIDE DEF events
<1>4. n \in 0 .. Len(events)
  BY <1>1, <1>2, Constants
<1> HIDE DEF n
<1>5. \A i \in 1 .. Len(events) : events[i] \in ToSet(overflow) \cup ToSet(deferred)
  <2> SUFFICES ASSUME NEW i \in 1 .. Len(events)
               PROVE  events[i] \in ToSet(overflow) \cup ToSet(deferred)
    OBVIOUS
  <2>1. CASE i <= Len(overflow)
    <3>1. i \in DOMAIN overflow /\ events[i] = overflow[i]
      BY <1>1, <1>2, <2>1
    <3>2. QED  BY <3>1 DEF ToSet
  <2>2. CASE ~(i <= Len(overflow))
    <3>1. i - Len(overflow) \in DOMAIN deferred /\ events[i] = deferred[i - Len(overflow)]
      BY <1>1, <1>2, <2>2
    <3>2. QED  BY <3>1 DEF ToSet
  <2>3. QED  BY <2>1, <2>2
<1>6. /\ SubSeq(events, 1, n) \in Seq(Cqe) /\ Len(SubSeq(events, 1, n)) = n
      /\ \A i \in 1 .. n : SubSeq(events, 1, n)[i] = events[i]
  BY <1>2, <1>4, TakeProperties
<1>7. /\ overflow' \in Seq(Cqe) /\ Len(overflow') = Len(events) - n
      /\ \A i \in 1 .. Len(events) - n : overflow'[i] = events[n + i]
  BY <1>2, <1>3, <1>4, DropProperties
<1>8. /\ cq' \in Seq(Cqe) /\ Len(cq') = Len(cq) + n
      /\ \A i \in 1 .. Len(cq) + n : cq'[i] =
            IF i <= Len(cq) THEN cq[i] ELSE SubSeq(events, 1, n)[i - Len(cq)]
  BY <1>1, <1>3, <1>6, ConcatProperties
<1>9. ASSUME NEW i \in DOMAIN cq'
      PROVE  cq'[i] \in ToSet(cq) \cup ToSet(overflow) \cup ToSet(deferred)
  <2>0. i \in 1 .. Len(cq) + n /\ Len(events) \in Nat /\ n \in Nat
    BY <1>2, <1>4, <1>8, LenProperties
  <2>1. CASE i <= Len(cq)
    <3>1. i \in DOMAIN cq /\ cq'[i] = cq[i]
      BY <1>1, <1>8, <2>0, <2>1
    <3>2. QED  BY <3>1 DEF ToSet
  <2>2. CASE ~(i <= Len(cq))
    <3>1. /\ i - Len(cq) \in 1 .. n /\ i - Len(cq) \in 1 .. Len(events)
          /\ cq'[i] = SubSeq(events, 1, n)[i - Len(cq)]
      BY <1>1, <1>4, <1>8, <2>0, <2>2
    <3>2. cq'[i] = events[i - Len(cq)]
      BY <1>6, <3>1
    <3>3. QED  BY <1>5, <3>1, <3>2
  <2>3. QED  BY <2>1, <2>2
<1>10. ASSUME NEW i \in DOMAIN overflow'
       PROVE  overflow'[i] \in ToSet(overflow) \cup ToSet(deferred)
  <2>1. i \in 1 .. Len(events) - n /\ Len(events) \in Nat
    BY <1>2, <1>7, LenProperties
  <2>2. n + i \in 1 .. Len(events)
    BY <1>4, <2>1
  <2>3. QED  BY <1>5, <1>7, <2>1, <2>2
<1>11. QED  BY <1>3, <1>9, <1>10 DEF ToSet

\* A completion that has not been reaped yet.
Waiting(c) ==
    \/ \E i \in DOMAIN deferred : deferred[i] = c
    \/ \E i \in DOMAIN overflow : overflow[i] = c
    \/ \E i \in DOMAIN cq : i > ready /\ cq[i] = c

LEMMA DeliversStays ==
    ASSUME Known, BuffersKnown, CompletionsKnown, Next, NEW c, Waiting(c)
    PROVE  Delivers(c)'
<1>1. /\ c.req \in Requests /\ RingHas(c.req) # 0
      /\ \A i \in DOMAIN inflight : inflight[i].req # c.req
      /\ IInv /\ \A r \in Requests : InOnePlace(r)
  BY EntriesInRing DEF Known, Waiting
<1>2. Delivers(c)
  BY DEF Waiting, CompletionsKnown
<1>3. c.req \notin delivered /\ (c.req = NextRequest => pc # "alloc")
  BY <1>1, InRingOnly
<1>4. buffer[c.req] # None
  BY <1>2 DEF Delivers
<1>5. buffer'[c.req] = buffer[c.req] /\ content'[buffer[c.req]] = content[buffer[c.req]]
  <2>1. ~ReleaseRequest(c.req)
    BY <1>3 DEF ReleaseRequest
  <2>2. QED  BY <1>1, <1>3, <1>4, <2>1, DataStays
<1>6. QED  BY <1>2, <1>4, <1>5 DEF Delivers, HasData

\* The kernel posts a good completion when it has read the request's own file.
LEMMA PostedDelivers ==
    ASSUME Known, BuffersKnown, NEW i \in DOMAIN inflight, NEW ok \in BOOLEAN,
           Complete(i, ok)
    PROVE  \A c : Waiting(c)' => Waiting(c) \/ Delivers(c)'
<1>0. PICK cqe : cqe = [req |-> inflight[i].req, ok |-> ok]
  OBVIOUS
<1>1. /\ IInv /\ inflight \in Seq(Op) /\ deferred \in Seq(Cqe) /\ overflow \in Seq(Cqe)
      /\ cq \in Seq(Cqe) /\ ready \in 0 .. Len(cq) /\ Len(cq) \in Nat
      /\ Len(deferred) \in Nat /\ Len(overflow) \in Nat
      /\ DOMAIN deferred = 1 .. Len(deferred) /\ DOMAIN overflow = 1 .. Len(overflow)
      /\ DOMAIN cq = 1 .. Len(cq)
      /\ content \in [Buffers -> Requests \cup {None}]
      /\ buffer \in [Requests -> Buffers \cup {None}]
  BY LenProperties DEF Known, IInv, TypeOK, RingBounds
<1>2. /\ inflight[i].req \in Requests /\ inflight[i].buf = buffer[inflight[i].req]
      /\ inflight[i].file = FileOf[inflight[i].req] /\ inflight[i].buf # None
  <2>1. inflight[i].req \in Requests
    BY EntriesInRing DEF Known
  <2>2. ReadsOwnFile /\ RingBuffers /\ BuffersKnown
    BY DEF Known, BufferInv, IInv
  <2>3. QED  BY <2>1, <2>2 DEF ReadsOwnFile, RingBuffers, BuffersKnown
<1>3. buffer' = buffer /\ (ok => content'[buffer[inflight[i].req]] = inflight[i].req)
  <2>1. /\ buffer' = buffer
        /\ content' = [content EXCEPT ![inflight[i].buf] =
                 IF ok /\ inflight[i].file = FileOf[inflight[i].req]
                 THEN inflight[i].req ELSE None]
    BY DEF Complete
  <2>2. inflight[i].buf \in Buffers
    BY <1>1, <1>2
  <2>3. QED  BY <1>1, <1>2, <2>1, <2>2
<1>4. Delivers(cqe)'
  BY <1>0, <1>1, <1>2, <1>3 DEF Delivers, HasData
<1>5. cqe \in Cqe
  BY <1>0, <1>2 DEF Cqe
<1>6. /\ ready' = ready
      /\ \/ deferred' = Append(deferred, cqe) /\ UNCHANGED <<cq, overflow>>
         \/ cq' = Append(cq, cqe) /\ UNCHANGED <<deferred, overflow>>
         \/ overflow' = Append(overflow, cqe) /\ UNCHANGED <<deferred, cq>>
  <2>1. /\ ready' = ready
        /\ IF DeferTaskrun
             THEN deferred' = Append(deferred, cqe) /\ UNCHANGED <<cq, overflow>>
           ELSE IF overflow = <<>> /\ Len(cq) < CqEntries
             THEN cq' = Append(cq, cqe) /\ UNCHANGED <<deferred, overflow>>
             ELSE overflow' = Append(overflow, cqe) /\ UNCHANGED <<deferred, cq>>
    BY <1>0 DEF Complete
  <2>2. CASE DeferTaskrun
    BY <2>1, <2>2
  <2>3. CASE ~DeferTaskrun /\ overflow = <<>> /\ Len(cq) < CqEntries
    BY <2>1, <2>3
  <2>4. CASE ~DeferTaskrun /\ ~(overflow = <<>> /\ Len(cq) < CqEntries)
    BY <2>1, <2>4
  <2>5. QED  BY <2>2, <2>3, <2>4
<1>7. \A s \in Seq(Cqe) : \A j \in DOMAIN Append(s, cqe) :
         Append(s, cqe)[j] = cqe \/ (j \in DOMAIN s /\ Append(s, cqe)[j] = s[j])
  <2> SUFFICES ASSUME NEW s \in Seq(Cqe), NEW j \in DOMAIN Append(s, cqe)
               PROVE  Append(s, cqe)[j] = cqe \/ (j \in DOMAIN s /\ Append(s, cqe)[j] = s[j])
    OBVIOUS
  <2>1. /\ Append(s, cqe) \in Seq(Cqe) /\ Len(Append(s, cqe)) = Len(s) + 1
        /\ \A k \in 1 .. Len(s) : Append(s, cqe)[k] = s[k]
        /\ Append(s, cqe)[Len(s) + 1] = cqe
    BY <1>5, AppendProperties
  <2>2. /\ Len(s) \in Nat /\ DOMAIN s = 1 .. Len(s) /\ j \in 1 .. Len(s) + 1
    BY <2>1, LenProperties
  <2>3. CASE j = Len(s) + 1
    BY <2>1, <2>3
  <2>4. CASE j \in 1 .. Len(s)
    BY <2>1, <2>2, <2>4
  <2>5. QED  BY <2>2, <2>3, <2>4
<1> SUFFICES ASSUME NEW c, Waiting(c)', c # cqe
             PROVE  Waiting(c)
  BY <1>4
<1>8. CASE deferred' = Append(deferred, cqe) /\ UNCHANGED <<cq, overflow>>
  BY <1>1, <1>6, <1>7, <1>8 DEF Waiting
<1>9. CASE cq' = Append(cq, cqe) /\ UNCHANGED <<deferred, overflow>>
  BY <1>1, <1>6, <1>7, <1>9 DEF Waiting
<1>10. CASE overflow' = Append(overflow, cqe) /\ UNCHANGED <<deferred, cq>>
  BY <1>1, <1>6, <1>7, <1>10 DEF Waiting
<1>11. QED  BY <1>6, <1>8, <1>9, <1>10

LEMMA CompletionsStep ==
    ASSUME Known, BuffersKnown, CompletionsKnown, Next
    PROVE  CompletionsKnown'
<1>0. /\ IInv /\ TypeOK /\ RingBounds
      /\ cq \in Seq(Cqe) /\ Len(cq) \in Nat /\ DOMAIN cq = 1 .. Len(cq)
      /\ ready \in 0 .. Len(cq)
  BY LenProperties DEF Known, IInv, TypeOK, RingBounds
<1>1. ASSUME NEW c, Waiting(c) PROVE Delivers(c)'
  BY <1>1, DeliversStays
<1>2. SUFFICES ASSUME NEW c, Waiting(c)' PROVE Waiting(c) \/ Delivers(c)'
  <2>1. \A c : Waiting(c)' => Delivers(c)'
    BY <1>1, <1>2
  <2>2. QED  BY <2>1 DEF Waiting, CompletionsKnown
<1>3. CASE UNCHANGED <<deferred, overflow, cq, ready>>
  BY <1>2, <1>3 DEF Waiting
<1>4. CASE GetEvents /\ ready = 0 /\ ready' = 0
  <2>1. /\ deferred' = <<>>
        /\ \A d \in ToSet(cq') \cup ToSet(overflow') :
             d \in ToSet(cq) \cup ToSet(overflow) \cup ToSet(deferred)
    BY <1>0, <1>4, GetEventsElements DEF RingBounds
  <2>2. c \in ToSet(cq') \cup ToSet(overflow')
    BY <1>2, <2>1 DEF Waiting, ToSet
  <2>3. c \in ToSet(cq) \cup ToSet(overflow) \cup ToSet(deferred)
    BY <2>1, <2>2
  <2>4. ASSUME c \in ToSet(cq) PROVE Waiting(c)
    <3>1. PICK j \in DOMAIN cq : cq[j] = c
      BY <2>4 DEF ToSet
    <3>2. j > ready
      BY <1>0, <1>4
    <3>3. QED  BY <3>1, <3>2 DEF Waiting
  <2>5. QED  BY <2>3, <2>4 DEF Waiting, ToSet
<1>5. CASE FlushOverflow \/ WaitEnter
  <2>1. GetEvents /\ ready = 0 /\ ready' = 0
    BY <1>0, <1>5 DEF FlushOverflow, WaitEnter, RingBounds
  <2>2. QED  BY <1>4, <2>1
<1>6. CASE \E n \in Consumed : Submit(n)
  <2>1. \/ GetEvents /\ ready = 0 /\ ready' = 0
        \/ UNCHANGED <<deferred, overflow, cq, ready>>
    BY <1>0, <1>6 DEF Submit, RingBounds
  <2>2. QED  BY <1>3, <1>4, <2>1
<1>7. CASE Kernel
  BY <1>2, <1>7, PostedDelivers DEF Kernel
<1>8. CASE ReapBatch
  <2>1. ready' = Len(cq) /\ UNCHANGED <<deferred, overflow, cq>>
    BY <1>8 DEF ReapBatch, ringVars
  <2>2. \A i \in DOMAIN cq' : ~(i > ready')
    BY <1>0, <2>1
  <2>3. QED  BY <1>2, <2>1, <2>2 DEF Waiting
<1>9. ASSUME NEW n \in 0 .. Len(cq), n >= ready, cq' = SubSeq(cq, n + 1, Len(cq)), ready' = 0,
             UNCHANGED <<deferred, overflow>>
      PROVE  Waiting(c)
  <2>1. /\ cq' \in Seq(Cqe) /\ Len(cq') = Len(cq) - n
        /\ \A j \in 1 .. Len(cq) - n : cq'[j] = cq[n + j]
    BY <1>0, <1>9, DropProperties
  <2>2. DOMAIN cq' = 1 .. Len(cq) - n
    BY <2>1, LenProperties
  <2>3. ASSUME NEW j \in DOMAIN cq', cq'[j] = c PROVE Waiting(c)
    <3>1. n + j \in DOMAIN cq /\ n + j > ready /\ cq[n + j] = c
      BY <1>0, <1>9, <2>1, <2>2, <2>3
    <3>2. QED  BY <3>1 DEF Waiting
  <2>4. QED  BY <1>2, <1>9, <2>3 DEF Waiting
<1>10. CASE NotifyAndAdvance
  <2>1. /\ cq' = SubSeq(cq, ready + 1, Len(cq)) /\ ready' = 0
        /\ UNCHANGED <<deferred, overflow>>
    BY <1>10 DEF NotifyAndAdvance, Advanced
  <2>2. ready >= ready
    BY <1>0
  <2>3. QED  BY <1>0, <1>9, <2>1, <2>2
<1>11. CASE WaitCqe
  <2>1. /\ cq # <<>> /\ cq' = Tail(cq) /\ ready = 0 /\ ready' = 0
        /\ UNCHANGED <<deferred, overflow>>
    BY <1>0, <1>11 DEF WaitCqe, Seen, RingBounds
  <2>2. Len(cq) # 0
    BY <1>0, <2>1, EmptySeq
  <2>3. 1 \in 0 .. Len(cq) /\ 1 >= ready
    BY <1>0, <2>1, <2>2
  <2>4. Tail(cq) = SubSeq(cq, 1 + 1, Len(cq))
    OBVIOUS
  <2>5. QED  BY <1>9, <2>1, <2>3, <2>4
<1>12. CASE Engine \/ StartRequests \/ EnterRequestLoop \/ NoNextRequest
            \/ (\E f \in Files : UnregisterFile(f))
            \/ (\E b \in Buffers : AcquireBuffer(b))
            \/ NotifyDispatcher \/ SubmissionQueueFull \/ FlushBatch \/ NothingReady
            \/ NothingToWaitFor \/ NotifyAndProcess \/ LoopOrReturn \/ ServiceWait
            \/ \E q \in Requests :
                 \/ PopRequest(q) \/ FileIsFixed(q) \/ OpenFails(q) \/ RegisterFile(q)
                 \/ OutOfRegisteredFiles(q) \/ OnRequestComplete(q) \/ SubmitRequest(q)
                 \/ \E hit \in BOOLEAN : AllocateMemory(q, hit)
  <2>1. \/ Engine \/ ServiceControl
        \/ \E f \in Files : UnregisterFile(f)
        \/ \E q \in Requests : RegisterFile(q)
    BY <1>12, Zenon DEF ServiceControl
  <2>2. UNCHANGED <<deferred, overflow, cq, ready>>
    BY <1>0, <2>1, OutsideRing DEF ringVars
  <2>3. QED  BY <1>3, <2>2
<1>13. CASE \E q \in Requests : IssueRequest(q)
  <2>1. UNCHANGED <<deferred, overflow, cq, ready>>
    BY <1>13 DEF IssueRequest
  <2>2. QED  BY <1>3, <2>1
<1>14. QED
  BY <1>5, <1>6, <1>7, <1>8, <1>10, <1>11, <1>12, <1>13, Zenon DEF Next, Service

LEMMA AnswerStep ==
    ASSUME Known, BuffersKnown, AnswerKnown, Next
    PROVE  AnswerKnown'
<1> USE Constants
<1>0. /\ IInv /\ TypeOK /\ RequestInHand /\ \A r \in Requests : InOnePlace(r)
      /\ buffer \in [Requests -> Buffers \cup {None}]
      /\ content \in [Buffers -> Requests \cup {None}]
      /\ NextRequest \in Requests \cup {None} /\ AcquiredBuffer \in Buffers \cup {None}
  BY DEF Known, IInv, TypeOK
<1>1. ASSUME NEW q \in Requests, PopRequest(q) PROVE AnswerKnown'
  <2>1. /\ NextRequest' = q /\ UNCHANGED <<bCancelled, bFailed>>
        /\ pc' = "completed" => q \in bCancelled \cup bFailed
    BY <1>1 DEF PopRequest
  <2>2. QED  BY <2>1 DEF AnswerKnown
<1>2. ASSUME NEW q \in Requests, OpenFails(q) PROVE AnswerKnown'
  <2>1. NextRequest' = q /\ bFailed' = bFailed \cup {q}
    BY <1>2 DEF OpenFails
  <2>2. QED  BY <2>1 DEF AnswerKnown
<1>3. ASSUME NEW q \in Requests, NEW hit \in BOOLEAN, AllocateMemory(q, hit)
      PROVE  AnswerKnown'
  <2>1. /\ NextRequest' = q /\ pc = "alloc" /\ pc' = "completed" => hit
        /\ buffer' = [buffer EXCEPT ![q] = AcquiredBuffer]
        /\ hit => content' = [content EXCEPT ![AcquiredBuffer] = q]
    BY <1>3 DEF AllocateMemory
  <2>2. AcquiredBuffer \in Buffers /\ AcquiredBuffer # None
    BY <1>0, <1>3 DEF BuffersKnown, AllocateMemory
  <2>3. buffer'[q] = AcquiredBuffer /\ (hit => content'[AcquiredBuffer] = q)
    BY <1>0, <2>1, <2>2
  <2>4. pc' = "completed" => hit
    BY <1>3 DEF AllocateMemory
  <2>5. NextRequest' = q
    BY <1>3 DEF AllocateMemory
  <2>6. QED  BY <2>2, <2>3, <2>4, <2>5 DEF AnswerKnown, HasData
<1>4. CASE Engine \/ Kernel
  <2>1. pc' = pc /\ NextRequest' = NextRequest
    BY <1>4 DEF Engine, Kernel, OpenContainer, CloseContainer, ServiceNotify, PushRequest,
                CancelRequest, ReleaseRequest, GetCompletedRequests, Complete
  <2> SUFFICES ASSUME pc = "completed"
               PROVE  NextRequest \in bFailed' \cup bCancelled' \/ HasData(NextRequest)'
    BY <2>1 DEF AnswerKnown, HasData
  <2>2. NextRequest \in Requests
    BY <1>0 DEF RequestInHand
  <2>3. NextRequest \notin delivered /\ RingHas(NextRequest) = 0
    BY <1>0, <2>2, InHandOnly
  <2>4. CASE NextRequest \in bFailed \cup bCancelled
    <3>1. \A q \in bFailed \cup bCancelled :
             q \notin delivered => q \in bFailed' \cup bCancelled'
      BY <1>4 DEF Engine, Kernel, OpenContainer, CloseContainer, ServiceNotify, PushRequest,
                  CancelRequest, ReleaseRequest, GetCompletedRequests, Complete, engineVars
    <3>2. QED  BY <2>3, <2>4, <3>1
  <2>5. CASE HasData(NextRequest)
    <3>1. \A i \in DOMAIN inflight : inflight[i].req # NextRequest
      BY <2>3, EntriesInRing DEF Known
    <3>2. /\ buffer'[NextRequest] = buffer[NextRequest]
          /\ content'[buffer[NextRequest]] = content[buffer[NextRequest]]
      <4>1. ~ReleaseRequest(NextRequest)
        BY <2>3 DEF ReleaseRequest
      <4>2. QED  BY <2>2, <2>5, <3>1, <4>1, DataStays DEF HasData
    <3>3. QED  BY <2>1, <2>5, <3>2 DEF HasData
  <2>6. QED  BY <2>4, <2>5 DEF AnswerKnown
<1>5. CASE \/ StartRequests \/ EnterRequestLoop \/ NoNextRequest
           \/ (\E f \in Files : UnregisterFile(f))
           \/ (\E b \in Buffers : AcquireBuffer(b))
           \/ NotifyDispatcher \/ SubmissionQueueFull \/ FlushBatch \/ FlushOverflow
           \/ ReapBatch \/ NothingToWaitFor \/ WaitEnter \/ WaitCqe
           \/ NotifyAndProcess \/ LoopOrReturn \/ ServiceWait
  <2>1. CASE \/ StartRequests \/ EnterRequestLoop \/ NoNextRequest
             \/ (\E f \in Files : UnregisterFile(f))
             \/ (\E b \in Buffers : AcquireBuffer(b))
    BY <2>1 DEF StartRequests, EnterRequestLoop, NoNextRequest, UnregisterFile,
                AcquireBuffer, AnswerKnown
  <2>2. CASE NotifyDispatcher \/ SubmissionQueueFull \/ FlushBatch \/ FlushOverflow
             \/ ReapBatch
    BY <2>2 DEF NotifyDispatcher, SubmissionQueueFull, FlushBatch, FlushOverflow,
                ReapBatch, AnswerKnown
  <2>3. CASE NothingToWaitFor \/ WaitEnter \/ WaitCqe \/ NotifyAndProcess
             \/ LoopOrReturn \/ ServiceWait
    BY <2>3 DEF NothingToWaitFor, WaitEnter, WaitCqe, NotifyAndProcess, LoopOrReturn,
                ServiceWait, AnswerKnown
  <2>4. QED  BY <1>5, <2>1, <2>2, <2>3
<1>6. CASE NothingReady \/ NotifyAndAdvance
  <2>1. processFrom \in {"request", "flush", "wait"} /\ pc' = AfterProcess
    BY <1>0, <1>6 DEF NothingReady, NotifyAndAdvance, TypeOK, ProcessCallers
  <2>2. pc' # "completed"
    BY <2>1 DEF AfterProcess
  <2>3. QED  BY <2>2 DEF AnswerKnown
<1>7. CASE \/ \E q \in Requests :
                 \/ FileIsFixed(q) \/ RegisterFile(q) \/ OutOfRegisteredFiles(q)
                 \/ OnRequestComplete(q) \/ IssueRequest(q) \/ SubmitRequest(q)
           \/ \E n \in Consumed : Submit(n)
  <2>1. pc' # "completed"
    BY <1>7 DEF FileIsFixed, RegisterFile, OutOfRegisteredFiles, OnRequestComplete,
                IssueRequest, SubmitRequest, Submit
  <2>2. QED  BY <2>1 DEF AnswerKnown
<1>8. QED
  BY <1>1, <1>2, <1>3, <1>4, <1>5, <1>6, <1>7, Zenon DEF Next, Service

LEMMA StoreInit == Init => StoreInv
<1>1. ASSUME Init PROVE StoreInv
  <2>1. /\ queue = {} /\ containers = {} /\ FilesToUnregister = <<>> /\ NextRequest = None
        /\ bCancelled = {} /\ bFailed = {} /\ pc = "start"
        /\ sq = <<>> /\ inflight = <<>> /\ deferred = <<>> /\ overflow = <<>> /\ cq = <<>>
    BY <1>1 DEF Init
  <2>2. DOMAIN <<>> = {}
    OBVIOUS
  <2>3. MountsKnown /\ FlagsKnown
    BY <2>1, <2>2 DEF MountsKnown, FlagsKnown, ToSet
  <2>4. BuffersKnown /\ CompletionsKnown /\ AnswerKnown
    BY <2>1, <2>2 DEF BuffersKnown, CompletionsKnown, AnswerKnown, Issuing
  <2>5. QED  BY <2>3, <2>4 DEF StoreInv
<1>2. QED  BY <1>1

LEMMA StoreStep == Known /\ StoreInv /\ [Next]_vars => StoreInv'
<1>1. ASSUME Known, StoreInv, Next PROVE StoreInv'
  BY <1>1, MountsStep, FlagsStep, BuffersKnownStep, CompletionsStep, AnswerStep DEF StoreInv
<1>2. ASSUME StoreInv, UNCHANGED vars PROVE StoreInv'
  <2>1. MountsKnown' /\ FlagsKnown'
    BY <1>2 DEF StoreInv, MountsKnown, FlagsKnown, vars, engineVars, fileVars
  <2>2. BuffersKnown' /\ AnswerKnown'
    BY <1>2 DEF StoreInv, BuffersKnown, AnswerKnown, HasData, Issuing, vars, engineVars,
                callVars, ringVars
  <2>3. CompletionsKnown'
    BY <1>2 DEF StoreInv, CompletionsKnown, Delivers, HasData, vars, ringVars
  <2>4. QED  BY <2>1, <2>2, <2>3 DEF StoreInv
<1>3. QED  BY <1>1, <1>2

LEMMA StoreInvariance == Spec => [](Known /\ StoreInv)
<1> DEFINE Each == \A r \in Requests : InOnePlace(r)
<1>1. IInv /\ BufferInv /\ Each => Known
  BY DEF Known
<1>2. Spec => []Each
  BY PlacesInvariance
<1> HIDE DEF Each
<1>3. Spec => []Known
  BY <1>1, <1>2, Inductive, BufferInvariance, PTL
<1>4. QED  BY <1>3, StoreInit, StoreStep, PTL DEF Spec

-----------------------------------------------------------------------------
(* Steps of the dispatcher are steps of the store                            *)

\* The request is with the service or in the ring.
LEMMA AcceptedInHand ==
    ASSUME Known, NEW r \in Requests, RingHas(r) # 0 \/ (r = NextRequest /\ pc # "submit")
    PROVE  statusBar[r] = "accepted"
<1>1. IInv /\ InOnePlace(r)
  BY DEF Known
<1>2. r \notin idle /\ r \notin queue /\ r \notin delivered /\ r \notin ToSet(CompletedRequests)
  BY <1>1, InRingOnly, InHandOnly
<1>3. QED  BY <1>2 DEF statusBar

\* A request's status says where it is.
LEMMA StatusIsPlace ==
    ASSUME Known, NEW r \in Requests
    PROVE  /\ statusBar[r] = "idle" <=> r \in idle
           /\ statusBar[r] = "queued" <=> r \in queue
           /\ statusBar[r] = "delivered" <=> r \in delivered
           /\ statusBar[r] = "completed" <=> r \in ToSet(CompletedRequests)
           /\ statusBar[r] \in {"completed", "delivered"} =>
                 RingHas(r) = 0 /\ (r = NextRequest => pc = "submit")
<1>0. /\ IInv /\ InOnePlace(r)
  BY DEF Known
<1>1. /\ r \in idle => r \notin queue /\ r \notin delivered
      /\ r \in queue => r \notin idle /\ r \notin delivered
      /\ r \in delivered => r \notin idle /\ r \notin queue
      /\ r \in idle \cup queue \cup delivered => r \notin ToSet(CompletedRequests)
  BY <1>0, InEngineOnly
<1>2. /\ statusBar[r] = "idle" <=> r \in idle
      /\ statusBar[r] = "queued" <=> r \in queue
      /\ statusBar[r] = "delivered" <=> r \in delivered
      /\ statusBar[r] = "completed" <=> r \in ToSet(CompletedRequests)
  BY <1>1 DEF statusBar
<1>3. statusBar[r] \in {"completed", "delivered"} =>
         RingHas(r) = 0 /\ (r = NextRequest => pc = "submit")
  BY AcceptedInHand
<1>4. QED  BY <1>2, <1>3

LEMMA BufferStays ==
    ASSUME Known, Next, NEW r \in Requests, ~ReleaseRequest(r),
           r = NextRequest => pc # "alloc"
    PROVE  buffer'[r] = buffer[r]
<1>0. buffer \in [Requests -> Buffers \cup {None}]
  BY DEF Known, IInv, TypeOK
<1>1. ASSUME NEW q \in Requests, ReleaseRequest(q) PROVE buffer'[r] = buffer[r]
  <2>1. buffer' = [buffer EXCEPT ![q] = None] /\ q # r
    BY <1>1 DEF ReleaseRequest
  <2>2. QED  BY <1>0, <2>1
<1>2. ASSUME NEW q \in Requests, NEW hit \in BOOLEAN, AllocateMemory(q, hit)
      PROVE  buffer'[r] = buffer[r]
  <2>1. buffer' = [buffer EXCEPT ![q] = AcquiredBuffer] /\ q # r
    BY <1>2 DEF AllocateMemory
  <2>2. QED  BY <1>0, <2>1
<1>3. CASE Engine
  <2>1. CASE \/ \E f \in Files : OpenContainer(f) \/ CloseContainer(f)
             \/ \E t \in toNotify : ServiceNotify(t)
             \/ \E q \in Requests : PushRequest(q) \/ CancelRequest(q)
             \/ GetCompletedRequests
    BY <2>1 DEF OpenContainer, CloseContainer, ServiceNotify, PushRequest, CancelRequest,
                GetCompletedRequests
  <2>2. QED  BY <1>1, <1>3, <2>1 DEF Engine
<1>4. CASE Kernel
  BY <1>4 DEF Kernel, Complete
<1>5. CASE \/ StartRequests \/ EnterRequestLoop \/ NoNextRequest
           \/ (\E f \in Files : UnregisterFile(f))
           \/ (\E b \in Buffers : AcquireBuffer(b))
           \/ NotifyDispatcher \/ SubmissionQueueFull \/ FlushBatch \/ NothingReady
           \/ FlushOverflow \/ ReapBatch \/ NotifyAndAdvance \/ NothingToWaitFor
           \/ WaitEnter \/ WaitCqe \/ NotifyAndProcess \/ LoopOrReturn \/ ServiceWait
  <2>1. CASE \/ StartRequests \/ EnterRequestLoop \/ NoNextRequest
             \/ (\E f \in Files : UnregisterFile(f))
             \/ (\E b \in Buffers : AcquireBuffer(b))
    BY <2>1 DEF StartRequests, EnterRequestLoop, NoNextRequest, UnregisterFile,
                AcquireBuffer
  <2>2. CASE NotifyDispatcher \/ SubmissionQueueFull \/ FlushBatch \/ NothingReady
             \/ FlushOverflow \/ ReapBatch \/ NotifyAndAdvance
    BY <2>2 DEF NotifyDispatcher, SubmissionQueueFull, FlushBatch, NothingReady,
                FlushOverflow, ReapBatch, NotifyAndAdvance
  <2>3. CASE NothingToWaitFor \/ WaitEnter \/ WaitCqe \/ NotifyAndProcess
             \/ LoopOrReturn \/ ServiceWait
    BY <2>3 DEF NothingToWaitFor, WaitEnter, WaitCqe, NotifyAndProcess, LoopOrReturn,
                ServiceWait
  <2>4. QED  BY <1>5, <2>1, <2>2, <2>3
<1>6. CASE \/ \E q \in Requests :
                 \/ PopRequest(q) \/ FileIsFixed(q) \/ OpenFails(q) \/ RegisterFile(q)
                 \/ OutOfRegisteredFiles(q) \/ OnRequestComplete(q) \/ IssueRequest(q)
                 \/ SubmitRequest(q)
           \/ \E n \in Consumed : Submit(n)
  BY <1>6 DEF PopRequest, FileIsFixed, OpenFails, RegisterFile, OutOfRegisteredFiles,
              OnRequestComplete, IssueRequest, SubmitRequest, Submit
<1>7. QED
  BY <1>2, <1>3, <1>4, <1>5, <1>6, Zenon DEF Next, Service

\* What a request came to does not change while it is completed or delivered.
LEMMA OutcomeStays ==
    ASSUME Known, BuffersKnown, Next, NEW r \in Requests, ~ReleaseRequest(r),
           statusBar[r] \in {"completed", "delivered"},
           statusBar'[r] \in {"completed", "delivered"},
           r \in bFailed' <=> r \in bFailed,
           r \in bCancelled' <=> r \in bCancelled
    PROVE  outcomeBar'[r] = outcomeBar[r]
<1>1. RingHas(r) = 0 /\ (r = NextRequest => pc # "alloc")
  BY StatusIsPlace
<1>2. buffer'[r] = buffer[r]
  BY <1>1, BufferStays
<1>3. ASSUME buffer[r] # None PROVE content'[buffer[r]] = content[buffer[r]]
  <2>1. \A i \in DOMAIN inflight : inflight[i].req # r
    BY <1>1, EntriesInRing DEF Known
  <2>2. QED  BY <1>1, <1>3, <2>1, DataStays
<1>4. QED  BY <1>2, <1>3 DEF outcomeBar

LEMMA BarsAreFunctions ==
    /\ statusBar = [r \in Requests |-> statusBar[r]]
    /\ statusBar' = [r \in Requests |-> statusBar'[r]]
    /\ outcomeBar = [r \in Requests |-> outcomeBar[r]]
    /\ outcomeBar' = [r \in Requests |-> outcomeBar'[r]]
    /\ mountBar = [f \in Files |-> mountBar[f]]
    /\ mountBar' = [f \in Files |-> mountBar'[f]]
BY DEF statusBar, outcomeBar, mountBar

\* A step that keeps who has which request keeps the statuses, and one that neither
\* opens, closes nor drops a container keeps the mounts.
LEMMA StatusFrame ==
    ASSUME UNCHANGED <<idle, queue, delivered, CompletedRequests>>
    PROVE  statusBar' = statusBar
BY DEF statusBar

LEMMA MountFrame ==
    ASSUME UNCHANGED containers,
           \A f \in Files : state'[f] = "Deleted" <=> state[f] = "Deleted"
    PROVE  mountBar' = mountBar
<1>1. \A f \in Files : mountBar'[f] = mountBar[f]
  BY DEF mountBar
<1>2. QED  BY <1>1, BarsAreFunctions

\* The requests that are neither completed nor delivered have come to nothing yet.
LEMMA OutcomeFrame ==
    ASSUME Known, BuffersKnown, Next, NEW r \in Requests, ~ReleaseRequest(r),
           \/ statusBar[r] \notin {"completed", "delivered"}
              /\ statusBar'[r] \notin {"completed", "delivered"}
           \/ /\ statusBar[r] \in {"completed", "delivered"}
              /\ statusBar'[r] \in {"completed", "delivered"}
              /\ r \in bFailed' <=> r \in bFailed
              /\ r \in bCancelled' <=> r \in bCancelled
    PROVE  outcomeBar'[r] = outcomeBar[r]
<1>1. CASE statusBar[r] \notin {"completed", "delivered"}
           /\ statusBar'[r] \notin {"completed", "delivered"}
  <2>1. outcomeBar[r] = "none" /\ outcomeBar'[r] = "none"
    BY <1>1 DEF outcomeBar
  <2>2. QED  BY <2>1
<1>2. CASE /\ statusBar[r] \in {"completed", "delivered"}
           /\ statusBar'[r] \in {"completed", "delivered"}
           /\ r \in bFailed' <=> r \in bFailed
           /\ r \in bCancelled' <=> r \in bCancelled
  BY <1>2, OutcomeStays
<1>3. QED  BY <1>1, <1>2

\* The store does not see a step that moves no request between its places.
LEMMA Stutters ==
    ASSUME Known, BuffersKnown, Next,
           UNCHANGED <<idle, queue, delivered, bCancelled, containers, CompletedRequests>>,
           \A f \in Files : state'[f] = "Deleted" <=> state[f] = "Deleted",
           \A r \in Requests : statusBar[r] \in {"completed", "delivered"} =>
              (r \in bFailed' <=> r \in bFailed)
    PROVE  UNCHANGED Store!vars
<1>1. statusBar' = statusBar /\ mountBar' = mountBar /\ bCancelled' = bCancelled
  BY StatusFrame, MountFrame
<1>2. ASSUME NEW r \in Requests PROVE outcomeBar'[r] = outcomeBar[r]
  <2>1. ~ReleaseRequest(r)
    BY DEF ReleaseRequest
  <2>2. QED  BY <1>1, <2>1, OutcomeFrame
<1>3. outcomeBar' = outcomeBar
  BY <1>2, BarsAreFunctions
<1>4. QED  BY <1>1, <1>3 DEF Store!vars

\* Requests that the service or the ring had are added to CompletedRequests.
LEMMA Completes ==
    ASSUME Known, BuffersKnown, Next, NEW S, S \subseteq Requests, S # {},
           \A r \in S : statusBar[r] = "accepted",
           ToSet(CompletedRequests') = ToSet(CompletedRequests) \cup S,
           UNCHANGED <<idle, queue, delivered, bCancelled, containers, state>>,
           \A r \in Requests \ S : r \in bFailed' <=> r \in bFailed,
           \A r \in S : /\ outcomeBar'[r] \in {"data", "failed", "cancelled"}
                        /\ outcomeBar'[r] = "cancelled" <=> r \in bCancelled
    PROVE  Store!Complete(S)
<1>1. ASSUME NEW r \in Requests
      PROVE  statusBar'[r] = IF r \in S THEN "completed" ELSE statusBar[r]
  <2>1. CASE r \in S
    <3>1. r \notin idle /\ r \notin queue /\ r \notin delivered
      BY <2>1 DEF statusBar
    <3>2. QED  BY <2>1, <3>1 DEF statusBar
  <2>2. CASE r \notin S
    BY <2>2 DEF statusBar
  <2>3. QED  BY <2>1, <2>2
<1>2. statusBar' = [r \in Requests |-> IF r \in S THEN "completed" ELSE statusBar[r]]
  BY <1>1, BarsAreFunctions
<1>3. ASSUME NEW r \in Requests \ S PROVE outcomeBar'[r] = outcomeBar[r]
  <2>1. ~ReleaseRequest(r) /\ statusBar'[r] = statusBar[r]
    BY <1>1, <1>3 DEF ReleaseRequest
  <2>2. QED  BY <2>1, OutcomeFrame
<1>4. PICK res : res = [r \in S |-> outcomeBar'[r]]
  OBVIOUS
<1>5. /\ res \in [S -> Store!Outcomes]
      /\ \A r \in S : (res[r] = "cancelled") <=> (r \in bCancelled)
  BY <1>4 DEF Store!Outcomes
<1>6. outcomeBar' = [r \in Requests |-> IF r \in S THEN res[r] ELSE outcomeBar[r]]
  <2>1. \A r \in Requests : outcomeBar'[r] = IF r \in S THEN res[r] ELSE outcomeBar[r]
    BY <1>3, <1>4
  <2>2. QED  BY <2>1, BarsAreFunctions
<1>7. mountBar' = mountBar /\ bCancelled' = bCancelled
  BY MountFrame
<1>8. QED  BY <1>2, <1>5, <1>6, <1>7 DEF Store!Complete

\* Appending to the completed requests.
LEMMA ToSetConcat ==
    ASSUME NEW s \in Seq(Requests), NEW t \in Seq(Requests)
    PROVE  ToSet(s \o t) = ToSet(s) \cup ToSet(t)
<1>1. /\ s \o t \in Seq(Requests) /\ Len(s \o t) = Len(s) + Len(t)
      /\ \A i \in 1 .. Len(s) + Len(t) :
            (s \o t)[i] = IF i <= Len(s) THEN s[i] ELSE t[i - Len(s)]
  BY ConcatProperties
<1>2. /\ Len(s) \in Nat /\ Len(t) \in Nat /\ DOMAIN s = 1 .. Len(s)
      /\ DOMAIN t = 1 .. Len(t) /\ DOMAIN (s \o t) = 1 .. Len(s) + Len(t)
  BY <1>1, LenProperties
<1>3. ASSUME NEW i \in DOMAIN (s \o t) PROVE (s \o t)[i] \in ToSet(s) \cup ToSet(t)
  <2>1. CASE i <= Len(s)
    <3>1. i \in DOMAIN s /\ (s \o t)[i] = s[i]
      BY <1>1, <1>2, <2>1
    <3>2. QED  BY <3>1 DEF ToSet
  <2>2. CASE ~(i <= Len(s))
    <3>1. i - Len(s) \in DOMAIN t /\ (s \o t)[i] = t[i - Len(s)]
      BY <1>1, <1>2, <2>2
    <3>2. QED  BY <3>1 DEF ToSet
  <2>3. QED  BY <2>1, <2>2
<1>4. ASSUME NEW i \in DOMAIN s PROVE s[i] \in ToSet(s \o t)
  <2>1. i \in DOMAIN (s \o t) /\ (s \o t)[i] = s[i]
    BY <1>1, <1>2
  <2>2. QED  BY <2>1 DEF ToSet
<1>5. ASSUME NEW i \in DOMAIN t PROVE t[i] \in ToSet(s \o t)
  <2>1. Len(s) + i \in DOMAIN (s \o t) /\ ~(Len(s) + i <= Len(s)) /\ (Len(s) + i) - Len(s) = i
    BY <1>2
  <2>2. (s \o t)[Len(s) + i] = t[i]
    BY <1>1, <1>2, <2>1
  <2>3. QED  BY <2>1, <2>2 DEF ToSet
<1>6. QED  BY <1>3, <1>4, <1>5 DEF ToSet

-----------------------------------------------------------------------------
(* Which step of the store each step is                                      *)

LEMMA OpenRefines ==
    ASSUME Known, StoreInv, Next, NEW f \in Files, OpenContainer(f)
    PROVE  Store!Open(f)
<1>0. /\ state \in [Files -> {"Deleted", "Closed", "Fixed"}] /\ MountsKnown /\ BuffersKnown
  BY DEF Known, IInv, TypeOK, StoreInv
<1>1. /\ state[f] = "Deleted" /\ state' = [state EXCEPT ![f] = "Closed"]
      /\ containers' = containers \cup {f}
      /\ UNCHANGED <<idle, queue, delivered, bCancelled, bFailed, CompletedRequests>>
  BY DEF OpenContainer
<1>2. mountBar[f] = "absent"
  BY <1>0, <1>1 DEF mountBar, MountsKnown
<1>3. mountBar' = [mountBar EXCEPT ![f] = "open"]
  <2>1. \A g \in Files : mountBar'[g] = IF g = f THEN "open" ELSE mountBar[g]
    BY <1>0, <1>1 DEF mountBar
  <2>2. [mountBar EXCEPT ![f] = "open"] =
            [g \in Files |-> IF g = f THEN "open" ELSE mountBar[g]]
    BY BarsAreFunctions
  <2>3. QED  BY <2>1, <2>2, BarsAreFunctions
<1>4. statusBar' = statusBar
  BY <1>1, StatusFrame
<1>5. outcomeBar' = outcomeBar
  <2>1. ASSUME NEW r \in Requests PROVE outcomeBar'[r] = outcomeBar[r]
    <3>1. ~ReleaseRequest(r)
      BY <1>1 DEF ReleaseRequest
    <3>2. QED  BY <1>0, <1>1, <1>4, <3>1, OutcomeFrame
  <2>2. QED  BY <2>1, BarsAreFunctions
<1>6. QED  BY <1>1, <1>2, <1>3, <1>4, <1>5 DEF Store!Open

LEMMA CloseRefines ==
    ASSUME Known, StoreInv, Next, NEW f \in Files, CloseContainer(f)
    PROVE  Store!Close(f)
<1>0. MountsKnown /\ BuffersKnown
  BY DEF StoreInv
<1>1. /\ f \in containers /\ containers' = containers \ {f}
      /\ UNCHANGED <<idle, queue, delivered, bCancelled, bFailed, CompletedRequests, state>>
      /\ \A r \in Requests : FileOf[r] = f => r \in idle \cup delivered \/ r \notin queue
  BY DEF CloseContainer, fileVars
<1>2. mountBar[f] = "open"
  BY <1>1 DEF mountBar
<1>3. mountBar' = [mountBar EXCEPT ![f] = "closing"]
  <2>1. \A g \in Files : mountBar'[g] = IF g = f THEN "closing" ELSE mountBar[g]
    BY <1>0, <1>1 DEF mountBar, MountsKnown
  <2>2. [mountBar EXCEPT ![f] = "closing"] =
            [g \in Files |-> IF g = f THEN "closing" ELSE mountBar[g]]
    BY BarsAreFunctions
  <2>3. QED  BY <2>1, <2>2, BarsAreFunctions
<1>4. statusBar' = statusBar
  BY <1>1, StatusFrame
<1>5. outcomeBar' = outcomeBar
  <2>1. ASSUME NEW r \in Requests PROVE outcomeBar'[r] = outcomeBar[r]
    <3>1. ~ReleaseRequest(r)
      BY <1>1 DEF ReleaseRequest
    <3>2. QED  BY <1>0, <1>1, <1>4, <3>1, OutcomeFrame
  <2>2. QED  BY <2>1, BarsAreFunctions
<1>6. \A r \in Requests : FileOf[r] = f => statusBar[r] # "queued"
  <2> SUFFICES ASSUME NEW r \in Requests, FileOf[r] = f, r \in queue
               PROVE  FALSE
    BY StatusIsPlace
  <2>1. r \in idle \cup delivered
    BY <1>1
  <2>2. statusBar[r] = "queued"
    BY StatusIsPlace
  <2>3. QED  BY <2>1, <2>2, StatusIsPlace
<1>7. QED  BY <1>1, <1>2, <1>3, <1>4, <1>5, <1>6 DEF Store!Close

\* One request changes its status.
LEMMA MoveRefines ==
    ASSUME NEW r \in Requests, NEW from, NEW to, statusBar[r] = from,
           statusBar'[r] = to, \A q \in Requests \ {r} : statusBar'[q] = statusBar[q]
    PROVE  Store!Move(r, from, to)
<1>1. \A q \in Requests : statusBar'[q] = IF q = r THEN to ELSE statusBar[q]
  OBVIOUS
<1>2. [statusBar EXCEPT ![r] = to] = [q \in Requests |-> IF q = r THEN to ELSE statusBar[q]]
  BY BarsAreFunctions
<1>3. QED  BY <1>1, <1>2, BarsAreFunctions DEF Store!Move

LEMMA PushRefines ==
    ASSUME Known, StoreInv, Next, NEW r \in Requests, PushRequest(r)
    PROVE  Store!Push(r)
<1>0. MountsKnown /\ BuffersKnown
  BY DEF StoreInv
<1>1. /\ r \in idle /\ FileOf[r] \in containers
      /\ idle' = idle \ {r} /\ queue' = queue \cup {r}
      /\ UNCHANGED <<delivered, bCancelled, bFailed, CompletedRequests, containers, state>>
  BY DEF PushRequest, fileVars
<1>2. mountBar[FileOf[r]] = "open"
  BY <1>1, FileOfAssumption DEF mountBar
<1>3. /\ statusBar[r] = "idle" /\ statusBar'[r] = "queued"
      /\ \A q \in Requests \ {r} : statusBar'[q] = statusBar[q]
  BY <1>1 DEF statusBar
<1>4. outcomeBar' = outcomeBar
  <2>1. ASSUME NEW q \in Requests PROVE outcomeBar'[q] = outcomeBar[q]
    <3>1. ~ReleaseRequest(q)
      BY <1>1 DEF ReleaseRequest
    <3>2. CASE q = r
      BY <1>0, <1>3, <3>1, <3>2, OutcomeFrame
    <3>3. CASE q # r
      BY <1>0, <1>1, <1>3, <3>1, <3>3, OutcomeFrame
    <3>4. QED  BY <3>2, <3>3
  <2>2. QED  BY <2>1, BarsAreFunctions
<1>5. mountBar' = mountBar
  BY <1>1, MountFrame
<1>6. Store!Move(r, "idle", "queued")
  BY <1>3, MoveRefines
<1>7. QED  BY <1>1, <1>2, <1>4, <1>5, <1>6 DEF Store!Push

LEMMA CancelRefines ==
    ASSUME Known, StoreInv, Next, NEW r \in Requests, CancelRequest(r)
    PROVE  Store!Cancel(r)
<1>0. BuffersKnown
  BY DEF StoreInv
<1>1. /\ r \in queue /\ bCancelled' = bCancelled \cup {r}
      /\ UNCHANGED <<idle, queue, delivered, bFailed, CompletedRequests, containers, state>>
  BY DEF CancelRequest, fileVars
<1>2. statusBar[r] = "queued"
  BY <1>1, StatusIsPlace
<1>3. statusBar' = statusBar /\ mountBar' = mountBar
  BY <1>1, StatusFrame, MountFrame
<1>4. outcomeBar' = outcomeBar
  <2>1. ASSUME NEW q \in Requests PROVE outcomeBar'[q] = outcomeBar[q]
    <3>1. ~ReleaseRequest(q)
      BY <1>1 DEF ReleaseRequest
    <3>2. CASE q = r
      BY <1>0, <1>2, <1>3, <3>1, <3>2, OutcomeFrame
    <3>3. CASE q # r
      BY <1>0, <1>1, <1>3, <3>1, <3>3, OutcomeFrame
    <3>4. QED  BY <3>2, <3>3
  <2>2. QED  BY <2>1, BarsAreFunctions
<1>5. QED  BY <1>1, <1>2, <1>3, <1>4 DEF Store!Cancel

LEMMA CollectRefines ==
    ASSUME Known, StoreInv, Next, GetCompletedRequests
    PROVE  Store!Collect
<1>0. BuffersKnown
  BY DEF StoreInv
<1>1. /\ delivered' = delivered \cup ToSet(CompletedRequests) /\ CompletedRequests' = <<>>
      /\ UNCHANGED <<idle, queue, bCancelled, bFailed, containers, state>>
  BY DEF GetCompletedRequests, fileVars
<1>2. ToSet(CompletedRequests') = {}
  BY <1>1 DEF ToSet
<1>3. ASSUME NEW r \in Requests
      PROVE  statusBar'[r] = IF statusBar[r] = "completed" THEN "delivered" ELSE statusBar[r]
  <2>1. CASE statusBar[r] = "completed"
    <3>1. r \in ToSet(CompletedRequests) /\ r \notin idle /\ r \notin queue
      BY <2>1, StatusIsPlace
    <3>2. QED  BY <1>1, <2>1, <3>1 DEF statusBar
  <2>2. CASE statusBar[r] # "completed"
    <3>1. r \notin ToSet(CompletedRequests)
      BY <2>2, StatusIsPlace
    <3>2. QED  BY <1>1, <1>2, <2>2, <3>1 DEF statusBar
  <2>3. QED  BY <2>1, <2>2
<1>4. outcomeBar' = outcomeBar
  <2>1. ASSUME NEW q \in Requests PROVE outcomeBar'[q] = outcomeBar[q]
    <3>1. ~ReleaseRequest(q)
      BY <1>1 DEF ReleaseRequest
    <3>2. \/ /\ statusBar[q] \notin {"completed", "delivered"}
             /\ statusBar'[q] \notin {"completed", "delivered"}
          \/ /\ statusBar[q] \in {"completed", "delivered"}
             /\ statusBar'[q] \in {"completed", "delivered"}
      BY <1>3
    <3>3. QED  BY <1>0, <1>1, <3>1, <3>2, OutcomeFrame
  <2>2. QED  BY <2>1, BarsAreFunctions
<1>5. mountBar' = mountBar
  BY <1>1, MountFrame
<1>6. statusBar' = [r \in Requests |-> IF statusBar[r] = "completed" THEN "delivered"
                                                                  ELSE statusBar[r]]
  BY <1>3, BarsAreFunctions
<1>7. QED  BY <1>1, <1>4, <1>5, <1>6 DEF Store!Collect

LEMMA ReleaseRefines ==
    ASSUME Known, StoreInv, Next, NEW r \in Requests, ReleaseRequest(r)
    PROVE  Store!Release(r)
<1>0. BuffersKnown
  BY DEF StoreInv
<1>1. /\ r \in delivered /\ delivered' = delivered \ {r} /\ idle' = idle \cup {r}
      /\ bCancelled' = bCancelled \ {r} /\ bFailed' = bFailed \ {r}
      /\ UNCHANGED <<queue, CompletedRequests, containers, state>>
  BY DEF ReleaseRequest, fileVars
<1>2. statusBar[r] = "delivered"
  BY <1>1, StatusIsPlace
<1>3. /\ statusBar'[r] = "idle"
      /\ \A q \in Requests \ {r} : statusBar'[q] = statusBar[q]
  BY <1>1 DEF statusBar
<1>4. outcomeBar' = [outcomeBar EXCEPT ![r] = "none"]
  <2>1. ASSUME NEW q \in Requests \ {r} PROVE outcomeBar'[q] = outcomeBar[q]
    <3>1. ~ReleaseRequest(q)
      <4>1. ASSUME ReleaseRequest(q) PROVE FALSE
        <5>1. r \in idle' /\ r \notin idle /\ idle' = idle \cup {q}
          BY <1>1, <1>2, <4>1, StatusIsPlace DEF ReleaseRequest
        <5>2. QED  BY <2>1, <5>1
      <4>2. QED  BY <4>1
    <3>2. QED  BY <1>0, <1>1, <1>3, <3>1, OutcomeFrame
  <2>2. outcomeBar'[r] = "none"
    BY <1>3 DEF outcomeBar
  <2>3. [outcomeBar EXCEPT ![r] = "none"] =
            [q \in Requests |-> IF q = r THEN "none" ELSE outcomeBar[q]]
    BY BarsAreFunctions
  <2>4. \A q \in Requests : outcomeBar'[q] = IF q = r THEN "none" ELSE outcomeBar[q]
    BY <2>1, <2>2
  <2>5. QED  BY <2>3, <2>4, BarsAreFunctions
<1>5. mountBar' = mountBar
  BY <1>1, MountFrame
<1>6. Store!Move(r, "delivered", "idle")
  BY <1>2, <1>3, MoveRefines
<1>7. QED  BY <1>1, <1>4, <1>5, <1>6 DEF Store!Release

LEMMA AcceptRefines ==
    ASSUME Known, StoreInv, Next, NEW r \in Requests, PopRequest(r)
    PROVE  Store!Accept(r)
<1>0. BuffersKnown
  BY DEF StoreInv
<1>1. /\ r \in queue /\ queue' = queue \ {r}
      /\ UNCHANGED <<idle, delivered, bCancelled, bFailed, CompletedRequests, containers, state>>
  BY DEF PopRequest, fileVars
<1>2. /\ statusBar[r] = "queued" /\ r \notin idle /\ r \notin delivered
      /\ r \notin ToSet(CompletedRequests)
  <2>1. statusBar[r] = "queued"
    BY <1>1, StatusIsPlace
  <2>2. QED  BY <2>1, StatusIsPlace
<1>3. /\ statusBar'[r] = "accepted"
      /\ \A q \in Requests \ {r} : statusBar'[q] = statusBar[q]
  BY <1>1, <1>2 DEF statusBar
<1>4. outcomeBar' = outcomeBar
  <2>1. ASSUME NEW q \in Requests PROVE outcomeBar'[q] = outcomeBar[q]
    <3>1. ~ReleaseRequest(q)
      BY <1>1 DEF ReleaseRequest
    <3>2. CASE q = r
      BY <1>0, <1>2, <1>3, <3>1, <3>2, OutcomeFrame
    <3>3. CASE q # r
      BY <1>0, <1>1, <1>3, <3>1, <3>3, OutcomeFrame
    <3>4. QED  BY <3>2, <3>3
  <2>2. QED  BY <2>1, BarsAreFunctions
<1>5. mountBar' = mountBar
  BY <1>1, MountFrame
<1>6. Store!Move(r, "queued", "accepted")
  BY <1>2, <1>3, MoveRefines
<1>7. QED  BY <1>1, <1>4, <1>5, <1>6 DEF Store!Accept

LEMMA DropRefines ==
    ASSUME Known, StoreInv, Next, NEW f \in Files, UnregisterFile(f)
    PROVE  Store!Drop(f)
<1>0. /\ IInv /\ TypeOK /\ RingBounds /\ PendingAccounting
      /\ NothingPending /\ RequestInHand /\ MountsKnown /\ BuffersKnown
      /\ state \in [Files -> {"Deleted", "Closed", "Fixed"}]
      /\ \A r \in Requests : InOnePlace(r)
  BY DEF Known, StoreInv, IInv, TypeOK
<1>1. /\ pc = "unregister" /\ FilesToUnregister # <<>> /\ f = Head(FilesToUnregister)
      /\ state' = [state EXCEPT ![f] = "Deleted"]
      /\ UNCHANGED <<idle, queue, delivered, bCancelled, bFailed, CompletedRequests, containers>>
  BY DEF UnregisterFile, engineVars
<1>2. f \in ToSet(FilesToUnregister)
  <2>1. FilesToUnregister \in Seq(Files)
    BY <1>0 DEF TypeOK
  <2>2. /\ Len(FilesToUnregister) \in Nat /\ Len(FilesToUnregister) # 0
        /\ DOMAIN FilesToUnregister = 1 .. Len(FilesToUnregister)
    BY <1>1, <2>1, LenProperties, EmptySeq
  <2>3. 1 \in DOMAIN FilesToUnregister /\ Head(FilesToUnregister) = FilesToUnregister[1]
    BY <2>1, <2>2
  <2>4. QED  BY <1>1, <2>3 DEF ToSet
<1>3. f \notin containers /\ state[f] # "Deleted"
  BY <1>0, <1>2 DEF MountsKnown
<1>4. mountBar[f] = "closing"
  BY <1>3 DEF mountBar
<1>5. mountBar' = [mountBar EXCEPT ![f] = "absent"]
  <2>1. \A g \in Files : mountBar'[g] = IF g = f THEN "absent" ELSE mountBar[g]
    BY <1>0, <1>1, <1>3 DEF mountBar
  <2>2. [mountBar EXCEPT ![f] = "absent"] =
            [g \in Files |-> IF g = f THEN "absent" ELSE mountBar[g]]
    BY BarsAreFunctions
  <2>3. QED  BY <2>1, <2>2, BarsAreFunctions
<1>6. \A r \in Requests : RingHas(r) = 0
  <2>1. NumPendingCompletions = 0 /\ ready = 0
    BY <1>0, <1>1 DEF NothingPending, RingBounds
  <2>2. /\ sq = <<>> /\ inflight = <<>> /\ deferred = <<>> /\ overflow = <<>> /\ Len(cq) = 0
    BY <1>0, <2>1, NothingPendingMeansEmpty
  <2>3. cq = <<>>
    BY <1>0, <2>2, EmptySeq DEF TypeOK
  <2>4. Unreaped = <<>>
    <3>1. ready \in 0 .. Len(cq) /\ cq \in Seq(Cqe)
      BY <1>0, <2>1, <2>2 DEF TypeOK
    <3>2. Unreaped \in Seq(Cqe) /\ Len(Unreaped) = Len(cq) - ready
      BY <3>1, DropProperties DEF Unreaped
    <3>3. Len(Unreaped) = 0
      BY <2>1, <2>2, <3>2
    <3>4. QED  BY <3>2, <3>3, EmptySeq
  <2>5. QED  BY <2>2, <2>4, TimesEmpty DEF RingHas
<1>7. NextRequest = None
  BY <1>0, <1>1 DEF RequestInHand, Issuing
<1>8. ASSUME NEW r \in Requests, FileOf[r] = f
      PROVE  statusBar[r] \notin {"queued", "accepted"}
  <2>1. r \notin queue
    BY <1>0, <1>3, <1>8 DEF MountsKnown
  <2>2. r \in idle \/ r \in delivered \/ r \in ToSet(CompletedRequests)
    <3>1. EngineHas(r) + ServiceHas(r) + RingHas(r) + CompletedHas(r) = 1
      BY <1>0 DEF InOnePlace
    <3>2. ServiceHas(r) = 0
      BY <1>7, Constants DEF ServiceHas, Bit
    <3>3. /\ EngineHas(r) \in Nat /\ CompletedHas(r) \in Nat
          /\ CompletedHas(r) = 0 <=> r \notin ToSet(CompletedRequests)
      BY <1>0, PartsAreNat
    <3>4. EngineHas(r) # 0 \/ CompletedHas(r) # 0
      BY <1>6, <3>1, <3>2, <3>3
    <3>5. QED  BY <2>1, <3>3, <3>4 DEF EngineHas, Bit
  <2>3. QED  BY <2>1, <2>2, StatusIsPlace
<1>9. statusBar' = statusBar
  BY <1>1, StatusFrame
<1>10. outcomeBar' = outcomeBar
  <2>1. ASSUME NEW r \in Requests PROVE outcomeBar'[r] = outcomeBar[r]
    <3>1. ~ReleaseRequest(r)
      BY <1>1 DEF ReleaseRequest
    <3>2. QED  BY <1>0, <1>1, <1>9, <3>1, OutcomeFrame
  <2>2. QED  BY <2>1, BarsAreFunctions
<1>11. QED  BY <1>1, <1>4, <1>5, <1>8, <1>9, <1>10 DEF Store!Drop

\* A request that never reached the ring: cancelled, unopenable or cached.
LEMMA AnsweredRefines ==
    ASSUME Known, StoreInv, Next, NEW r \in Requests, OnRequestComplete(r)
    PROVE  Store!Complete({r})
<1>0. /\ IInv /\ InOnePlace(r) /\ CompletedRequests \in Seq(Requests)
      /\ FlagsKnown /\ BuffersKnown /\ AnswerKnown
  BY DEF Known, StoreInv, IInv, TypeOK
<1>1. /\ pc = "completed" /\ r = NextRequest
      /\ CompletedRequests' = Append(CompletedRequests, r)
      /\ UNCHANGED <<idle, queue, delivered, bCancelled, bFailed, containers, state, buffer,
                     content>>
  BY DEF OnRequestComplete, engineVars, fileVars
<1>2. statusBar[r] = "accepted"
  BY <1>1, AcceptedInHand
<1>3. ToSet(CompletedRequests') = ToSet(CompletedRequests) \cup {r}
  <2>1. CompletedRequests' = CompletedRequests \o <<r>>
    BY <1>0, <1>1, AppendIsConcat
  <2>2. <<r>> \in Seq(Requests) /\ ToSet(<<r>>) = {r}
    BY DEF ToSet
  <2>3. QED  BY <1>0, <2>1, <2>2, ToSetConcat
<1>4. statusBar'[r] = "completed"
  <2>1. r \notin idle /\ r \notin queue /\ r \notin delivered
    BY <1>2 DEF statusBar
  <2>2. QED  BY <1>1, <1>3, <2>1 DEF statusBar
<1>5. /\ outcomeBar'[r] \in {"data", "failed", "cancelled"}
      /\ outcomeBar'[r] = "cancelled" <=> r \in bCancelled
  <2>1. r \in bFailed \/ r \in bCancelled \/ HasData(r)
    BY <1>0, <1>1 DEF AnswerKnown
  <2>2. CASE r \in bFailed
    <3>1. r \notin bCancelled /\ outcomeBar'[r] = "failed"
      BY <1>0, <1>1, <1>4, <2>2 DEF FlagsKnown, outcomeBar
    <3>2. QED  BY <3>1
  <2>3. CASE r \in bCancelled /\ r \notin bFailed
    <3>1. outcomeBar'[r] = "cancelled"
      BY <1>0, <1>1, <1>4, <2>3 DEF FlagsKnown, outcomeBar
    <3>2. QED  BY <2>3, <3>1
  <2>4. CASE HasData(r) /\ r \notin bFailed
    <3>1. r \notin bCancelled /\ outcomeBar'[r] = "data"
      BY <1>0, <1>1, <1>4, <2>4 DEF FlagsKnown, HasData, outcomeBar
    <3>2. QED  BY <3>1
  <2>5. QED  BY <2>1, <2>2, <2>3, <2>4
<1>6. QED  BY <1>0, <1>1, <1>2, <1>3, <1>5, Completes

\* Requests whose completions are reaped.
LEMMA ReapedRefines ==
    ASSUME Known, StoreInv, Next, ready = 0,
           NEW cqes \in Seq(Cqe), cqes # <<>>, ToSet(cqes) \subseteq ToSet(cq),
           ProcessCompletionEvents(cqes),
           UNCHANGED <<idle, queue, delivered, bCancelled, containers, state, buffer, content>>
    PROVE  Store!Complete({c.req : c \in ToSet(cqes)})
<1> DEFINE S == {c.req : c \in ToSet(cqes)}
           reqs == [i \in 1 .. Len(cqes) |-> cqes[i].req]
<1>0. /\ IInv /\ CompletedRequests \in Seq(Requests) /\ cq \in Seq(Cqe)
      /\ DOMAIN cq = 1 .. Len(cq) /\ Len(cqes) \in Nat /\ DOMAIN cqes = 1 .. Len(cqes)
      /\ Len(cqes) # 0
      /\ FlagsKnown /\ BuffersKnown /\ CompletionsKnown
      /\ \A r \in Requests : InOnePlace(r)
  BY LenProperties, EmptySeq DEF Known, StoreInv, IInv, TypeOK
<1>1. ASSUME NEW c \in ToSet(cqes)
      PROVE  /\ c.req \in Requests /\ statusBar[c.req] = "accepted" /\ Delivers(c)
  <2>1. PICK j \in DOMAIN cq : cq[j] = c
    BY <1>1 DEF ToSet
  <2>2. j > ready
    BY <1>0
  <2>3. c.req \in Requests /\ RingHas(c.req) # 0
    BY <2>1, <2>2, EntriesInRing DEF Known
  <2>4. Delivers(c)
    BY <1>0, <2>1, <2>2 DEF CompletionsKnown
  <2>5. QED  BY <2>3, <2>4, AcceptedInHand
<1>2. S \subseteq Requests /\ \A r \in S : statusBar[r] = "accepted"
  BY <1>1
<1>3. S # {}
  <2>1. 1 \in DOMAIN cqes
    BY <1>0
  <2>2. cqes[1] \in ToSet(cqes)
    BY <2>1 DEF ToSet
  <2>3. QED  BY <2>2
<1>4. ToSet(CompletedRequests') = ToSet(CompletedRequests) \cup S
  <2>1. reqs \in Seq(Requests)
    <3>1. \A i \in 1 .. Len(cqes) : cqes[i].req \in Requests
      BY <1>0, <1>1 DEF ToSet
    <3>2. QED  BY <1>0, <3>1
  <2>2. ToSet(reqs) = S
    BY <1>0 DEF ToSet
  <2>3. CompletedRequests' = CompletedRequests \o reqs
    BY DEF ProcessCompletionEvents
  <2> HIDE DEF reqs
  <2>4. QED  BY <1>0, <2>1, <2>2, <2>3, ToSetConcat
<1>5. bFailed' = bFailed \cup FailedIn(cqes) /\ FailedIn(cqes) \subseteq S
  BY DEF ProcessCompletionEvents, FailedIn
<1>6. ASSUME NEW r \in S
      PROVE  /\ outcomeBar'[r] \in {"data", "failed", "cancelled"}
             /\ outcomeBar'[r] = "cancelled" <=> r \in bCancelled
  <2>1. PICK c \in ToSet(cqes) : c.req = r
    OBVIOUS
  <2>2. r \in Requests /\ statusBar[r] = "accepted" /\ Delivers(c)
    BY <1>1, <2>1
  <2>3. statusBar'[r] = "completed"
    <3>1. r \notin idle /\ r \notin queue /\ r \notin delivered
      BY <2>2 DEF statusBar
    <3>2. QED  BY <1>4, <2>2, <3>1 DEF statusBar
  <2>4. r \notin bCancelled
    BY <1>0, <2>1, <2>2 DEF Delivers, FlagsKnown
  <2>5. CASE r \in bFailed'
    <3>1. outcomeBar'[r] = "failed"
      BY <2>2, <2>3, <2>5 DEF outcomeBar
    <3>2. QED  BY <2>4, <3>1
  <2>6. CASE r \notin bFailed'
    <3>1. c.ok
      BY <1>5, <2>1, <2>6 DEF FailedIn
    <3>2. buffer'[r] # None /\ content'[buffer'[r]] = r
      BY <2>1, <2>2, <3>1 DEF Delivers, HasData
    <3>3. outcomeBar'[r] = "data"
      BY <2>2, <2>3, <2>6, <3>2 DEF outcomeBar
    <3>4. QED  BY <2>4, <3>3
  <2>7. QED  BY <2>5, <2>6
<1> HIDE DEF S
<1>7. \A r \in Requests \ S : r \in bFailed' <=> r \in bFailed
  BY <1>5
<1>8. Store!Complete(S)
  BY <1>0, <1>2, <1>3, <1>4, <1>6, <1>7, Completes
<1>9. QED  BY <1>8 DEF S

LEMMA ServiceRefines ==
    ASSUME Known, StoreInv, Next, Service
    PROVE  Store!Next \/ UNCHANGED Store!vars
<1>0. /\ IInv /\ TypeOK /\ RingBounds /\ BuffersKnown /\ MountsKnown
      /\ cq \in Seq(Cqe) /\ DOMAIN cq = 1 .. Len(cq)
      /\ state \in [Files -> {"Deleted", "Closed", "Fixed"}]
      /\ FileOf \in [Requests -> Files] /\ None \notin Requests
  BY LenProperties, Constants DEF Known, StoreInv, IInv, TypeOK
<1>1. ASSUME UNCHANGED <<idle, queue, delivered, bCancelled, containers, CompletedRequests,
                         state, bFailed>>
      PROVE  UNCHANGED Store!vars
  BY <1>0, <1>1, Stutters
<1>2. ASSUME NEW f \in Files, UnregisterFile(f) PROVE Store!Next
  BY <1>2, DropRefines DEF Store!Next
<1>3. ASSUME NEW r \in Requests, PopRequest(r) PROVE Store!Next
  BY <1>3, AcceptRefines DEF Store!Next
<1>4. ASSUME NEW r \in Requests, OpenFails(r) PROVE UNCHANGED Store!vars
  <2>1. /\ r = NextRequest /\ pc = "open" /\ bFailed' = bFailed \cup {r}
        /\ UNCHANGED <<idle, queue, delivered, bCancelled, containers, CompletedRequests, state>>
    BY <1>4 DEF OpenFails, engineVars, fileVars
  <2>2. statusBar[r] = "accepted"
    BY <2>1, AcceptedInHand
  <2>3. QED  BY <1>0, <2>1, <2>2, Stutters
<1>5. ASSUME NEW r \in Requests, RegisterFile(r) PROVE UNCHANGED Store!vars
  <2>1. /\ r = NextRequest /\ state' = [state EXCEPT ![FileOf[r]] = "Fixed"]
        /\ UNCHANGED <<idle, queue, delivered, bCancelled, containers, CompletedRequests,
                       bFailed>>
    BY <1>5 DEF RegisterFile, engineVars
  <2>2. state[FileOf[r]] # "Deleted"
    BY <1>0, <2>1 DEF MountsKnown
  <2>3. \A f \in Files : state'[f] = "Deleted" <=> state[f] = "Deleted"
    BY <1>0, <2>1, <2>2
  <2>4. QED  BY <1>0, <2>1, <2>3, Stutters
<1>6. ASSUME NEW r \in Requests, OnRequestComplete(r) PROVE Store!Next
  <2>1. Store!Complete({r}) /\ {r} \in SUBSET Requests
    BY <1>6, AnsweredRefines
  <2>2. QED  BY <2>1 DEF Store!Next
<1>7. CASE ReapBatch \/ WaitCqe
  <2>1. PICK cqes \in Seq(Cqe) :
           cqes # <<>> /\ ToSet(cqes) \subseteq ToSet(cq) /\ ProcessCompletionEvents(cqes)
    <3>1. CASE ReapBatch
      BY <1>0, <3>1 DEF ReapBatch
    <3>2. CASE WaitCqe
      <4>1. cq # <<>> /\ ProcessCompletionEvents(<<Head(cq)>>)
        BY <3>2 DEF WaitCqe
      <4>2. 1 \in DOMAIN cq /\ Head(cq) = cq[1]
        BY <1>0, <4>1, EmptySeq
      <4>3. PICK c : c = Head(cq)
        OBVIOUS
      <4>4. c \in ToSet(cq) /\ c \in Cqe
        BY <1>0, <4>2, <4>3, ElementOfSeq DEF ToSet
      <4>5. <<c>> \in Seq(Cqe) /\ <<c>> # <<>> /\ ToSet(<<c>>) = {c}
        BY <4>4 DEF ToSet
      <4>6. QED  BY <4>1, <4>3, <4>4, <4>5
    <3>3. QED  BY <1>7, <3>1, <3>2
  <2>2. /\ ready = 0
        /\ UNCHANGED <<idle, queue, delivered, bCancelled, containers, state, buffer, content>>
    BY <1>0, <1>7 DEF ReapBatch, WaitCqe, engineVars, fileVars, RingBounds
  <2>3. PICK S : S = {c.req : c \in ToSet(cqes)}
    OBVIOUS
  <2>4. Store!Complete(S)
    BY <2>1, <2>2, <2>3, ReapedRefines
  <2>5. S \in SUBSET Requests
    <3>1. \A j \in DOMAIN cq : cq[j] \in Cqe
      BY <1>0, ElementOfSeq
    <3>2. QED  BY <2>1, <2>3, <3>1 DEF ToSet, Cqe
  <2>6. QED  BY <2>4, <2>5 DEF Store!Next
<1>8. CASE \/ StartRequests \/ EnterRequestLoop \/ NoNextRequest
           \/ (\E b \in Buffers : AcquireBuffer(b))
           \/ NotifyDispatcher \/ SubmissionQueueFull \/ FlushBatch \/ NothingReady
           \/ FlushOverflow \/ NotifyAndAdvance \/ NothingToWaitFor
           \/ WaitEnter \/ NotifyAndProcess \/ LoopOrReturn \/ ServiceWait
  <2>1. UNCHANGED <<idle, queue, delivered, bCancelled, containers, CompletedRequests,
                    state, bFailed>>
    <3>1. CASE \/ StartRequests \/ EnterRequestLoop \/ NoNextRequest
               \/ (\E b \in Buffers : AcquireBuffer(b))
      BY <3>1 DEF StartRequests, EnterRequestLoop, NoNextRequest, AcquireBuffer,
                  engineVars, fileVars
    <3>2. CASE NotifyDispatcher \/ SubmissionQueueFull \/ FlushBatch \/ NothingReady
               \/ FlushOverflow \/ NotifyAndAdvance
      BY <3>2 DEF NotifyDispatcher, SubmissionQueueFull, FlushBatch, NothingReady,
                  FlushOverflow, NotifyAndAdvance, engineVars, fileVars
    <3>3. CASE NothingToWaitFor \/ WaitEnter \/ NotifyAndProcess
               \/ LoopOrReturn \/ ServiceWait
      BY <3>3 DEF NothingToWaitFor, WaitEnter, NotifyAndProcess, LoopOrReturn,
                  ServiceWait, engineVars, fileVars
    <3>4. QED  BY <1>8, <3>1, <3>2, <3>3
  <2>2. QED  BY <1>1, <2>1
<1>9. CASE \/ \E r \in Requests :
                 \/ FileIsFixed(r) \/ OutOfRegisteredFiles(r) \/ IssueRequest(r)
                 \/ SubmitRequest(r) \/ \E hit \in BOOLEAN : AllocateMemory(r, hit)
           \/ \E n \in Consumed : Submit(n)
  <2>1. UNCHANGED <<idle, queue, delivered, bCancelled, containers, CompletedRequests,
                    state, bFailed>>
    BY <1>9 DEF FileIsFixed, OutOfRegisteredFiles, IssueRequest, SubmitRequest,
                AllocateMemory, Submit, engineVars, fileVars
  <2>2. QED  BY <1>1, <2>1
<1>10. QED
  BY <1>2, <1>3, <1>4, <1>5, <1>6, <1>7, <1>8, <1>9, Zenon DEF Service

LEMMA EngineRefines ==
    ASSUME Known, StoreInv, Next, Engine
    PROVE  Store!Next \/ UNCHANGED Store!vars
<1>1. ASSUME NEW f \in Files, OpenContainer(f) PROVE Store!Next
  BY <1>1, OpenRefines DEF Store!Next
<1>2. ASSUME NEW f \in Files, CloseContainer(f) PROVE Store!Next
  BY <1>2, CloseRefines DEF Store!Next
<1>3. ASSUME NEW t \in toNotify, ServiceNotify(t) PROVE UNCHANGED Store!vars
  <2>1. UNCHANGED <<idle, queue, delivered, bCancelled, containers, CompletedRequests,
                    state, bFailed>>
    BY <1>3 DEF ServiceNotify, fileVars
  <2>2. QED  BY <2>1, Stutters DEF StoreInv
<1>4. ASSUME NEW r \in Requests, PushRequest(r) PROVE Store!Next
  BY <1>4, PushRefines DEF Store!Next
<1>5. ASSUME NEW r \in Requests, CancelRequest(r) PROVE Store!Next
  BY <1>5, CancelRefines DEF Store!Next
<1>6. ASSUME NEW r \in Requests, ReleaseRequest(r) PROVE Store!Next
  BY <1>6, ReleaseRefines DEF Store!Next
<1>7. CASE GetCompletedRequests
  BY <1>7, CollectRefines DEF Store!Next
<1>8. QED
  BY <1>1, <1>2, <1>3, <1>4, <1>5, <1>6, <1>7, Zenon DEF Engine

LEMMA KernelRefines ==
    ASSUME Known, StoreInv, Next, Kernel
    PROVE  UNCHANGED Store!vars
<1>1. UNCHANGED <<idle, queue, delivered, bCancelled, containers, CompletedRequests,
                  state, bFailed>>
  BY DEF Kernel, Complete, engineVars, fileVars
<1>2. QED  BY <1>1, Stutters DEF StoreInv

LEMMA InitRefines == Init => Store!Init
<1>1. ASSUME Init PROVE Store!Init
  <2>1. /\ idle = Requests /\ bCancelled = {} /\ containers = {}
        /\ state = [f \in Files |-> "Deleted"]
    BY <1>1 DEF Init
  <2>2. \A r \in Requests : statusBar[r] = "idle"
    BY <2>1 DEF statusBar
  <2>3. \A r \in Requests : outcomeBar[r] = "none"
    BY <2>2 DEF outcomeBar
  <2>4. \A f \in Files : mountBar[f] = "absent"
    BY <2>1 DEF mountBar
  <2>5. QED  BY <2>1, <2>2, <2>3, <2>4, BarsAreFunctions DEF Store!Init
<1>2. QED  BY <1>1

\* The dispatcher implements the interface of IPlatformFileIoStore, for any requests,
\* files, buffers, ring and table sizes: a pushed read is accepted, completed once and
\* collected once, with its own data unless it was cancelled or has failed, and a
\* container is dropped only when no read of it is in the service's hands.
THEOREM DispatcherImplementsStore == Spec => ImplementsStore
<1>1. Init => Store!Init
  BY InitRefines
<1>2. Known /\ StoreInv /\ [Next]_vars => [Store!Next]_(Store!vars)
  <2>1. ASSUME Known, StoreInv, Next PROVE Store!Next \/ UNCHANGED Store!vars
    BY <2>1, EngineRefines, ServiceRefines, KernelRefines DEF Next
  <2>2. ASSUME UNCHANGED vars PROVE UNCHANGED Store!vars
    BY <2>2 DEF vars, engineVars, fileVars, Store!vars, statusBar, outcomeBar, mountBar
  <2>3. QED  BY <2>1, <2>2
<1>3. QED
  BY <1>1, <1>2, StoreInvariance, PTL DEF Spec, ImplementsStore, Store!Spec

=============================================================================
