------------------------------ MODULE UringRing ------------------------------
(***************************************************************************)
(* The two rings as liburing keeps them: free-running indices that wrap,   *)
(* slots found by masking, and shared flags.  The dispatcher is the only   *)
(* thread that submits and reaps.  In SQPoll mode a kernel thread takes    *)
(* the entries concurrently, goes to sleep when there are none, and must   *)
(* be woken; stores of the dispatcher then reach memory late.  Otherwise   *)
(* the kernel takes entries inside io_uring_enter.                         *)
(*                                                                         *)
(* The dispatcher calls the ring in any order that its request loop can    *)
(* (LinuxIoDispatcher has that loop in full): it acquires the entries of   *)
(* one read, submits, peeks, and waits only while something is pending.    *)
(***************************************************************************)
EXTENDS Integers, Sequences, FiniteSets, SequencesExt

CONSTANTS
    Ops,            \* user_data of the entries: a read, or a part of one
    Burst,          \* most entries acquired for one read
    BatchSize,      \* GBatchSubmitSize
    SqEntries,      \* sq.ring_entries
    CqEntries,      \* cq.ring_entries
    IndexModulus,   \* 2^32 in the code: where an index wraps to 0
    None

ASSUME RingAssumption ==
    /\ SqEntries \in Nat \ {0} /\ CqEntries \in Nat \ {0}
    /\ IndexModulus \in Nat
    /\ SqEntries < IndexModulus /\ CqEntries < IndexModulus
\* Both sizes are powers of two, as 2^32 is: an index that wraps wraps its slot too.
ASSUME SlotAssumption == IndexModulus % SqEntries = 0 /\ IndexModulus % CqEntries = 0
ASSUME ClientAssumption == Burst \in Nat \ {0} /\ BatchSize \in Nat \ {0}
ASSUME NoneAssumption == None \notin Ops

VARIABLES
    sqpoll,                     \* IORING_SETUP_SQPOLL, chosen at set-up
    pc, left, caller, pending,  \* the dispatcher: entries still to acquire for a
                                \* read; why it submits; reads not submitted
    idle,                       \* operations the dispatcher may start
    toSubmit, needsEvents, wakeup   \* locals of __io_uring_submit
VARIABLES
    sqes, sqe_tail, sqe_head,   \* entries; the dispatcher's tail, and the last
                                \* one it stored
    ktail, khead,               \* sq.ktail as it is in memory, sq.khead
    poller, needWakeup          \* the polling thread; IORING_SQ_NEED_WAKEUP
VARIABLES
    cqes, cktail, ckhead,       \* the completion ring
    seen,                       \* completions processed but not advanced past
    inflight, overflow          \* in the kernel; its overflow list, which
                                \* IORING_SQ_CQ_OVERFLOW announces when not empty

clientVars == <<left, caller, pending>>
submitVars == <<toSubmit, needsEvents, wakeup>>
sqVars == <<sqes, sqe_tail, sqe_head, ktail, khead>>
pollVars == <<poller, needWakeup>>
cqVars == <<cqes, cktail, ckhead, seen, overflow>>
vars == <<sqpoll, pc, clientVars, idle, submitVars, sqVars, pollVars, cqVars, inflight>>

\* Unsigned arithmetic on indices.  Mutant: the sum does not wrap.
Indices == 0 .. IndexModulus - 1
Plus_NoWrap(i, n) == i + n
Plus(i, n) == IF i + n < IndexModulus THEN i + n ELSE i + n - IndexModulus
Minus(i, j) == IF i >= j THEN i - j ELSE i - j + IndexModulus

SqSlot(i) == i % SqEntries
CqSlot(i) == i % CqEntries

PCs == {"next", "get", "sqwait", "submit", "flush", "count", "needsenter",
        "barrier", "enter", "process", "advance", "wait"}

TypeOK ==
    /\ sqpoll \in BOOLEAN
    /\ pc \in PCs /\ left \in Nat /\ caller \in {"read", "full", "last"}
    /\ pending \in Nat
    /\ idle \subseteq Ops
    /\ toSubmit \in Nat /\ needsEvents \in BOOLEAN /\ wakeup \in BOOLEAN
    /\ sqes \in [0 .. SqEntries - 1 -> Ops \cup {None}]
    /\ sqe_tail \in Indices /\ sqe_head \in Indices
    /\ ktail \in Indices /\ khead \in Indices
    /\ poller \in {"polling", "announced", "asleep", "woken"} /\ needWakeup \in BOOLEAN
    /\ cqes \in [0 .. CqEntries - 1 -> Ops \cup {None}]
    /\ cktail \in Indices /\ ckhead \in Indices
    /\ seen \in Nat
    /\ inflight \subseteq Ops /\ overflow \in Seq(Ops)

Init ==
    /\ sqpoll \in BOOLEAN
    /\ pc = "next" /\ left = 0 /\ caller = "read" /\ pending = 0
    /\ idle = Ops
    /\ toSubmit = 0 /\ needsEvents = FALSE /\ wakeup = FALSE
    /\ sqes = [s \in 0 .. SqEntries - 1 |-> None]
    /\ sqe_tail = 0 /\ sqe_head = 0 /\ ktail = 0 /\ khead = 0
    /\ poller = "polling" /\ needWakeup = FALSE
    /\ cqes = [s \in 0 .. CqEntries - 1 |-> None]
    /\ cktail = 0 /\ ckhead = 0 /\ seen = 0
    /\ inflight = {} /\ overflow = <<>>

-----------------------------------------------------------------------------
(* The dispatcher acquires entries.                                          *)

\* A read of n parts: one, or as many as an NVMe read is split into.
BeginRead(n) ==
    /\ pc = "next" /\ n <= Cardinality(idle)
    /\ left' = n /\ pc' = "get"
    /\ UNCHANGED <<sqpoll, caller, pending, idle, submitVars, sqVars, pollVars,
                   cqVars, inflight>>

\* io_uring_sq_ready, io_uring_sq_space_left: by the kernel's own head.
SqReady == Minus(sqe_tail, khead)
SpaceLeft == SqEntries - SqReady

\* tail - head >= sq->ring_entries.  Mutant: one entry more.
SqFull_OffByOne == SqReady > SqEntries
SqFull == SqReady >= SqEntries

\* io_uring_get_sqe, and the filling of the entry.
GetSqe(o) ==
    /\ pc = "get" /\ o \in idle /\ ~SqFull
    /\ sqes' = [sqes EXCEPT ![SqSlot(sqe_tail)] = o]
    /\ sqe_tail' = Plus(sqe_tail, 1)
    /\ idle' = idle \ {o}
    /\ left' = left - 1
    /\ pc' = IF left = 1 THEN "submit" ELSE "get"
    /\ UNCHANGED <<sqpoll, caller, pending, submitVars, sqe_head, ktail, khead,
                   pollVars, cqVars, inflight>>

\* GetSubmissionQueueEvent with no entry free.
NoSqe ==
    /\ pc = "get" /\ SqFull
    /\ IF sqpoll THEN pc' = "sqwait" /\ UNCHANGED caller
                 ELSE pc' = "flush" /\ caller' = "full"
    /\ UNCHANGED <<sqpoll, left, pending, idle, submitVars, sqVars, pollVars, cqVars,
                   inflight>>

\* io_uring_sqring_wait: back at once when there is space; else the kernel waits
\* until the ring, as far as it is published, is not full.
SqringWait ==
    /\ pc = "sqwait"
    /\ SpaceLeft # 0 \/ Minus(ktail, khead) # SqEntries
    /\ pc' = "get"
    /\ UNCHANGED <<sqpoll, clientVars, idle, submitVars, sqVars, pollVars, cqVars,
                   inflight>>

\* SubmitRequest: at once in SQPoll mode, else with a full batch.
SubmitRequest ==
    /\ pc = "submit"
    /\ pending' = IF sqpoll THEN pending ELSE pending + 1
    /\ IF sqpoll \/ pending' >= BatchSize
         THEN pc' = "flush" /\ caller' = "read"
         ELSE pc' = "process" /\ UNCHANGED caller
    /\ UNCHANGED <<sqpoll, left, idle, submitVars, sqVars, pollVars, cqVars, inflight>>

\* No further request: the batch is submitted, then the dispatcher waits.
NoMoreReads ==
    /\ pc = "next" /\ idle # Ops
    /\ IF pending > 0 THEN pc' = "flush" /\ caller' = "last"
                      ELSE pc' = "wait" /\ UNCHANGED caller
    /\ UNCHANGED <<sqpoll, left, pending, idle, submitVars, sqVars, pollVars, cqVars,
                   inflight>>

-----------------------------------------------------------------------------
(* io_uring_submit.                                                          *)

\* __io_uring_flush_sq: the tail is stored; without SQPoll nobody else reads it
\* before the enter.
FlushSq ==
    /\ pc = "flush"
    /\ sqe_head' = sqe_tail
    /\ ktail' = IF sqpoll THEN ktail ELSE sqe_tail
    /\ pc' = "count"
    /\ UNCHANGED <<sqpoll, clientVars, idle, submitVars, sqes, sqe_tail, khead, pollVars,
                   cqVars, inflight>>

\* What is offered counts from the kernel's head, whatever was offered before.  The
\* head is loaded with no regard to whether the store is visible yet.
CountOffered ==
    /\ pc = "count"
    /\ toSubmit' = Minus(sqe_tail, khead)
    /\ pc' = "needsenter"
    /\ UNCHANGED <<sqpoll, clientVars, idle, needsEvents, wakeup, sqVars, pollVars, cqVars,
                   inflight>>

\* __io_uring_submit returns, and with it its locals are gone.
SubmitReturns ==
    /\ pc' = IF caller = "full" THEN "get" ELSE "process"
    /\ pending' = 0 /\ caller' = "read"
    /\ toSubmit' = 0 /\ needsEvents' = FALSE /\ wakeup' = FALSE

\* cq_ring_needs_enter: completions are waiting outside the ring.
CqNeedsEnter == overflow # <<>>

\* cq_ring_needs_enter, then sq_ring_needs_enter up to its barrier.
NeedsEnter ==
    /\ pc = "needsenter"
    /\ IF toSubmit = 0 /\ ~CqNeedsEnter
         THEN SubmitReturns
         ELSE /\ needsEvents' = CqNeedsEnter
              /\ pc' = IF sqpoll /\ toSubmit # 0 THEN "barrier" ELSE "enter"
              /\ UNCHANGED <<caller, pending, toSubmit, wakeup>>
    /\ UNCHANGED <<sqpoll, left, idle, sqVars, pollVars, cqVars, inflight>>

\* io_uring_smp_mb: the stored tail is in memory before the flags are read.
\* Mutant: no barrier.
Barrier_None == TRUE
Barrier == ktail = sqe_head

\* IORING_SQ_NEED_WAKEUP.  Mutant: only looked at together with the overflow flag.
WakeupFlag_WithEvents == needWakeup /\ needsEvents
WakeupFlag == needWakeup

ReadFlags ==
    /\ pc = "barrier" /\ Barrier
    /\ IF WakeupFlag \/ needsEvents
         THEN /\ wakeup' = WakeupFlag /\ pc' = "enter"
              /\ UNCHANGED <<caller, pending, toSubmit, needsEvents>>
         ELSE SubmitReturns
    /\ UNCHANGED <<sqpoll, left, idle, sqVars, pollVars, cqVars, inflight>>

\* IORING_ENTER_GETEVENTS: the overflow list is moved as far as there is room.
Room == CqEntries - Minus(cktail, ckhead)
Moved == IF Len(overflow) < Room THEN Len(overflow) ELSE Room
FlushOverflowList ==
    /\ cqes' = [s \in DOMAIN cqes |->
                  IF \E i \in 1 .. Moved : CqSlot(Plus(cktail, i - 1)) = s
                  THEN overflow[CHOOSE i \in 1 .. Moved : CqSlot(Plus(cktail, i - 1)) = s]
                  ELSE cqes[s]]
    /\ cktail' = Plus(cktail, Moved)
    /\ overflow' = SubSeq(overflow, Moved + 1, Len(overflow))

\* io_uring_enter in SQPoll mode takes no entries, it only wakes the poller.
EnterSqPoll ==
    /\ pc = "enter" /\ sqpoll
    /\ poller' = IF wakeup /\ poller \in {"announced", "asleep"} THEN "woken" ELSE poller
    /\ IF needsEvents THEN FlushOverflowList ELSE UNCHANGED <<cqes, cktail, overflow>>
    /\ SubmitReturns
    /\ UNCHANGED <<sqpoll, left, idle, sqVars, needWakeup, ckhead, seen, inflight>>

\* Otherwise the kernel takes n of the entries offered, and looks at events only
\* if it took them all.
Enter(n) ==
    /\ pc = "enter" /\ ~sqpoll
    /\ khead' = Plus(khead, n)
    /\ inflight' = inflight \cup {sqes[SqSlot(Plus(khead, i - 1))] : i \in 1 .. n}
    /\ IF needsEvents /\ n = toSubmit
         THEN FlushOverflowList ELSE UNCHANGED <<cqes, cktail, overflow>>
    /\ SubmitReturns
    /\ UNCHANGED <<sqpoll, left, idle, sqes, sqe_tail, sqe_head, ktail, pollVars,
                   ckhead, seen>>

-----------------------------------------------------------------------------
(* The dispatcher reaps.                                                     *)

\* io_uring_cq_ready
CqReady == Minus(cktail, ckhead)

\* io_uring_peek_batch_cqe finds nothing, and no flag says to enter.
PeekNothing ==
    /\ pc = "process" /\ (idle # Ops => CqReady = 0 /\ ~CqNeedsEnter)
    /\ pc' = "next"
    /\ UNCHANGED <<sqpoll, clientVars, idle, submitVars, sqVars, pollVars, cqVars,
                   inflight>>

\* cq_ring_needs_flush, then io_uring_get_events; or the enter of the wait.
GetEvents ==
    /\ pc \in {"process", "wait"} /\ CqReady = 0 /\ CqNeedsEnter
    /\ FlushOverflowList
    /\ UNCHANGED <<sqpoll, pc, clientVars, idle, submitVars, sqVars, pollVars, ckhead,
                   seen, inflight>>

\* Every completion found is processed; its operation may be started again.
ProcessBatch ==
    /\ pc = "process" /\ CqReady # 0
    /\ seen' = CqReady
    /\ idle' = idle \cup {cqes[CqSlot(Plus(ckhead, i - 1))] : i \in 1 .. CqReady}
    /\ pc' = "advance"
    /\ UNCHANGED <<sqpoll, clientVars, submitVars, sqVars, pollVars, cqes, cktail,
                   ckhead, overflow, inflight>>

\* io_uring_cq_advance(Ready).  Mutant: past what is there by now.
Advanced_ToTail == cktail
Advanced == Plus(ckhead, seen)

CqAdvance ==
    /\ pc = "advance"
    /\ ckhead' = Advanced
    /\ seen' = 0
    /\ pc' = "next"
    /\ UNCHANGED <<sqpoll, clientVars, idle, submitVars, sqVars, pollVars, cqes,
                   cktail, overflow, inflight>>

\* __io_uring_peek_cqe: the completion at the head.
PeekCqe == cqes[CqSlot(ckhead)]

\* io_uring_wait_cqe and io_uring_cqe_seen, then what else is there is processed.
WaitCqe ==
    /\ pc = "wait" /\ CqReady # 0
    /\ idle' = idle \cup {PeekCqe}
    /\ ckhead' = Plus(ckhead, 1)
    /\ pc' = "process"
    /\ UNCHANGED <<sqpoll, clientVars, submitVars, sqVars, pollVars, cqes, cktail,
                   seen, overflow, inflight>>

-----------------------------------------------------------------------------
(* The memory system, the polling thread and the completion of operations.   *)

\* A store leaves the store buffer.
TailVisible ==
    /\ ktail # sqe_head
    /\ ktail' = sqe_head
    /\ UNCHANGED <<sqpoll, pc, clientVars, idle, submitVars, sqes, sqe_tail, sqe_head,
                   khead, pollVars, cqVars, inflight>>

PollTake ==
    /\ sqpoll /\ poller = "polling" /\ khead # ktail
    /\ inflight' = inflight \cup {sqes[SqSlot(khead)]}
    /\ khead' = Plus(khead, 1)
    /\ UNCHANGED <<sqpoll, pc, clientVars, idle, submitVars, sqes, sqe_tail, sqe_head,
                   ktail, pollVars, cqVars>>

\* Idle for sq_thread_idle: the flag is set, then the ring looked at once more.
PollAnnounce ==
    /\ sqpoll /\ poller = "polling" /\ khead = ktail
    /\ poller' = "announced" /\ needWakeup' = TRUE
    /\ UNCHANGED <<sqpoll, pc, clientVars, idle, submitVars, sqVars, cqVars, inflight>>

PollSleep ==
    /\ poller = "announced"
    /\ IF khead = ktail THEN poller' = "asleep" /\ UNCHANGED needWakeup
                        ELSE poller' = "polling" /\ needWakeup' = FALSE
    /\ UNCHANGED <<sqpoll, pc, clientVars, idle, submitVars, sqVars, cqVars, inflight>>

PollWake ==
    /\ poller = "woken"
    /\ poller' = "polling" /\ needWakeup' = FALSE
    /\ UNCHANGED <<sqpoll, pc, clientVars, idle, submitVars, sqVars, cqVars, inflight>>

\* A completion goes to the ring while nothing has overflowed and there is room.
Complete(o) ==
    /\ o \in inflight
    /\ inflight' = inflight \ {o}
    /\ IF overflow = <<>> /\ CqReady < CqEntries
         THEN /\ cqes' = [cqes EXCEPT ![CqSlot(cktail)] = o]
              /\ cktail' = Plus(cktail, 1)
              /\ UNCHANGED overflow
         ELSE /\ overflow' = Append(overflow, o)
              /\ UNCHANGED <<cqes, cktail>>
    /\ UNCHANGED <<sqpoll, pc, clientVars, idle, submitVars, sqVars, pollVars, ckhead,
                   seen>>

-----------------------------------------------------------------------------
Dispatcher ==
    \/ \E n \in 1 .. Burst : BeginRead(n)
    \/ \E o \in Ops : GetSqe(o)
    \/ NoSqe \/ SqringWait \/ SubmitRequest \/ NoMoreReads
    \/ FlushSq \/ CountOffered \/ NeedsEnter \/ ReadFlags \/ EnterSqPoll
    \/ \E n \in 0 .. toSubmit : Enter(n)
    \/ PeekNothing \/ GetEvents \/ ProcessBatch \/ CqAdvance \/ WaitCqe

Poller == PollTake \/ PollAnnounce \/ PollSleep \/ PollWake

Next == Dispatcher \/ TailVisible \/ Poller \/ \E o \in Ops : Complete(o)

Spec == Init /\ [][Next]_vars

\* The dispatcher thread runs, stores become visible, the polling thread runs
\* while it is not asleep, and the kernel completes what it took.
Fairness ==
    /\ WF_vars(Dispatcher) /\ WF_vars(TailVisible) /\ WF_vars(Poller)
    /\ \A o \in Ops : WF_vars(Complete(o))

FairSpec == Spec /\ Fairness

-----------------------------------------------------------------------------
(* Properties                                                                *)

\* The indices stay in their order round the ring, for all that they wrap: the
\* kernel never runs past what is published, nor the dispatcher past the kernel
\* by more than the ring holds, and the same for completions.
SqInOrder ==
    /\ Minus(ktail, khead) <= Minus(sqe_head, khead)
    /\ Minus(sqe_head, khead) <= Minus(sqe_tail, khead)
    /\ Minus(sqe_tail, khead) <= SqEntries
CqInOrder == seen <= CqReady /\ CqReady <= CqEntries

IndicesInOrder == SqInOrder /\ CqInOrder

\* The poller does not sleep on entries: asleep, with the dispatcher not inside
\* io_uring_submit, there is none that was stored and not taken.
NoLostWakeup ==
    sqpoll /\ poller = "asleep" /\ pc \notin {"count", "needsenter", "barrier", "enter"} =>
        khead = sqe_head

\* In SQPoll mode every operation comes back, provided no read needs more
\* entries than the ring has.
SqPollCompletes ==
    sqpoll /\ Burst <= SqEntries => \A o \in Ops : (o \notin idle) ~> (o \in idle)

-----------------------------------------------------------------------------
(* The rings implement plain queues.                                         *)

sqBar == [i \in 1 .. Minus(sqe_tail, khead) |-> sqes[SqSlot(Plus(khead, i - 1))]]
cqBar == [i \in 1 .. CqReady - seen |-> cqes[CqSlot(Plus(ckhead, seen + i - 1))]]
           \o overflow

Queues == INSTANCE RingQueues WITH sq <- sqBar, cq <- cqBar

\* Through every wrap of the indices, no entry is overwritten before it is read,
\* none is skipped or read twice, on either ring.
ImplementsQueues == Queues!Spec

=============================================================================
