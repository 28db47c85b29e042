--------------------------- MODULE UringRingProofs ---------------------------
(***************************************************************************)
(* The indices of the rings stay in order, and the SQPoll wake-up is not   *)
(* lost, for rings of any size and indices that wrap anywhere above it.    *)
(*                                                                         *)
(* The second part shows that the rings are plain queues to the program:   *)
(* there the sizes divide the modulus, as powers of two do.                *)
(***************************************************************************)
EXTENDS UringRing, SequenceLemmas

-----------------------------------------------------------------------------
(* The inductive invariant                                                   *)

\* Every slot between head and tail holds an operation,
SqFilled ==
    \A i \in 0 .. SqEntries - 1 :
        i < Minus(sqe_tail, khead) => sqes[SqSlot(Plus(khead, i))] \in Ops
CqFilled ==
    \A i \in 0 .. CqEntries - 1 :
        i < CqReady => cqes[CqSlot(Plus(ckhead, i))] \in Ops

\* an entry is acquired only for a read that still needs one,
Submitting == pc \in {"flush", "count", "needsenter", "barrier", "enter"}
EntryNeeded == pc \in {"get", "sqwait"} \/ (Submitting /\ caller = "full") => left > 0

\* completions are ahead of the head only until it is advanced,
SeenOnlyAtAdvance == pc # "advance" => seen = 0

\* and without SQPoll the kernel is offered exactly what the queue holds.
Offered ==
    /\ pc \in {"count", "needsenter", "barrier", "enter"} => sqe_head = sqe_tail
    /\ ~sqpoll =>
        /\ ktail = sqe_head
        /\ pc \in {"needsenter", "enter"} => toSubmit = Minus(sqe_tail, khead)

\* A store that is not in memory yet keeps the dispatcher before its barrier.
StoreInFlight ==
    /\ ktail # sqe_head => pc \in {"count", "needsenter", "barrier"}
    /\ pc = "needsenter" /\ toSubmit = 0 => khead = sqe_head

\* While the poller is about to sleep or asleep its flag is up, and a sleeping
\* poller with entries before it is about to be woken.
WakeupUnderWay ==
    /\ poller # "polling" => needWakeup
    /\ poller = "asleep" /\ khead # sqe_head =>
          \/ pc \in {"count", "needsenter", "barrier"}
          \/ pc = "enter" /\ wakeup
    /\ ~sqpoll => poller = "polling"
    /\ pc = "barrier" => sqpoll

RingInv ==
    /\ TypeOK /\ SqInOrder /\ CqInOrder /\ SqFilled /\ CqFilled
    /\ EntryNeeded /\ SeenOnlyAtAdvance /\ Offered
    /\ StoreInFlight /\ WakeupUnderWay

-----------------------------------------------------------------------------
(* Arithmetic of indices and slots                                           *)

USE DEF Indices, PCs

LEMMA RingConstants ==
    /\ SqEntries \in Nat \ {0} /\ CqEntries \in Nat \ {0} /\ IndexModulus \in Nat
    /\ SqEntries < IndexModulus /\ CqEntries < IndexModulus
    /\ Burst \in Nat \ {0} /\ BatchSize \in Nat \ {0} /\ None \notin Ops
BY RingAssumption, ClientAssumption, NoneAssumption

\* Sums and differences of indices are indices, and adding undoes subtracting.
LEMMA IndexArithmetic ==
    ASSUME NEW i \in Indices
    PROVE  /\ \A n \in Nat : n < IndexModulus => Plus(i, n) \in Indices
           /\ \A j \in Indices : Minus(i, j) \in Indices
           /\ \A j \in Indices : Plus(j, Minus(i, j)) = i
           /\ \A n \in Nat : n < IndexModulus => Minus(Plus(i, n), i) = n
           /\ Minus(i, i) = 0
           /\ \A j \in Indices : Minus(i, j) = 0 => i = j
BY RingConstants DEF Plus, Minus


LEMMA Slot ==
    ASSUME NEW i \in Indices
    PROVE  SqSlot(i) \in 0 .. SqEntries - 1 /\ CqSlot(i) \in 0 .. CqEntries - 1
BY RingConstants DEF SqSlot, CqSlot

-----------------------------------------------------------------------------
(* Lemmas about the parts of the steps                                       *)

\* Entering the kernel for events moves the head of the overflow list into free
\* slots of the ring, and touches no slot it does not fill.
LEMMA FlushProperties ==
    ASSUME TypeOK, CqReady <= CqEntries, FlushOverflowList
    PROVE  /\ Moved \in Nat /\ Moved <= CqEntries - CqReady
           /\ cktail' = Plus(cktail, Moved) /\ cktail' \in Indices
           /\ cqes' \in [0 .. CqEntries - 1 -> Ops \cup {None}]
           /\ overflow' \in Seq(Ops)
           /\ \A s \in 0 .. CqEntries - 1 : cqes[s] \in Ops => cqes'[s] \in Ops
           /\ \A n \in 0 .. Moved - 1 : cqes'[CqSlot(Plus(cktail, n))] \in Ops
<1>1. /\ cqes \in [0 .. CqEntries - 1 -> Ops \cup {None}]
      /\ overflow \in Seq(Ops) /\ Len(overflow) \in Nat
      /\ \A i \in 1 .. Len(overflow) : overflow[i] \in Ops
      /\ cktail \in Indices /\ ckhead \in Indices
  BY LenProperties, ElementOfSeq DEF TypeOK
<1>2. Minus(cktail, ckhead) \in Nat
  BY <1>1, IndexArithmetic
<1>3. Room \in Nat /\ Room = CqEntries - CqReady
  BY <1>2, RingConstants DEF Room, CqReady
<1>4. Moved \in 0 .. Len(overflow) /\ Moved <= Room
  BY <1>1, <1>3 DEF Moved
<1>5. cktail' = Plus(cktail, Moved) /\ cktail' \in Indices
  <2>1. Moved \in Nat /\ Moved < IndexModulus
    BY <1>2, <1>3, <1>4, RingConstants DEF CqReady
  <2>2. QED  BY <1>1, <2>1, IndexArithmetic DEF FlushOverflowList
<1>6. overflow' \in Seq(Ops)
  BY <1>1, <1>4, DropProperties DEF FlushOverflowList
<1> DEFINE Fills(s, i) == CqSlot(Plus(cktail, i - 1)) = s
           chosen(s) == CHOOSE i \in 1 .. Moved : Fills(s, i)
<1>7. cqes' = [s \in 0 .. CqEntries - 1 |->
                IF \E i \in 1 .. Moved : Fills(s, i) THEN overflow[chosen(s)] ELSE cqes[s]]
  BY <1>1 DEF FlushOverflowList
<1>8. ASSUME NEW s \in 0 .. CqEntries - 1, \E i \in 1 .. Moved : Fills(s, i)
      PROVE  overflow[chosen(s)] \in Ops
  <2>1. chosen(s) \in 1 .. Moved
    BY <1>8
  <2>2. QED  BY <1>1, <1>4, <2>1
<1> HIDE DEF Fills, chosen
<1>9. cqes' \in [0 .. CqEntries - 1 -> Ops \cup {None}]
  BY <1>1, <1>7, <1>8
<1>10. \A s \in 0 .. CqEntries - 1 : cqes[s] \in Ops => cqes'[s] \in Ops
  BY <1>1, <1>7, <1>8
<1>11. ASSUME NEW n \in 0 .. Moved - 1
       PROVE  cqes'[CqSlot(Plus(cktail, n))] \in Ops
  <2>1. n \in Nat /\ n < IndexModulus /\ n + 1 \in 1 .. Moved
    BY <1>2, <1>3, <1>4, RingConstants DEF CqReady
  <2>2. CqSlot(Plus(cktail, n)) \in 0 .. CqEntries - 1
    BY <1>1, <2>1, IndexArithmetic, Slot
  <2>3. (n + 1) - 1 = n
    BY <2>1
  <2>4. Fills(CqSlot(Plus(cktail, n)), n + 1)
    BY <2>3 DEF Fills
  <2>5. QED  BY <1>7, <1>8, <2>1, <2>2, <2>4
<1>12. QED  BY <1>3, <1>4, <1>5, <1>6, <1>9, <1>10, <1>11

\* The steps that change neither ring.
QuietStep ==
    \/ \E n \in 1 .. Burst : BeginRead(n)
    \/ NoSqe \/ SqringWait \/ SubmitRequest \/ NoMoreReads \/ CountOffered \/ NeedsEnter
    \/ ReadFlags
    \/ PeekNothing \/ PollAnnounce \/ PollSleep \/ PollWake

LEMMA QuietFrame ==
    ASSUME QuietStep
    PROVE  UNCHANGED <<sqVars, cqVars, idle, inflight, sqpoll>>
<1> USE DEF sqVars, cqVars, submitVars, pollVars, clientVars
<1>1. ASSUME NEW n \in 1 .. Burst, BeginRead(n)
      PROVE  UNCHANGED <<sqVars, cqVars, idle, inflight, sqpoll>>
  BY <1>1 DEF BeginRead
<1>2. CASE NoSqe  BY <1>2 DEF NoSqe
<1>3. CASE SqringWait  BY <1>3 DEF SqringWait
<1>4. CASE SubmitRequest  BY <1>4 DEF SubmitRequest
<1>5. CASE NoMoreReads  BY <1>5 DEF NoMoreReads
<1>6. CASE NeedsEnter  BY <1>6 DEF NeedsEnter
<1>7. CASE ReadFlags  BY <1>7 DEF ReadFlags
<1>8. CASE PeekNothing  BY <1>8 DEF PeekNothing
<1>9. CASE PollAnnounce  BY <1>9 DEF PollAnnounce
<1>10. CASE PollSleep  BY <1>10 DEF PollSleep
<1>11. CASE PollWake  BY <1>11 DEF PollWake
<1>12. CASE CountOffered  BY <1>12 DEF CountOffered
<1>13. QED
  BY <1>1, <1>2, <1>3, <1>4, <1>5, <1>6, <1>7, <1>8, <1>9, <1>10, <1>11, <1>12 DEF QuietStep

\* The distances round the rings are numbers no larger than the rings.
LEMMA Distances ==
    ASSUME TypeOK, SqInOrder, CqInOrder
    PROVE  /\ Minus(ktail, khead) \in 0 .. SqEntries
           /\ Minus(sqe_head, khead) \in 0 .. SqEntries
           /\ Minus(sqe_tail, khead) \in 0 .. SqEntries
           /\ CqReady \in 0 .. CqEntries /\ seen \in 0 .. CqEntries
<1>1. /\ sqe_tail \in Indices /\ sqe_head \in Indices /\ ktail \in Indices
      /\ khead \in Indices /\ cktail \in Indices /\ ckhead \in Indices /\ seen \in Nat
  BY DEF TypeOK
<1>2. /\ Minus(ktail, khead) \in Nat /\ Minus(sqe_head, khead) \in Nat
      /\ Minus(sqe_tail, khead) \in Nat /\ Minus(cktail, ckhead) \in Nat
  BY <1>1, IndexArithmetic
<1>3. QED  BY <1>1, <1>2, RingConstants DEF SqInOrder, CqInOrder, CqReady

-----------------------------------------------------------------------------
(* Every step keeps the variables in their types                             *)

LEMMA QuietTypeStep ==
    ASSUME RingInv, QuietStep
    PROVE  TypeOK'
<1> USE RingConstants DEF RingInv, TypeOK, sqVars, cqVars, submitVars, pollVars, clientVars
<1>1. ASSUME NEW n \in 1 .. Burst, BeginRead(n) PROVE TypeOK'
  BY <1>1 DEF BeginRead
<1>2. CASE NoSqe  BY <1>2 DEF NoSqe
<1>3. CASE SqringWait  BY <1>3 DEF SqringWait
<1>4. CASE SubmitRequest  BY <1>4 DEF SubmitRequest
<1>5. CASE NoMoreReads  BY <1>5 DEF NoMoreReads
<1>6. CASE NeedsEnter
  <2>1. CASE SubmitReturns  BY <1>6, <2>1 DEF NeedsEnter, SubmitReturns
  <2>2. CASE ~SubmitReturns
    <3>1. /\ needsEvents' \in BOOLEAN /\ pc' \in PCs
          /\ UNCHANGED <<caller, pending, toSubmit, wakeup>>
      BY <1>6, <2>2 DEF NeedsEnter, CqNeedsEnter
    <3>2. UNCHANGED <<sqpoll, left, idle, sqVars, pollVars, cqVars, inflight>>
      BY <1>6 DEF NeedsEnter
    <3>3. QED  BY <3>1, <3>2
  <2>3. QED  BY <2>1, <2>2
<1>7. CASE ReadFlags
  <2>1. UNCHANGED <<sqpoll, left, idle, sqVars, pollVars, cqVars, inflight>>
    BY <1>7 DEF ReadFlags
  <2>2. CASE SubmitReturns  BY <2>1, <2>2 DEF SubmitReturns
  <2>3. CASE ~SubmitReturns
    <3>1. wakeup' = needWakeup /\ pc' = "enter"
          /\ UNCHANGED <<caller, pending, toSubmit, needsEvents>>
      BY <1>7, <2>3 DEF ReadFlags, WakeupFlag
    <3>2. QED  BY <2>1, <3>1
  <2>4. QED  BY <2>2, <2>3
<1>8. CASE PeekNothing  BY <1>8 DEF PeekNothing
<1>9. CASE PollAnnounce  BY <1>9 DEF PollAnnounce
<1>10. CASE PollSleep  BY <1>10 DEF PollSleep
<1>11. CASE PollWake  BY <1>11 DEF PollWake
<1>12. CASE CountOffered
  <2>1. Minus(sqe_tail, khead) \in Nat
    BY Distances
  <2>2. QED  BY <1>12, <2>1 DEF CountOffered
<1>13. QED
  BY <1>1, <1>2, <1>3, <1>4, <1>5, <1>6, <1>7, <1>8, <1>9, <1>10, <1>11, <1>12 DEF QuietStep

LEMMA SqTypeStep ==
    ASSUME RingInv,
           \/ \E o \in Ops : GetSqe(o)
           \/ FlushSq \/ TailVisible \/ PollTake
    PROVE  TypeOK'
<1> USE DEF sqVars, cqVars, submitVars, pollVars, clientVars
<1>0. TypeOK
  BY DEF RingInv
<1>1. /\ Minus(ktail, khead) \in 0 .. SqEntries
      /\ Minus(sqe_tail, khead) \in 0 .. SqEntries
  BY Distances DEF RingInv
<1>2. Plus(sqe_tail, 1) \in Indices /\ Plus(khead, 1) \in Indices
  BY <1>0, RingConstants DEF TypeOK, Plus
<1>3. ASSUME NEW o \in Ops, GetSqe(o) PROVE TypeOK'
  <2>1. left - 1 \in Nat
    BY <1>0, <1>3 DEF RingInv, EntryNeeded, GetSqe, TypeOK
  <2>2. sqes' \in [0 .. SqEntries - 1 -> Ops \cup {None}]
    BY <1>0, <1>3 DEF GetSqe, TypeOK
  <2>3. QED  BY <1>0, <1>2, <1>3, <2>1, <2>2 DEF GetSqe, TypeOK
<1>4. CASE FlushSq
  BY <1>0, <1>1, <1>4 DEF FlushSq, TypeOK
<1>5. CASE TailVisible
  BY <1>0, <1>5 DEF TailVisible, TypeOK
<1>6. CASE PollTake
  <2>1. Minus(ktail, khead) > 0
    BY <1>0, <1>1, <1>6, IndexArithmetic DEF PollTake, TypeOK
  <2>2. 0 < Minus(sqe_tail, khead) /\ 0 \in 0 .. SqEntries - 1
    BY <1>1, <2>1, RingConstants DEF RingInv, SqInOrder, TypeOK, Minus
  <2>3. Plus(khead, 0) = khead
    BY <1>0, RingConstants DEF Plus, TypeOK
  <2>4. sqes[SqSlot(khead)] \in Ops
    BY <2>2, <2>3 DEF RingInv, SqFilled
  <2>5. QED  BY <1>0, <1>2, <1>6, <2>4 DEF PollTake, TypeOK
<1>7. QED  BY <1>3, <1>4, <1>5, <1>6

LEMMA EnterTypeStep ==
    ASSUME RingInv, EnterSqPoll \/ \E n \in 0 .. toSubmit : Enter(n)
    PROVE  TypeOK'
<1> USE DEF sqVars, cqVars, submitVars, pollVars, clientVars
<1>0. TypeOK
  BY DEF RingInv
<1>1. /\ Minus(sqe_tail, khead) \in 0 .. SqEntries /\ CqReady <= CqEntries
  BY Distances DEF RingInv
<1>2. CASE EnterSqPoll
  <2>1. CASE FlushOverflowList
    BY <1>0, <1>1, <1>2, <2>1, FlushProperties DEF EnterSqPoll, SubmitReturns, TypeOK
  <2>2. CASE UNCHANGED <<cqes, cktail, overflow>>
    BY <1>0, <1>2, <2>2 DEF EnterSqPoll, SubmitReturns, TypeOK
  <2>3. QED  BY <1>2, <2>1, <2>2 DEF EnterSqPoll
<1>3. ASSUME NEW n \in 0 .. toSubmit, Enter(n) PROVE TypeOK'
  <2>1. toSubmit = Minus(sqe_tail, khead)
    BY <1>3 DEF RingInv, Offered, Enter
  <2>2. n \in 0 .. SqEntries /\ n <= Minus(sqe_tail, khead)
    BY <1>0, <1>1, <2>1, RingConstants DEF TypeOK
  <2>3. Plus(khead, n) \in Indices
    BY <1>0, <2>2, RingConstants DEF TypeOK, Plus
  <2>4. \A i \in 1 .. n : sqes[SqSlot(Plus(khead, i - 1))] \in Ops
    BY <1>1, <2>2, RingConstants DEF RingInv, SqFilled
  <2>5. inflight' \subseteq Ops
    BY <1>0, <1>3, <2>4 DEF Enter, TypeOK
  <2>6. CASE FlushOverflowList
    BY <1>0, <1>1, <1>3, <2>3, <2>5, <2>6, FlushProperties DEF Enter, SubmitReturns, TypeOK
  <2>7. CASE UNCHANGED <<cqes, cktail, overflow>>
    BY <1>0, <1>3, <2>3, <2>5, <2>7 DEF Enter, SubmitReturns, TypeOK
  <2>8. QED  BY <1>3, <2>6, <2>7 DEF Enter
<1>4. QED  BY <1>2, <1>3

LEMMA CqTypeStep ==
    ASSUME RingInv,
           \/ GetEvents \/ ProcessBatch \/ CqAdvance \/ WaitCqe
           \/ \E o \in Ops : Complete(o)
    PROVE  TypeOK'
<1> USE DEF sqVars, cqVars, submitVars, pollVars, clientVars
<1>0. TypeOK
  BY DEF RingInv
<1>1. CqReady \in 0 .. CqEntries /\ seen \in 0 .. CqEntries
  BY Distances DEF RingInv
<1>2. CASE GetEvents
  BY <1>0, <1>1, <1>2, FlushProperties DEF GetEvents, TypeOK
<1>3. CASE ProcessBatch
  <2>1. \A i \in 1 .. CqReady : cqes[CqSlot(Plus(ckhead, i - 1))] \in Ops
    BY <1>1, RingConstants DEF RingInv, CqFilled
  <2>2. idle' \subseteq Ops
    BY <1>0, <1>3, <2>1 DEF ProcessBatch, TypeOK
  <2>3. QED  BY <1>0, <1>1, <1>3, <2>2 DEF ProcessBatch, TypeOK
<1>4. CASE CqAdvance
  <2>1. Plus(ckhead, seen) \in Indices
    BY <1>0, <1>1, RingConstants DEF TypeOK, Plus
  <2>2. QED  BY <1>0, <1>4, <2>1 DEF CqAdvance, Advanced, TypeOK
<1>5. CASE WaitCqe
  <2>1. Plus(ckhead, 1) \in Indices
    BY <1>0, RingConstants DEF TypeOK, Plus
  <2>2. 0 < CqReady /\ 0 \in 0 .. CqEntries - 1
    BY <1>1, <1>5, RingConstants DEF WaitCqe, PeekCqe
  <2>3. Plus(ckhead, 0) = ckhead
    BY <1>0, RingConstants DEF Plus, TypeOK
  <2>4. cqes[CqSlot(ckhead)] \in Ops
    BY <2>2, <2>3 DEF RingInv, CqFilled
  <2>5. QED  BY <1>0, <1>5, <2>1, <2>4 DEF WaitCqe, PeekCqe, TypeOK
<1>6. ASSUME NEW o \in Ops, Complete(o) PROVE TypeOK'
  <2>1. Plus(cktail, 1) \in Indices
    BY <1>0, RingConstants DEF TypeOK, Plus
  <2>2. Append(overflow, o) \in Seq(Ops)
    BY <1>0, AppendProperties DEF TypeOK
  <2>3. cqes' \in [0 .. CqEntries - 1 -> Ops \cup {None}]
    BY <1>0, <1>6 DEF Complete, TypeOK
  <2>4. cktail' \in Indices /\ overflow' \in Seq(Ops) /\ inflight' \subseteq Ops
    BY <1>0, <1>6, <2>1, <2>2 DEF Complete, TypeOK
  <2>5. QED  BY <1>0, <1>6, <2>3, <2>4 DEF Complete, TypeOK
<1>7. QED  BY <1>2, <1>3, <1>4, <1>5, <1>6

-----------------------------------------------------------------------------
(* The indices stay in order                                                 *)

LEMMA SqOrderStep ==
    ASSUME RingInv,
           \/ \E o \in Ops : GetSqe(o)
           \/ FlushSq \/ TailVisible \/ PollTake
           \/ \E n \in 0 .. toSubmit : Enter(n)
    PROVE  SqInOrder'
<1>0. /\ TypeOK /\ SqInOrder
      /\ sqe_tail \in Indices /\ sqe_head \in Indices
      /\ ktail \in Indices /\ khead \in Indices
  BY DEF RingInv, TypeOK
<1>1. ASSUME NEW o \in Ops, GetSqe(o) PROVE SqInOrder'
  BY <1>0, <1>1, RingConstants DEF GetSqe, SqFull, SqReady, SqInOrder, Plus, Minus
<1>2. CASE FlushSq
  BY <1>0, <1>2, RingConstants DEF FlushSq, SqInOrder, Minus
<1>3. CASE TailVisible
  BY <1>0, <1>3, RingConstants DEF TailVisible, SqInOrder, Minus, submitVars
<1>4. CASE PollTake
  BY <1>0, <1>4, RingConstants DEF PollTake, SqInOrder, Plus, Minus, submitVars
<1>5. ASSUME NEW n \in 0 .. toSubmit, Enter(n) PROVE SqInOrder'
  <2>1. /\ toSubmit = Minus(sqe_tail, khead) /\ toSubmit \in Nat
        /\ ktail = sqe_head /\ sqe_head = sqe_tail
    BY <1>0, <1>5 DEF RingInv, Offered, Enter, TypeOK
  <2>2. n \in Nat /\ n <= Minus(sqe_tail, khead)
    BY <2>1
  <2>3. /\ khead' = Plus(khead, n)
        /\ sqe_tail' = sqe_tail /\ sqe_head' = sqe_tail /\ ktail' = sqe_tail
    BY <1>5, <2>1 DEF Enter
  <2>4. QED  BY <1>0, <2>2, <2>3, RingConstants DEF SqInOrder, Plus, Minus
<1>6. QED  BY <1>1, <1>2, <1>3, <1>4, <1>5

LEMMA CqOrderStep ==
    ASSUME RingInv,
           \/ EnterSqPoll \/ \E n \in 0 .. toSubmit : Enter(n)
           \/ GetEvents \/ ProcessBatch \/ CqAdvance \/ WaitCqe
           \/ \E o \in Ops : Complete(o)
    PROVE  CqInOrder'
<1>0. /\ TypeOK /\ CqInOrder
      /\ cktail \in Indices /\ ckhead \in Indices /\ seen \in Nat
      /\ CqReady \in 0 .. CqEntries /\ seen <= CqReady
  BY Distances DEF RingInv, TypeOK, CqInOrder
<1>1. ASSUME FlushOverflowList, UNCHANGED <<ckhead, seen>> PROVE CqInOrder'
  <2>1. Moved \in Nat /\ Moved <= CqEntries - CqReady /\ cktail' = Plus(cktail, Moved)
    BY <1>0, <1>1, FlushProperties DEF CqInOrder
  <2>2. QED  BY <1>0, <1>1, <2>1, RingConstants DEF CqInOrder, CqReady, Plus, Minus
<1>2. ASSUME UNCHANGED <<cktail, ckhead, seen>> PROVE CqInOrder'
  BY <1>0, <1>2 DEF CqInOrder, CqReady, Minus
<1>3. CASE EnterSqPoll
  BY <1>1, <1>2, <1>3 DEF EnterSqPoll
<1>4. ASSUME NEW n \in 0 .. toSubmit, Enter(n) PROVE CqInOrder'
  BY <1>1, <1>2, <1>4 DEF Enter
<1>5. CASE GetEvents
  BY <1>1, <1>5 DEF GetEvents
<1>6. CASE ProcessBatch
  BY <1>0, <1>6, RingConstants DEF ProcessBatch, CqInOrder, CqReady, Minus
<1>7. CASE CqAdvance
  BY <1>0, <1>7, RingConstants DEF CqAdvance, Advanced, CqInOrder, CqReady, Plus, Minus
<1>8. CASE WaitCqe
  <2>1. seen = 0
    BY <1>8 DEF RingInv, SeenOnlyAtAdvance, WaitCqe
  <2>2. CqReady # 0 /\ ckhead' = Plus(ckhead, 1) /\ cktail' = cktail /\ seen' = 0
    BY <1>8, <2>1 DEF WaitCqe, cqVars
  <2>3. QED  BY <1>0, <2>2, RingConstants DEF CqInOrder, CqReady, Plus, Minus
<1>9. ASSUME NEW o \in Ops, Complete(o) PROVE CqInOrder'
  BY <1>0, <1>9, RingConstants DEF Complete, CqInOrder, CqReady, Plus, Minus
<1>10. QED  BY <1>3, <1>4, <1>5, <1>6, <1>7, <1>8, <1>9

-----------------------------------------------------------------------------
(* The slots between the indices stay filled                                 *)

\* Taking n entries at the head leaves the others where they are.
LEMMA SqFilledAfterTaking ==
    ASSUME RingInv, NEW n \in 0 .. SqEntries, n <= Minus(sqe_tail, khead),
           khead' = Plus(khead, n), UNCHANGED <<sqes, sqe_tail>>
    PROVE  SqFilled'
<1>1. /\ khead \in Indices /\ sqe_tail \in Indices
      /\ Minus(sqe_tail, khead) \in 0 .. SqEntries
  BY Distances DEF RingInv, TypeOK
<1>2. Minus(sqe_tail', khead') = Minus(sqe_tail, khead) - n
  BY <1>1, RingConstants DEF Plus, Minus
<1>3. SUFFICES ASSUME NEW i \in 0 .. SqEntries - 1, i < Minus(sqe_tail, khead) - n
               PROVE  sqes[SqSlot(Plus(khead', i))] \in Ops
  BY <1>2 DEF SqFilled
<1>4. n + i \in 0 .. SqEntries - 1 /\ n + i < Minus(sqe_tail, khead)
  BY <1>1, <1>3, RingConstants
<1>5. Plus(khead', i) = Plus(khead, n + i)
  BY <1>1, <1>4, RingConstants DEF Plus
<1>6. QED  BY <1>4, <1>5 DEF RingInv, SqFilled

LEMMA SqFilledStep ==
    ASSUME RingInv,
           \/ \E o \in Ops : GetSqe(o)
           \/ FlushSq \/ TailVisible \/ PollTake
           \/ \E n \in 0 .. toSubmit : Enter(n)
    PROVE  SqFilled'
<1>0. /\ TypeOK /\ SqFilled /\ SqInOrder
      /\ khead \in Indices /\ sqe_tail \in Indices /\ ktail \in Indices
      /\ Minus(sqe_tail, khead) \in 0 .. SqEntries
      /\ Minus(ktail, khead) \in 0 .. SqEntries
  BY Distances DEF RingInv, TypeOK
<1>1. ASSUME NEW o \in Ops, GetSqe(o) PROVE SqFilled'
  <2> DEFINE d == Minus(sqe_tail, khead)
  <2>1. /\ d \in 0 .. SqEntries - 1 /\ sqe_tail' = Plus(sqe_tail, 1) /\ khead' = khead
        /\ sqes' = [sqes EXCEPT ![SqSlot(sqe_tail)] = o]
    BY <1>0, <1>1, RingConstants DEF GetSqe, SqFull, SqReady
  <2>2. Minus(sqe_tail', khead') = d + 1
    BY <1>0, <2>1, RingConstants DEF Plus, Minus
  <2>3. Plus(khead, d) = sqe_tail
    BY <1>0, <2>1, RingConstants DEF Plus, Minus
  <2> HIDE DEF d
  <2>4. SUFFICES ASSUME NEW i \in 0 .. SqEntries - 1, i < d + 1
                 PROVE  sqes'[SqSlot(Plus(khead, i))] \in Ops
    BY <2>1, <2>2 DEF SqFilled
  <2>5. SqSlot(Plus(khead, i)) \in 0 .. SqEntries - 1
    <3>1. Plus(khead, i) \in Indices
      BY <1>0, RingConstants DEF Plus
    <3>2. QED  BY <3>1, Slot
  <2>6. CASE SqSlot(Plus(khead, i)) = SqSlot(sqe_tail)
    BY <1>0, <2>1, <2>5, <2>6 DEF TypeOK
  <2>7. CASE SqSlot(Plus(khead, i)) # SqSlot(sqe_tail)
    <3>1. i < d
      BY <2>1, <2>3, <2>4, <2>7
    <3>2. sqes[SqSlot(Plus(khead, i))] \in Ops
      BY <1>0, <3>1 DEF SqFilled, d
    <3>3. QED  BY <1>0, <2>1, <2>5, <2>7, <3>2 DEF TypeOK
  <2>8. QED  BY <2>6, <2>7
<1>2. CASE FlushSq
  BY <1>0, <1>2 DEF FlushSq, SqFilled, Minus
<1>3. CASE TailVisible
  BY <1>0, <1>3 DEF TailVisible, SqFilled, Minus
<1>4. CASE PollTake
  <2>1. Minus(ktail, khead) > 0
    BY <1>0, <1>4, RingConstants DEF PollTake, Minus
  <2>2. 1 <= Minus(sqe_tail, khead) /\ 1 \in 0 .. SqEntries
    BY <1>0, <2>1, RingConstants DEF SqInOrder, TypeOK, Minus
  <2>3. khead' = Plus(khead, 1) /\ UNCHANGED <<sqes, sqe_tail>>
    BY <1>4 DEF PollTake
  <2>4. QED  BY <2>2, <2>3, SqFilledAfterTaking
<1>5. ASSUME NEW n \in 0 .. toSubmit, Enter(n) PROVE SqFilled'
  <2>1. toSubmit = Minus(sqe_tail, khead)
    BY <1>5 DEF RingInv, Offered, Enter
  <2>2. n \in 0 .. SqEntries /\ n <= Minus(sqe_tail, khead)
    BY <1>0, <2>1, RingConstants
  <2>3. khead' = Plus(khead, n) /\ UNCHANGED <<sqes, sqe_tail>>
    BY <1>5 DEF Enter
  <2>4. QED  BY <2>2, <2>3, SqFilledAfterTaking
<1>6. QED  BY <1>1, <1>2, <1>3, <1>4, <1>5

\* Advancing the head by n leaves the other completions where they are.
LEMMA CqFilledAfterReading ==
    ASSUME RingInv, NEW n \in 0 .. CqEntries, n <= CqReady,
           ckhead' = Plus(ckhead, n), UNCHANGED <<cqes, cktail>>
    PROVE  CqFilled'
<1>1. ckhead \in Indices /\ cktail \in Indices /\ CqReady \in 0 .. CqEntries
  BY Distances DEF RingInv, TypeOK
<1>2. CqReady' = CqReady - n
  BY <1>1, RingConstants DEF CqReady, Plus, Minus
<1>3. SUFFICES ASSUME NEW i \in 0 .. CqEntries - 1, i < CqReady - n
               PROVE  cqes[CqSlot(Plus(ckhead', i))] \in Ops
  BY <1>2 DEF CqFilled
<1>4. n + i \in 0 .. CqEntries - 1 /\ n + i < CqReady
  BY <1>1, <1>3, RingConstants
<1>5. Plus(ckhead', i) = Plus(ckhead, n + i)
  BY <1>1, <1>4, RingConstants DEF Plus
<1>6. QED  BY <1>4, <1>5 DEF RingInv, CqFilled

LEMMA CqFilledStep ==
    ASSUME RingInv,
           \/ EnterSqPoll \/ \E n \in 0 .. toSubmit : Enter(n)
           \/ GetEvents \/ ProcessBatch \/ CqAdvance \/ WaitCqe
           \/ \E o \in Ops : Complete(o)
    PROVE  CqFilled'
<1>0. /\ TypeOK /\ CqFilled /\ CqInOrder
      /\ cktail \in Indices /\ ckhead \in Indices
      /\ CqReady \in 0 .. CqEntries /\ seen \in 0 .. CqEntries /\ seen <= CqReady
  BY Distances DEF RingInv, TypeOK, CqInOrder
<1>1. ASSUME NEW i \in 0 .. CqEntries - 1
      PROVE  CqSlot(Plus(ckhead, i)) \in 0 .. CqEntries - 1
  <2>1. Plus(ckhead, i) \in Indices
    BY <1>0, RingConstants DEF Plus
  <2>2. QED  BY <2>1, Slot
<1>2. ASSUME FlushOverflowList, UNCHANGED ckhead PROVE CqFilled'
  <2>1. /\ Moved \in Nat /\ Moved <= CqEntries - CqReady
        /\ cktail' = Plus(cktail, Moved)
        /\ \A s \in 0 .. CqEntries - 1 : cqes[s] \in Ops => cqes'[s] \in Ops
        /\ \A n \in 0 .. Moved - 1 : cqes'[CqSlot(Plus(cktail, n))] \in Ops
    BY <1>0, <1>2, FlushProperties DEF CqInOrder
  <2>2. CqReady' = CqReady + Moved
    BY <1>0, <1>2, <2>1, RingConstants DEF CqReady, Plus, Minus
  <2>3. SUFFICES ASSUME NEW i \in 0 .. CqEntries - 1, i < CqReady + Moved
                 PROVE  cqes'[CqSlot(Plus(ckhead, i))] \in Ops
    BY <1>2, <2>2 DEF CqFilled
  <2>4. CASE i < CqReady
    BY <1>0, <1>1, <2>1, <2>4 DEF CqFilled
  <2>5. CASE i >= CqReady
    <3>1. i - CqReady \in 0 .. Moved - 1
      BY <1>0, <2>1, <2>3, <2>5
    <3>2. Plus(cktail, i - CqReady) = Plus(ckhead, i)
      BY <1>0, <2>5, RingConstants DEF CqReady, Plus, Minus
    <3>3. cqes'[CqSlot(Plus(cktail, i - CqReady))] \in Ops
      BY <2>1, <3>1
    <3>4. QED  BY <3>2, <3>3
  <2>6. QED  BY <1>0, <2>4, <2>5
<1>3. ASSUME UNCHANGED <<cqes, cktail, ckhead>> PROVE CqFilled'
  BY <1>0, <1>3 DEF CqFilled, CqReady, Minus
<1>4. CASE EnterSqPoll
  BY <1>2, <1>3, <1>4 DEF EnterSqPoll
<1>5. ASSUME NEW n \in 0 .. toSubmit, Enter(n) PROVE CqFilled'
  BY <1>2, <1>3, <1>5 DEF Enter
<1>6. CASE GetEvents
  BY <1>2, <1>6 DEF GetEvents
<1>7. CASE ProcessBatch
  BY <1>3, <1>7 DEF ProcessBatch
<1>8. CASE CqAdvance
  BY <1>0, <1>8, CqFilledAfterReading DEF CqAdvance, Advanced
<1>9. CASE WaitCqe
  <2>1. 1 \in 0 .. CqEntries /\ 1 <= CqReady
    BY <1>0, <1>9, RingConstants DEF WaitCqe, PeekCqe
  <2>2. QED  BY <1>9, <2>1, CqFilledAfterReading DEF WaitCqe, PeekCqe
<1>10. ASSUME NEW o \in Ops, Complete(o) PROVE CqFilled'
  <2>1. CASE UNCHANGED <<cqes, cktail>>
    BY <1>3, <1>10, <2>1 DEF Complete
  <2>2. CASE /\ CqReady < CqEntries
             /\ cqes' = [cqes EXCEPT ![CqSlot(cktail)] = o]
             /\ cktail' = Plus(cktail, 1)
    <3>1. ckhead' = ckhead
      BY <1>10 DEF Complete
    <3>2. CqReady' = CqReady + 1
      BY <1>0, <2>2, <3>1, RingConstants DEF CqReady, Plus, Minus
    <3>3. Plus(ckhead, CqReady) = cktail
      BY <1>0, RingConstants DEF CqReady, Plus, Minus
    <3>4. SUFFICES ASSUME NEW i \in 0 .. CqEntries - 1, i < CqReady + 1
                   PROVE  cqes'[CqSlot(Plus(ckhead, i))] \in Ops
      BY <3>1, <3>2 DEF CqFilled
    <3>5. CASE CqSlot(Plus(ckhead, i)) = CqSlot(cktail)
      BY <1>0, <1>1, <2>2, <3>5 DEF TypeOK
    <3>6. CASE CqSlot(Plus(ckhead, i)) # CqSlot(cktail)
      <4>1. i < CqReady
        BY <1>0, <3>3, <3>4, <3>6
      <4>2. cqes[CqSlot(Plus(ckhead, i))] \in Ops
        BY <1>0, <4>1 DEF CqFilled
      <4>3. QED  BY <1>0, <1>1, <2>2, <3>6, <4>2 DEF TypeOK
    <3>7. QED  BY <3>5, <3>6
  <2>3. QED  BY <1>10, <2>1, <2>2 DEF Complete
<1>11. QED  BY <1>4, <1>5, <1>6, <1>7, <1>8, <1>9, <1>10

-----------------------------------------------------------------------------
(* The dispatcher's own bookkeeping, and the wake-up                         *)

ClientParts == EntryNeeded /\ SeenOnlyAtAdvance /\ Offered

\* No step acquires an entry nobody needs, leaves completions counted that are
\* already advanced past, or offers the kernel another number than is queued.
LEMMA ClientStep ==
    ASSUME RingInv, Next
    PROVE  ClientParts'
<1> USE DEF Submitting, sqVars, cqVars, submitVars, pollVars, clientVars
<1>0. /\ ClientParts /\ StoreInFlight /\ WakeupUnderWay /\ left \in Nat
  BY DEF RingInv, ClientParts, TypeOK
<1> USE DEF ClientParts, EntryNeeded, SeenOnlyAtAdvance, Offered, StoreInFlight,
        WakeupUnderWay
<1>1. ASSUME NEW n \in 1 .. Burst, BeginRead(n) PROVE ClientParts'
  BY <1>0, <1>1 DEF BeginRead
<1>2. CASE NoSqe
  BY <1>0, <1>2 DEF NoSqe
<1>3. CASE SqringWait
  BY <1>0, <1>3 DEF SqringWait
<1>4. CASE SubmitRequest
  BY <1>0, <1>4 DEF SubmitRequest
<1>5. CASE NoMoreReads
  BY <1>0, <1>5 DEF NoMoreReads
<1>6. CASE NeedsEnter
  BY <1>0, <1>6 DEF NeedsEnter, SubmitReturns
<1>7. CASE ReadFlags
  BY <1>0, <1>7 DEF ReadFlags, SubmitReturns, Barrier, WakeupFlag
<1>8. CASE PeekNothing
  BY <1>0, <1>8 DEF PeekNothing
<1>9. CASE PollAnnounce
  BY <1>0, <1>9 DEF PollAnnounce
<1>10. CASE PollSleep
  BY <1>0, <1>10 DEF PollSleep
<1>11. CASE PollWake
  BY <1>0, <1>11 DEF PollWake
<1>12. ASSUME NEW o \in Ops, GetSqe(o) PROVE ClientParts'
  BY <1>0, <1>12 DEF GetSqe
<1>13. CASE FlushSq
  BY <1>0, <1>13 DEF FlushSq
<1>14. CASE TailVisible
  BY <1>0, <1>14 DEF TailVisible
<1>15. CASE PollTake
  BY <1>0, <1>15 DEF PollTake
<1>16. CASE EnterSqPoll
  BY <1>0, <1>16 DEF EnterSqPoll, SubmitReturns
<1>17. ASSUME NEW n \in 0 .. toSubmit, Enter(n) PROVE ClientParts'
  BY <1>0, <1>17 DEF Enter, SubmitReturns
<1>18. CASE GetEvents
  BY <1>0, <1>18 DEF GetEvents
<1>19. CASE ProcessBatch
  BY <1>0, <1>19 DEF ProcessBatch
<1>20. CASE CqAdvance
  BY <1>0, <1>20 DEF CqAdvance
<1>21. CASE WaitCqe
  BY <1>0, <1>21 DEF WaitCqe, PeekCqe
<1>22. ASSUME NEW o \in Ops, Complete(o) PROVE ClientParts'
  BY <1>0, <1>22 DEF Complete
<1>23. CASE CountOffered
  BY <1>0, <1>23 DEF CountOffered
<1>24. QED
  BY <1>1, <1>2, <1>3, <1>4, <1>5, <1>6, <1>7, <1>8, <1>9, <1>10, <1>11, <1>12,
     <1>13, <1>14, <1>15, <1>16, <1>17, <1>18, <1>19, <1>20, <1>21, <1>22, <1>23
     DEF Next, Dispatcher, Poller

WakeupParts == StoreInFlight /\ WakeupUnderWay

\* No step leaves the poller asleep before an entry with no wake-up to come.
LEMMA WakeupStep ==
    ASSUME RingInv, Next
    PROVE  WakeupParts'
<1> USE DEF sqVars, cqVars, submitVars, pollVars, clientVars
<1>0. /\ WakeupParts /\ Offered
      /\ toSubmit = 0 /\ pc = "needsenter" => ktail = khead
      /\ Minus(sqe_tail, khead) = 0 => sqe_tail = khead
  <2>1. /\ ktail \in Indices /\ khead \in Indices /\ sqe_head \in Indices
        /\ sqe_tail \in Indices
    BY DEF RingInv, TypeOK
  <2>2. Minus(sqe_tail, khead) = 0 => sqe_tail = khead
    BY <2>1, RingConstants DEF Minus
  <2>3. sqe_head = khead => ktail = khead
    BY <2>1, RingConstants DEF RingInv, SqInOrder, Minus
  <2>4. QED  BY <2>2, <2>3 DEF RingInv, StoreInFlight, WakeupParts
<1> USE DEF WakeupParts, StoreInFlight, WakeupUnderWay, Offered
<1>1. ASSUME NEW n \in 1 .. Burst, BeginRead(n) PROVE WakeupParts'
  BY <1>0, <1>1 DEF BeginRead
<1>2. CASE NoSqe
  BY <1>0, <1>2 DEF NoSqe
<1>3. CASE SqringWait
  BY <1>0, <1>3 DEF SqringWait
<1>4. CASE SubmitRequest
  BY <1>0, <1>4 DEF SubmitRequest
<1>5. CASE NoMoreReads
  BY <1>0, <1>5 DEF NoMoreReads
<1>6. CASE NeedsEnter
  BY <1>0, <1>6 DEF NeedsEnter, SubmitReturns
<1>7. CASE ReadFlags
  BY <1>0, <1>7 DEF ReadFlags, SubmitReturns, Barrier, WakeupFlag
<1>8. CASE PeekNothing
  BY <1>0, <1>8 DEF PeekNothing
<1>9. CASE PollAnnounce
  BY <1>0, <1>9 DEF PollAnnounce
<1>10. CASE PollSleep
  BY <1>0, <1>10 DEF PollSleep
<1>11. CASE PollWake
  BY <1>0, <1>11 DEF PollWake
<1>12. ASSUME NEW o \in Ops, GetSqe(o) PROVE WakeupParts'
  BY <1>0, <1>12 DEF GetSqe
<1>13. CASE FlushSq
  BY <1>0, <1>13 DEF FlushSq
<1>14. CASE TailVisible
  BY <1>0, <1>14 DEF TailVisible
<1>15. CASE PollTake
  BY <1>0, <1>15 DEF PollTake
<1>16. CASE EnterSqPoll
  BY <1>0, <1>16 DEF EnterSqPoll, SubmitReturns
<1>17. ASSUME NEW n \in 0 .. toSubmit, Enter(n) PROVE WakeupParts'
  BY <1>0, <1>17 DEF Enter, SubmitReturns
<1>18. CASE GetEvents
  BY <1>0, <1>18 DEF GetEvents
<1>19. CASE ProcessBatch
  BY <1>0, <1>19 DEF ProcessBatch
<1>20. CASE CqAdvance
  BY <1>0, <1>20 DEF CqAdvance
<1>21. CASE WaitCqe
  BY <1>0, <1>21 DEF WaitCqe, PeekCqe
<1>22. ASSUME NEW o \in Ops, Complete(o) PROVE WakeupParts'
  BY <1>0, <1>22 DEF Complete
<1>23. CASE CountOffered
  BY <1>0, <1>23 DEF CountOffered
<1>24. QED
  BY <1>1, <1>2, <1>3, <1>4, <1>5, <1>6, <1>7, <1>8, <1>9, <1>10, <1>11, <1>12,
     <1>13, <1>14, <1>15, <1>16, <1>17, <1>18, <1>19, <1>20, <1>21, <1>22, <1>23
     DEF Next, Dispatcher, Poller

-----------------------------------------------------------------------------
(* The invariant is inductive                                                *)

LEMMA InitInvariant == Init => RingInv
<1> SUFFICES ASSUME Init PROVE RingInv
  OBVIOUS
<1>1. TypeOK
  <2>1. 0 \in Indices
    BY RingConstants
  <2>2. <<>> \in Seq(Ops)
    BY EmptySeq
  <2>3. QED  BY <2>1, <2>2 DEF Init, TypeOK
<1>2. SqInOrder /\ CqInOrder /\ SqFilled /\ CqFilled
  BY RingConstants DEF Init, SqInOrder, CqInOrder, SqFilled, CqFilled, CqReady, Minus
<1>3. EntryNeeded /\ SeenOnlyAtAdvance /\ Offered /\ StoreInFlight /\ WakeupUnderWay
  BY DEF Init, EntryNeeded, Submitting, SeenOnlyAtAdvance, Offered, StoreInFlight,
         WakeupUnderWay
<1>4. QED  BY <1>1, <1>2, <1>3 DEF RingInv

SqParts == SqInOrder /\ SqFilled
CqParts == CqInOrder /\ CqFilled

\* A step that leaves a ring alone leaves what is known of it alone.
LEMMA RingFrames ==
    ASSUME RingInv
    PROVE  /\ UNCHANGED sqVars => SqParts'
           /\ UNCHANGED cqVars => CqParts'
BY DEF RingInv, SqParts, CqParts, SqInOrder, CqInOrder, SqFilled, CqFilled, CqReady,
       Minus, sqVars, cqVars

LEMMA InductiveStep == RingInv /\ [Next]_vars => RingInv'
<1> SUFFICES ASSUME RingInv, [Next]_vars PROVE RingInv'
  OBVIOUS
<1>1. CASE UNCHANGED vars
  <2>1. SqParts' /\ CqParts'
    BY <1>1, RingFrames DEF vars
  <2>2. TypeOK'
    BY <1>1 DEF RingInv, TypeOK, vars, sqVars, cqVars, submitVars, pollVars, clientVars
  <2>3. /\ EntryNeeded' /\ SeenOnlyAtAdvance' /\ Offered'
        /\ StoreInFlight' /\ WakeupUnderWay'
    BY <1>1 DEF RingInv, EntryNeeded, Submitting, SeenOnlyAtAdvance, Offered, Minus,
                StoreInFlight, WakeupUnderWay, vars, sqVars, cqVars, submitVars,
                pollVars, clientVars
  <2>4. QED  BY <2>1, <2>2, <2>3 DEF RingInv, SqParts, CqParts
<1>2. ASSUME Next, TypeOK', SqParts', CqParts' PROVE RingInv'
  BY <1>2, ClientStep, WakeupStep DEF RingInv, SqParts, CqParts, ClientParts, WakeupParts
<1>3. CASE QuietStep
  <2>1. Next
    BY <1>3 DEF QuietStep, Next, Dispatcher, Poller
  <2>2. SqParts' /\ CqParts'
    BY <1>3, QuietFrame, RingFrames
  <2>3. QED  BY <1>2, <1>3, <2>1, <2>2, QuietTypeStep
\* The steps on the submission ring alone,
<1>4. ASSUME \/ \E o \in Ops : GetSqe(o)
             \/ FlushSq \/ TailVisible \/ PollTake
      PROVE  RingInv'
  <2>1. Next
    BY <1>4 DEF Next, Dispatcher, Poller
  <2>2. CqParts'
    <3>1. UNCHANGED cqVars
      BY <1>4 DEF GetSqe, FlushSq, TailVisible, PollTake
    <3>2. QED  BY <3>1, RingFrames
  <2>3. QED  BY <1>2, <1>4, <2>1, <2>2, SqTypeStep, SqOrderStep, SqFilledStep DEF SqParts
\* on the completion ring alone,
<1>5. ASSUME \/ EnterSqPoll \/ GetEvents \/ ProcessBatch \/ CqAdvance \/ WaitCqe
             \/ \E o \in Ops : Complete(o)
      PROVE  RingInv'
  <2>1. Next
    BY <1>5 DEF Next, Dispatcher
  <2>2. SqParts'
    <3>1. UNCHANGED sqVars
      BY <1>5 DEF EnterSqPoll, GetEvents, ProcessBatch, CqAdvance, WaitCqe, Complete
    <3>2. QED  BY <3>1, RingFrames
  <2>3. TypeOK'
    BY <1>5, EnterTypeStep, CqTypeStep
  <2>4. QED  BY <1>2, <1>5, <2>1, <2>2, <2>3, CqOrderStep, CqFilledStep DEF CqParts
\* and on both.
<1>6. ASSUME \E n \in 0 .. toSubmit : Enter(n) PROVE RingInv'
  <2>1. Next
    BY <1>6 DEF Next, Dispatcher
  <2>2. QED
    BY <1>2, <1>6, <2>1, EnterTypeStep, SqOrderStep, SqFilledStep, CqOrderStep, CqFilledStep
       DEF SqParts, CqParts
<1>7. Next => QuietStep \/ (\E o \in Ops : GetSqe(o)) \/ FlushSq \/ TailVisible
              \/ PollTake \/ EnterSqPoll \/ GetEvents \/ ProcessBatch \/ CqAdvance
              \/ WaitCqe \/ (\E o \in Ops : Complete(o))
              \/ (\E n \in 0 .. toSubmit : Enter(n))
  BY DEF Next, Dispatcher, Poller, QuietStep
<1>8. QED  BY <1>1, <1>3, <1>4, <1>5, <1>6, <1>7

LEMMA Inductive == Spec => []RingInv
BY InitInvariant, InductiveStep, PTL DEF Spec

-----------------------------------------------------------------------------
(* The theorems                                                              *)

\* Whatever the sizes of the rings and wherever the indices wrap, every variable
\* of queue.c and liburing.h keeps its type: in particular the indices stay below
\* 2^32, and only operations are handed to the kernel and returned by it.
THEOREM RingTypeCorrect == Spec => []TypeOK
<1>1. RingInv => TypeOK
  BY DEF RingInv
<1>2. QED  BY <1>1, Inductive, PTL

\* Neither side of a ring overtakes the other (io_uring_get_sqe's space check,
\* io_uring_cq_advance), with the store of the tail delayed as it may be.
THEOREM IndicesStayInOrder == Spec => []IndicesInOrder
<1>1. RingInv => IndicesInOrder
  BY DEF RingInv, IndicesInOrder
<1>2. QED  BY <1>1, Inductive, PTL

\* The barrier of sq_ring_needs_enter suffices: once io_uring_submit has returned,
\* the SQPoll thread is not asleep with an entry before it.
THEOREM WakeupNotLost == Spec => []NoLostWakeup
<1>1. RingInv => NoLostWakeup
  BY DEF RingInv, WakeupUnderWay, NoLostWakeup
<1>2. QED  BY <1>1, Inductive, PTL


-----------------------------------------------------------------------------
(* Slots                                                                     *)

\* No multiple of N lies strictly between 0 and N.
LEMMA NoMultipleBetween ==
    ASSUME NEW N \in Nat \ {0}, NEW q \in Int, N * q > 0
    PROVE  N * q >= N
<1>1. CASE q >= 1
  <2>1. PICK p \in Nat : q = p + 1
    <3>1. q - 1 \in Nat /\ q = (q - 1) + 1
      BY <1>1
    <3>2. QED  BY <3>1
  <2>2. N * q = N * p + N
    BY <2>1
  <2>3. N * p >= 0
    BY <2>1
  <2>4. N * p \in Int
    OBVIOUS
  <2>5. QED  BY <2>2, <2>3, <2>4
<1>2. CASE q <= 0
  <2>1. N * q <= 0
    BY <1>2
  <2>2. QED  BY <2>1
<1>3. QED  BY <1>1, <1>2

LEMMA Division ==
    ASSUME NEW N \in Nat \ {0}, NEW a \in Nat
    PROVE  a \div N \in Int /\ a % N \in 0 .. N - 1 /\ a = N * (a \div N) + (a % N)
<1>1. a \div N \in Int
  OBVIOUS
<1>2. a % N \in 0 .. N - 1
  OBVIOUS
<1>3. a = N * (a \div N) + (a % N)
  BY SMTT(20)
<1>4. QED  BY <1>1, <1>2, <1>3

\* Indices that are less than N apart, wrapped or not, have slots of their own.
LEMMA SlotsDiffer ==
    ASSUME NEW N \in Nat \ {0}, N < IndexModulus, IndexModulus % N = 0,
           NEW h \in Indices, NEW i \in 0 .. N - 1, NEW j \in 0 .. N - 1, i < j
    PROVE  Plus(h, i) % N # Plus(h, j) % N
<1> DEFINE a == Plus(h, i)
           b == Plus(h, j)
<1>0. IndexModulus \in Nat
  BY RingConstants
<1>1. PICK m \in Int : IndexModulus = N * m
  <2>1. /\ IndexModulus \div N \in Int
        /\ IndexModulus = N * (IndexModulus \div N) + (IndexModulus % N)
    BY <1>0, Division
  <2>2. IndexModulus = N * (IndexModulus \div N)
    BY <2>1
  <2>3. QED  BY <2>1, <2>2
<1>2. a \in Nat /\ b \in Nat
  BY <1>0 DEF Plus
<1>3. b - a = j - i \/ b - a = (j - i) - N * m
  BY <1>0, <1>1 DEF Plus
<1> HIDE DEF a, b
<1>4. SUFFICES ASSUME a % N = b % N PROVE FALSE
  BY DEF a, b
<1>5. PICK p \in Int : a = N * p + (a % N)
  BY <1>2, Division
<1>6. PICK q \in Int : b = N * q + (b % N)
  BY <1>2, Division
<1>7. a % N \in Int /\ b % N \in Int
  BY <1>2, Division
<1>8. b - a = N * q - N * p
  <2>1. \A x, y, r, s, t \in Int : x = s + r /\ y = t + r => y - x = t - s
    OBVIOUS
  <2>2. /\ N * q \in Int /\ N * p \in Int /\ a \in Int /\ b \in Int
        /\ b = N * q + (a % N)
    BY <1>2, <1>4, <1>6
  <2>3. QED  BY <1>5, <1>7, <2>1, <2>2
<1>9. N * q - N * p = N * (q - p)
  OBVIOUS
<1>10. (N * q - N * p) + N * m = N * (q - p + m)
  OBVIOUS
<1>11. N * m \in Int /\ N * (q - p) \in Int /\ N * (q - p + m) \in Int
  OBVIOUS
<1>12. j - i > 0 /\ j - i < N /\ j - i \in Int
  OBVIOUS
<1>13. CASE b - a = j - i
  <2>1. N * (q - p) = j - i
    BY <1>8, <1>9, <1>13
  <2>2. N * (q - p) >= N
    <3>1. q - p \in Int /\ N * (q - p) > 0
      BY <2>1, <1>12
    <3>2. QED  BY <3>1, NoMultipleBetween
  <2>3. QED  BY <1>11, <1>12, <2>1, <2>2
<1>14. CASE b - a = (j - i) - N * m
  <2>1. N * (q - p + m) = j - i
    BY <1>8, <1>10, <1>11, <1>12, <1>14
  <2>2. N * (q - p + m) >= N
    <3>1. q - p + m \in Int /\ N * (q - p + m) > 0
      BY <2>1, <1>12
    <3>2. QED  BY <3>1, NoMultipleBetween
  <2>3. QED  BY <1>11, <1>12, <2>1, <2>2
<1>15. QED  BY <1>3, <1>13, <1>14
\* What is n behind an index that is m behind h.
LEMMA PlusPlus ==
    ASSUME NEW h \in Indices, NEW m \in Nat, NEW n \in Nat, m + n < IndexModulus
    PROVE  Plus(Plus(h, m), n) = Plus(h, m + n)
BY RingConstants DEF Plus

\* The domain of a sequence tells its length.
LEMMA SameInterval ==
    ASSUME NEW m \in Nat, NEW n \in Nat, 1 .. m = 1 .. n
    PROVE  m = n
<1>1. CASE m < n
  <2>1. n \in 1 .. n /\ n \notin 1 .. m
    BY <1>1
  <2>2. QED  BY <2>1
<1>2. CASE n < m
  <2>1. m \in 1 .. m /\ m \notin 1 .. n
    BY <1>2
  <2>2. QED  BY <2>1
<1>3. QED  BY <1>1, <1>2

-----------------------------------------------------------------------------
(* The rings as queues                                                       *)

\* What is in the submission queue, place by place,
SqIsQueue ==
    /\ Minus(sqe_tail, khead) \in Nat
    /\ sqBar \in Seq(Ops) /\ Len(sqBar) = Minus(sqe_tail, khead)
    /\ \A i \in 1 .. Minus(sqe_tail, khead) :
          sqBar[i] = sqes[SqSlot(Plus(khead, i - 1))]

\* and in that of the completions: those in the ring not seen yet, then the overflow list.
CqIsQueue ==
    /\ CqReady - seen \in Nat /\ Len(overflow) \in Nat
    /\ cqBar \in Seq(Ops) /\ Len(cqBar) = CqReady - seen + Len(overflow)
    /\ \A i \in 1 .. CqReady - seen :
          cqBar[i] = cqes[CqSlot(Plus(ckhead, seen + i - 1))]
    /\ \A i \in 1 .. Len(overflow) : cqBar[CqReady - seen + i] = overflow[i]

LEMMA SqQueue == RingInv => SqIsQueue
<1> SUFFICES ASSUME RingInv PROVE SqIsQueue
  OBVIOUS
<1>1. /\ khead \in Indices /\ sqe_tail \in Indices
      /\ Minus(sqe_tail, khead) \in 0 .. SqEntries /\ SqFilled
  BY Distances DEF RingInv, TypeOK
<1> DEFINE n == Minus(sqe_tail, khead)
           at(i) == sqes[SqSlot(Plus(khead, i - 1))]
<1>2. ASSUME NEW i \in 1 .. n PROVE at(i) \in Ops
  <2>1. i - 1 \in 0 .. SqEntries - 1 /\ i - 1 < n
    BY <1>1, RingConstants
  <2>2. QED  BY <1>1, <2>1 DEF SqFilled
<1>3. sqBar = [i \in 1 .. n |-> at(i)] /\ n \in Nat
  BY <1>1, RingConstants DEF sqBar
<1>4. SqIsQueue <=> /\ n \in Nat /\ sqBar \in Seq(Ops) /\ Len(sqBar) = n
                    /\ \A i \in 1 .. n : sqBar[i] = at(i)
  BY DEF SqIsQueue
<1> HIDE DEF n, at
<1>5. sqBar \in [1 .. n -> Ops] /\ DOMAIN sqBar = 1 .. n
  BY <1>2, <1>3
<1>6. sqBar \in Seq(Ops)
  BY <1>3, <1>5, SeqDef
<1>7. Len(sqBar) = n
  <2>1. Len(sqBar) \in Nat /\ DOMAIN sqBar = 1 .. Len(sqBar)
    BY <1>6, LenProperties
  <2>2. QED  BY <1>3, <1>5, <2>1, SameInterval
<1>8. \A i \in 1 .. n : sqBar[i] = at(i)
  BY <1>3
<1>9. QED  BY <1>3, <1>4, <1>6, <1>7, <1>8

LEMMA CqQueue == RingInv => CqIsQueue
<1> SUFFICES ASSUME RingInv PROVE CqIsQueue
  OBVIOUS
<1>1. /\ CqReady \in 0 .. CqEntries /\ seen \in Nat /\ seen <= CqReady
      /\ overflow \in Seq(Ops) /\ CqFilled
  BY Distances DEF RingInv, TypeOK, CqInOrder
<1> DEFINE n == CqReady - seen
           at(i) == cqes[CqSlot(Plus(ckhead, seen + i - 1))]
           ring == [i \in 1 .. n |-> at(i)]
<1>2. ASSUME NEW i \in 1 .. n PROVE at(i) \in Ops
  <2>1. seen + i - 1 \in 0 .. CqEntries - 1 /\ seen + i - 1 < CqReady
    BY <1>1, RingConstants
  <2>2. QED  BY <1>1, <2>1 DEF CqFilled
<1>3. cqBar = ring \o overflow /\ n \in Nat
  BY <1>1, RingConstants DEF cqBar
<1>4. CqIsQueue <=> /\ n \in Nat /\ Len(overflow) \in Nat
                    /\ cqBar \in Seq(Ops) /\ Len(cqBar) = n + Len(overflow)
                    /\ \A i \in 1 .. n : cqBar[i] = at(i)
                    /\ \A i \in 1 .. Len(overflow) : cqBar[n + i] = overflow[i]
  BY DEF CqIsQueue
<1> HIDE DEF n, at
<1>5. /\ ring \in [1 .. n -> Ops] /\ DOMAIN ring = 1 .. n
      /\ \A i \in 1 .. n : ring[i] = at(i)
  BY <1>2
<1> HIDE DEF ring
<1>6. ring \in Seq(Ops)
  BY <1>3, <1>5, SeqDef
<1>7. Len(ring) = n /\ Len(overflow) \in Nat
  <2>1. Len(ring) \in Nat /\ DOMAIN ring = 1 .. Len(ring) /\ Len(overflow) \in Nat
    BY <1>1, <1>6, LenProperties
  <2>2. QED  BY <1>3, <1>5, <2>1, SameInterval
<1>8. /\ cqBar \in Seq(Ops) /\ Len(cqBar) = n + Len(overflow)
      /\ \A i \in 1 .. n + Len(overflow) :
            cqBar[i] = IF i <= n THEN ring[i] ELSE overflow[i - n]
  <2>1. /\ ring \o overflow \in Seq(Ops)
        /\ Len(ring \o overflow) = Len(ring) + Len(overflow)
        /\ \A i \in 1 .. Len(ring) + Len(overflow) :
              (ring \o overflow)[i] = IF i <= Len(ring) THEN ring[i]
                                                        ELSE overflow[i - Len(ring)]
    BY <1>1, <1>6, ConcatProperties
  <2>2. QED  BY <1>3, <1>7, <2>1
<1>9. \A i \in 1 .. n : cqBar[i] = at(i)
  BY <1>3, <1>5, <1>7, <1>8
<1>10. ASSUME NEW i \in 1 .. Len(overflow) PROVE cqBar[n + i] = overflow[i]
  <2>1. n + i \in 1 .. n + Len(overflow) /\ ~(n + i <= n) /\ (n + i) - n = i
    BY <1>3, <1>7
  <2>2. QED  BY <1>8, <2>1
<1>11. QED  BY <1>3, <1>4, <1>7, <1>8, <1>9, <1>10

\* They are queues before and after a step.
LEMMA QueuesAfter ==
    RingInv /\ [Next]_vars =>
        /\ RingInv' /\ SqIsQueue /\ SqIsQueue' /\ CqIsQueue /\ CqIsQueue'
BY InductiveStep, SqQueue, CqQueue, PTL
-----------------------------------------------------------------------------
(* What the steps do to the queues                                           *)

\* The premises of the lemmas below: the ring before and after a step.
Around == RingInv /\ RingInv' /\ SqIsQueue /\ SqIsQueue' /\ CqIsQueue /\ CqIsQueue'

LEMMA SqKept ==
    ASSUME Around, UNCHANGED <<sqes, sqe_tail, khead>>
    PROVE  sqBar' = sqBar
<1>1. Minus(sqe_tail, khead)' = Minus(sqe_tail, khead)
  BY DEF Minus
<1>2. /\ sqBar \in Seq(Ops) /\ sqBar' \in Seq(Ops) /\ Len(sqBar') = Len(sqBar)
      /\ Len(sqBar) = Minus(sqe_tail, khead)
  BY <1>1 DEF Around, SqIsQueue
<1>3. ASSUME NEW i \in 1 .. Len(sqBar) PROVE sqBar'[i] = sqBar[i]
  BY <1>1, <1>2 DEF Around, SqIsQueue, Plus, SqSlot
<1>4. QED  BY <1>2, <1>3, SeqEqual

\* The kernel takes the first n entries.
LEMMA SqTaken ==
    ASSUME Around, NEW n \in 0 .. SqEntries, n <= Minus(sqe_tail, khead),
           khead' = Plus(khead, n), UNCHANGED <<sqes, sqe_tail>>
    PROVE  /\ n <= Len(sqBar)
           /\ sqBar' = SubSeq(sqBar, n + 1, Len(sqBar))
           /\ ToSet(SubSeq(sqBar, 1, n)) = {sqes[SqSlot(Plus(khead, i - 1))] : i \in 1 .. n}
<1> DEFINE d == Minus(sqe_tail, khead)
           at(i) == sqes[SqSlot(Plus(khead, i - 1))]
<1>1. /\ khead \in Indices /\ sqe_tail \in Indices /\ d \in 0 .. SqEntries
      /\ SqIsQueue /\ SqIsQueue'
  BY Distances DEF Around, RingInv, TypeOK
<1>2. Minus(sqe_tail, khead)' = d - n
  BY <1>1, RingConstants DEF Plus, Minus
<1>3. ASSUME NEW i \in 1 .. d - n PROVE Plus(khead', i - 1) = Plus(khead, n + i - 1)
  <2>1. i - 1 \in Nat /\ n + (i - 1) < IndexModulus /\ n + (i - 1) = n + i - 1
    BY <1>1, RingConstants
  <2>2. QED  BY <1>1, <2>1, PlusPlus
<1>4. /\ sqBar \in Seq(Ops) /\ Len(sqBar) = d
      /\ \A i \in 1 .. d : sqBar[i] = at(i)
  BY <1>1 DEF SqIsQueue
<1>5. /\ sqBar' \in Seq(Ops) /\ Len(sqBar') = d - n
      /\ \A i \in 1 .. d - n : sqBar'[i] = sqes'[SqSlot(Plus(khead', i - 1))]
  BY <1>1, <1>2 DEF SqIsQueue, SqSlot, Plus
<1>6. ASSUME NEW i \in 1 .. d - n PROVE sqBar'[i] = at(n + i)
  BY <1>3, <1>5
<1> HIDE DEF d, at
<1>7. n \in 0 .. Len(sqBar) /\ d \in Nat /\ n <= d
  BY <1>1, <1>4 DEF d
<1>8. /\ SubSeq(sqBar, n + 1, Len(sqBar)) \in Seq(Ops)
      /\ Len(SubSeq(sqBar, n + 1, Len(sqBar))) = d - n
      /\ \A i \in 1 .. d - n : SubSeq(sqBar, n + 1, Len(sqBar))[i] = sqBar[n + i]
  BY <1>4, <1>7, DropProperties
<1>9. ASSUME NEW i \in 1 .. d - n
      PROVE  sqBar'[i] = SubSeq(sqBar, n + 1, Len(sqBar))[i]
  <2>1. n + i \in 1 .. d
    BY <1>7
  <2>2. QED  BY <1>4, <1>6, <1>8, <2>1
<1>10. sqBar' = SubSeq(sqBar, n + 1, Len(sqBar))
  BY <1>5, <1>8, <1>9, SeqEqual
<1>11. ToSet(SubSeq(sqBar, 1, n)) = {at(i) : i \in 1 .. n}
  <2>1. /\ SubSeq(sqBar, 1, n) \in Seq(Ops) /\ Len(SubSeq(sqBar, 1, n)) = n
        /\ \A i \in 1 .. n : SubSeq(sqBar, 1, n)[i] = sqBar[i]
    BY <1>4, <1>7, TakeProperties
  <2>2. DOMAIN SubSeq(sqBar, 1, n) = 1 .. n
    BY <2>1, LenProperties
  <2>3. \A i \in 1 .. n : SubSeq(sqBar, 1, n)[i] = at(i)
    BY <1>4, <1>7, <2>1
  <2>4. QED  BY <2>2, <2>3 DEF ToSet
<1>12. QED  BY <1>7, <1>10, <1>11 DEF at

\* io_uring_get_sqe appends the entry, in a slot that no other entry has.
LEMMA SqAppended ==
    ASSUME Around, NEW o \in Ops, GetSqe(o)
    PROVE  Len(sqBar) < SqEntries /\ sqBar' = Append(sqBar, o)
<1> DEFINE d == Minus(sqe_tail, khead)
<1>1. /\ khead \in Indices /\ sqe_tail \in Indices /\ d \in 0 .. SqEntries
      /\ sqes \in [0 .. SqEntries - 1 -> Ops \cup {None}]
      /\ SqIsQueue /\ SqIsQueue'
  BY Distances DEF Around, RingInv, TypeOK
<1>2. /\ d < SqEntries /\ sqe_tail' = Plus(sqe_tail, 1) /\ khead' = khead
      /\ sqes' = [sqes EXCEPT ![SqSlot(sqe_tail)] = o]
  BY <1>1, RingConstants DEF GetSqe, SqFull, SqReady
<1>3. Minus(sqe_tail, khead)' = d + 1
  BY <1>1, <1>2, RingConstants DEF Plus, Minus
<1>4. Plus(khead, d) = sqe_tail
  BY <1>1, RingConstants DEF Plus, Minus
<1>5. /\ sqBar \in Seq(Ops) /\ Len(sqBar) = d
      /\ \A i \in 1 .. d : sqBar[i] = sqes[SqSlot(Plus(khead, i - 1))]
  BY <1>1 DEF SqIsQueue
<1>6. /\ sqBar' \in Seq(Ops) /\ Len(sqBar') = d + 1
      /\ \A i \in 1 .. d + 1 : sqBar'[i] = sqes'[SqSlot(Plus(khead, i - 1))]
  BY <1>1, <1>2, <1>3 DEF SqIsQueue, SqSlot, Plus
<1> HIDE DEF d
<1>7. SqSlot(sqe_tail) \in 0 .. SqEntries - 1
  BY <1>1, Slot
<1>8. /\ Append(sqBar, o) \in Seq(Ops) /\ Len(Append(sqBar, o)) = d + 1
      /\ \A i \in 1 .. d : Append(sqBar, o)[i] = sqBar[i]
      /\ Append(sqBar, o)[d + 1] = o
  BY <1>5, AppendProperties
<1>9. ASSUME NEW i \in 1 .. d PROVE sqBar'[i] = Append(sqBar, o)[i]
  <2>1. i - 1 \in 0 .. SqEntries - 1 /\ i - 1 < d /\ d \in 0 .. SqEntries - 1
    BY <1>1, <1>2, RingConstants
  <2>2. SqSlot(Plus(khead, i - 1)) # SqSlot(sqe_tail)
    BY <1>1, <1>4, <2>1, RingConstants, SlotAssumption, SlotsDiffer DEF SqSlot
  <2>3. SqSlot(Plus(khead, i - 1)) \in 0 .. SqEntries - 1
    <3>1. Plus(khead, i - 1) \in Indices
      BY <1>1, <2>1, RingConstants DEF Plus
    <3>2. QED  BY <3>1, Slot
  <2>4. i \in 1 .. d + 1
    BY <1>1, <2>1
  <2>5. QED  BY <1>1, <1>2, <1>5, <1>6, <1>8, <2>2, <2>3, <2>4
<1>10. sqBar'[d + 1] = Append(sqBar, o)[d + 1]
  <2>1. d + 1 \in 1 .. d + 1 /\ (d + 1) - 1 = d
    BY <1>1 DEF d
  <2>2. sqBar'[d + 1] = sqes'[SqSlot(sqe_tail)]
    BY <1>4, <1>6, <2>1
  <2>3. QED  BY <1>1, <1>2, <1>7, <1>8, <2>2
<1>11. \A i \in 1 .. d + 1 : sqBar'[i] = Append(sqBar, o)[i]
  <2>1. \A i \in 1 .. d + 1 : i \in 1 .. d \/ i = d + 1
    BY <1>1 DEF d
  <2>2. QED  BY <1>9, <1>10, <2>1
<1>12. sqBar' = Append(sqBar, o)
  BY <1>6, <1>8, <1>11, SeqEqual
<1>13. QED  BY <1>2, <1>5, <1>12
\* Completions are read when they are counted as seen or advanced past; advancing past
\* those that were seen before reads none.
LEMMA CqRead ==
    ASSUME Around, NEW k \in Nat, k <= CqReady - seen,
           UNCHANGED <<cqes, cktail, overflow>>,
           CqReady' - seen' = CqReady - seen - k,
           \A i \in 1 .. CqReady - seen - k :
               Plus(ckhead', seen' + i - 1) = Plus(ckhead, seen + (k + i) - 1)
    PROVE  /\ k <= Len(cqBar)
           /\ cqBar' = SubSeq(cqBar, k + 1, Len(cqBar))
           /\ ToSet(SubSeq(cqBar, 1, k)) =
                 {cqes[CqSlot(Plus(ckhead, seen + i - 1))] : i \in 1 .. k}
<1> DEFINE n == CqReady - seen
           at(i) == cqes[CqSlot(Plus(ckhead, seen + i - 1))]
           l == Len(overflow)
<1>1. /\ n \in Nat /\ l \in Nat /\ k <= n /\ CqIsQueue /\ CqIsQueue'
  BY DEF Around, CqIsQueue
<1>2. /\ cqBar \in Seq(Ops) /\ Len(cqBar) = n + l
      /\ \A i \in 1 .. n : cqBar[i] = at(i)
      /\ \A i \in 1 .. l : cqBar[n + i] = overflow[i]
  BY <1>1 DEF CqIsQueue
<1>3. /\ cqBar' \in Seq(Ops) /\ Len(cqBar') = (n - k) + l
      /\ \A i \in 1 .. n - k : cqBar'[i] = cqes[CqSlot(Plus(ckhead', seen' + i - 1))]
      /\ \A i \in 1 .. l : cqBar'[(n - k) + i] = overflow[i]
  BY <1>1 DEF CqIsQueue, CqSlot
<1>4. \A i \in 1 .. n - k : cqBar'[i] = at(k + i)
  BY <1>3
<1> HIDE DEF n, at, l
<1>5. k \in 0 .. Len(cqBar) /\ Len(cqBar) - k = (n - k) + l
  BY <1>1, <1>2
<1>6. /\ SubSeq(cqBar, k + 1, Len(cqBar)) \in Seq(Ops)
      /\ Len(SubSeq(cqBar, k + 1, Len(cqBar))) = Len(cqBar) - k
      /\ \A i \in 1 .. Len(cqBar) - k : SubSeq(cqBar, k + 1, Len(cqBar))[i] = cqBar[k + i]
  BY <1>2, <1>5, DropProperties
<1>7. ASSUME NEW i \in 1 .. (n - k) + l PROVE cqBar'[i] = cqBar[k + i]
  <2>1. CASE i <= n - k
    <3>1. i \in 1 .. n - k /\ k + i \in 1 .. n
      BY <1>1, <2>1
    <3>2. QED  BY <1>2, <1>4, <3>1
  <2>2. CASE ~(i <= n - k)
    <3>1. PICK j \in 1 .. l : i = (n - k) + j
      <4>1. i - (n - k) \in 1 .. l /\ i = (n - k) + (i - (n - k))
        BY <1>1, <2>2
      <4>2. QED  BY <4>1
    <3>2. k + i = n + j
      BY <1>1, <3>1
    <3>3. QED  BY <1>2, <1>3, <3>1, <3>2
  <2>3. QED  BY <2>1, <2>2
<1>8. cqBar' = SubSeq(cqBar, k + 1, Len(cqBar))
  <2>1. \A i \in 1 .. Len(cqBar') : cqBar'[i] = SubSeq(cqBar, k + 1, Len(cqBar))[i]
    BY <1>3, <1>5, <1>6, <1>7
  <2>2. QED  BY <1>3, <1>5, <1>6, <2>1, SeqEqual
<1>9. ToSet(SubSeq(cqBar, 1, k)) = {at(i) : i \in 1 .. k}
  <2>1. /\ SubSeq(cqBar, 1, k) \in Seq(Ops) /\ Len(SubSeq(cqBar, 1, k)) = k
        /\ \A i \in 1 .. k : SubSeq(cqBar, 1, k)[i] = cqBar[i]
    BY <1>2, <1>5, TakeProperties
  <2>2. DOMAIN SubSeq(cqBar, 1, k) = 1 .. k
    BY <2>1, LenProperties
  <2>3. \A i \in 1 .. k : SubSeq(cqBar, 1, k)[i] = at(i)
    BY <1>1, <1>2, <2>1
  <2>4. QED  BY <2>2, <2>3 DEF ToSet
<1>10. QED  BY <1>5, <1>8, <1>9 DEF at

LEMMA CqKept ==
    ASSUME Around, UNCHANGED cqVars
    PROVE  cqBar' = cqBar
<1>1. UNCHANGED <<cqes, cktail, ckhead, seen, overflow>>
  BY DEF cqVars
<1>2. CqReady' = CqReady
  BY <1>1 DEF CqReady, Minus
<1>3. /\ cqBar \in Seq(Ops) /\ cqBar' \in Seq(Ops) /\ Len(cqBar') = Len(cqBar)
      /\ Len(cqBar) = (CqReady - seen) + Len(overflow)
      /\ CqReady - seen \in Nat /\ Len(overflow) \in Nat
  BY <1>1, <1>2 DEF Around, CqIsQueue
<1>4. \A i \in 1 .. CqReady - seen : cqBar'[i] = cqBar[i]
  BY <1>1, <1>2 DEF Around, CqIsQueue, Plus, CqSlot
<1>5. \A i \in 1 .. Len(overflow) :
          cqBar'[(CqReady - seen) + i] = cqBar[(CqReady - seen) + i]
  BY <1>1, <1>2 DEF Around, CqIsQueue
<1>6. ASSUME NEW i \in 1 .. Len(cqBar) PROVE cqBar'[i] = cqBar[i]
  <2>1. CASE i <= CqReady - seen
    BY <1>3, <1>4, <2>1
  <2>2. CASE ~(i <= CqReady - seen)
    <3>1. /\ i - (CqReady - seen) \in 1 .. Len(overflow)
          /\ i = (CqReady - seen) + (i - (CqReady - seen))
      BY <1>3, <2>2
    <3>2. QED  BY <1>5, <3>1
  <2>3. QED  BY <2>1, <2>2
<1>7. QED  BY <1>3, <1>6, SeqEqual

\* The kernel appends a completion, to the ring or to the overflow list.
LEMMA CqAppended ==
    ASSUME Around, NEW o \in Ops, Complete(o)
    PROVE  cqBar' = Append(cqBar, o)
<1> DEFINE n == CqReady - seen
           l == Len(overflow)
           at(i) == cqes[CqSlot(Plus(ckhead, seen + i - 1))]
<1>1. /\ ckhead \in Indices /\ cktail \in Indices /\ CqReady \in 0 .. CqEntries
      /\ seen \in Nat /\ seen <= CqReady /\ overflow \in Seq(Ops)
      /\ cqes \in [0 .. CqEntries - 1 -> Ops \cup {None}]
      /\ CqIsQueue /\ CqIsQueue' /\ n \in Nat /\ l \in Nat
  BY Distances DEF Around, RingInv, TypeOK, CqInOrder, CqIsQueue
<1>2. /\ cqBar \in Seq(Ops) /\ Len(cqBar) = n + l
      /\ \A i \in 1 .. n : cqBar[i] = at(i)
      /\ \A i \in 1 .. l : cqBar[n + i] = overflow[i]
  BY <1>1 DEF CqIsQueue
<1>3. UNCHANGED <<ckhead, seen>>
  BY DEF Complete
<1>4. /\ Append(cqBar, o) \in Seq(Ops) /\ Len(Append(cqBar, o)) = n + l + 1
      /\ \A i \in 1 .. n + l : Append(cqBar, o)[i] = cqBar[i]
      /\ Append(cqBar, o)[n + l + 1] = o
  BY <1>2, AppendProperties
<1>5. CASE overflow = <<>> /\ CqReady < CqEntries
  <2>1. /\ cqes' = [cqes EXCEPT ![CqSlot(cktail)] = o]
        /\ cktail' = Plus(cktail, 1) /\ overflow' = overflow
    BY <1>5 DEF Complete
  <2>2. l = 0
    BY <1>5, EmptySeq
  <2>3. CqReady' = CqReady + 1
    BY <1>1, <1>3, <1>5, <2>1, RingConstants DEF CqReady, Plus, Minus
  <2>4. Plus(ckhead, CqReady) = cktail
    BY <1>1, RingConstants DEF CqReady, Plus, Minus
  <2>5. /\ cqBar' \in Seq(Ops) /\ Len(cqBar') = n + 1
        /\ \A i \in 1 .. n + 1 : cqBar'[i] = cqes'[CqSlot(Plus(ckhead, seen + i - 1))]
    <3>1. CqReady' - seen' = n + 1 /\ Len(overflow') = 0
      BY <1>1, <1>3, <2>1, <2>2, <2>3
    <3>2. QED  BY <1>1, <1>3, <3>1 DEF CqIsQueue, CqSlot, Plus
  <2>6. CqSlot(cktail) \in 0 .. CqEntries - 1
    BY <1>1, Slot
  <2>7. ASSUME NEW i \in 1 .. n PROVE cqBar'[i] = at(i)
    <3>1. seen + i - 1 \in 0 .. CqEntries - 1 /\ seen + i - 1 < CqReady
          /\ CqReady \in 0 .. CqEntries - 1 /\ i \in 1 .. n + 1
      BY <1>1, <1>5, RingConstants
    <3>2. CqSlot(Plus(ckhead, seen + i - 1)) # CqSlot(cktail)
      BY <1>1, <2>4, <3>1, RingConstants, SlotAssumption, SlotsDiffer DEF CqSlot
    <3>3. CqSlot(Plus(ckhead, seen + i - 1)) \in 0 .. CqEntries - 1
      <4>1. Plus(ckhead, seen + i - 1) \in Indices
        BY <1>1, <3>1, RingConstants DEF Plus
      <4>2. QED  BY <4>1, Slot
    <3>4. cqBar'[i] = cqes'[CqSlot(Plus(ckhead, seen + i - 1))]
      BY <2>5, <3>1
    <3>5. QED  BY <1>1, <2>1, <3>2, <3>3, <3>4
  <2>8. cqBar'[n + 1] = o
    <3>1. n + 1 \in 1 .. n + 1 /\ seen + (n + 1) - 1 = CqReady
      BY <1>1
    <3>2. cqBar'[n + 1] = cqes'[CqSlot(cktail)]
      BY <2>4, <2>5, <3>1
    <3>3. QED  BY <1>1, <2>1, <2>6, <3>2
  <2>9. /\ Len(Append(cqBar, o)) = n + 1
        /\ \A i \in 1 .. n : Append(cqBar, o)[i] = at(i)
        /\ Append(cqBar, o)[n + 1] = o
    <3> HIDE DEF n, l, at
    <3>1. n + l = n /\ n + l + 1 = n + 1
      BY <1>1, <2>2
    <3>2. QED  BY <1>2, <1>4, <3>1
  <2> HIDE DEF n, l, at
  <2>10. \A i \in 1 .. Len(cqBar') : cqBar'[i] = Append(cqBar, o)[i]
    <3>1. \A i \in 1 .. n + 1 : i \in 1 .. n \/ i = n + 1
      BY <1>1
    <3>2. QED  BY <2>5, <2>7, <2>8, <2>9, <3>1
  <2>11. QED  BY <1>4, <2>5, <2>9, <2>10, SeqEqual
<1>6. CASE ~(overflow = <<>> /\ CqReady < CqEntries)
  <2>1. overflow' = Append(overflow, o) /\ UNCHANGED <<cqes, cktail>>
    BY <1>6 DEF Complete
  <2>2. CqReady' = CqReady
    BY <1>3, <2>1 DEF CqReady, Minus
  <2>3. /\ Len(overflow') = l + 1
        /\ \A i \in 1 .. l : overflow'[i] = overflow[i]
        /\ overflow'[l + 1] = o
    BY <1>1, <2>1, AppendProperties
  <2>4. /\ cqBar' \in Seq(Ops) /\ Len(cqBar') = n + (l + 1)
        /\ \A i \in 1 .. n : cqBar'[i] = at(i)
        /\ \A i \in 1 .. l + 1 : cqBar'[n + i] = overflow'[i]
    BY <1>1, <1>3, <2>1, <2>2, <2>3 DEF CqIsQueue, CqSlot, Plus
  <2> HIDE DEF n, l, at
  <2>5. ASSUME NEW i \in 1 .. n + l + 1 PROVE cqBar'[i] = Append(cqBar, o)[i]
    <3>1. CASE i <= n
      <4>1. i \in 1 .. n /\ i \in 1 .. n + l
        BY <1>1, <3>1
      <4>2. QED  BY <1>2, <1>4, <2>4, <4>1
    <3>2. CASE ~(i <= n)
      <4>1. PICK j \in 1 .. l + 1 : i = n + j
        <5>1. i - n \in 1 .. l + 1 /\ i = n + (i - n)
          BY <1>1, <3>2
        <5>2. QED  BY <5>1
      <4>2. cqBar'[i] = overflow'[j]
        BY <2>4, <4>1
      <4>3. CASE j <= l
        <5>1. j \in 1 .. l /\ i \in 1 .. n + l
          BY <1>1, <4>1, <4>3
        <5>2. QED  BY <1>2, <1>4, <2>3, <4>1, <4>2, <5>1
      <4>4. CASE ~(j <= l)
        <5>1. j = l + 1 /\ i = n + l + 1
          BY <1>1, <4>1, <4>4
        <5>2. QED  BY <1>4, <2>3, <4>2, <5>1
      <4>5. QED  BY <4>3, <4>4
    <3>3. QED  BY <3>1, <3>2
  <2>6. n + (l + 1) = n + l + 1
    BY <1>1
  <2>7. QED  BY <1>4, <2>4, <2>5, <2>6, SeqEqual
<1>7. QED  BY <1>5, <1>6
\* What the kernel moves from the overflow list fills the slots behind the tail, in
\* order, and no slot of a completion that is still to be read.
LEMMA FlushFills ==
    ASSUME TypeOK, CqReady <= CqEntries, FlushOverflowList
    PROVE  /\ Moved \in 0 .. Len(overflow) /\ CqReady + Moved <= CqEntries
           /\ \A j \in 1 .. Moved : cqes'[CqSlot(Plus(cktail, j - 1))] = overflow[j]
           /\ \A a \in 0 .. CqEntries - 1 :
                 a < CqReady => cqes'[CqSlot(Plus(ckhead, a))] = cqes[CqSlot(Plus(ckhead, a))]
<1>1. /\ cqes \in [0 .. CqEntries - 1 -> Ops \cup {None}]
      /\ overflow \in Seq(Ops) /\ Len(overflow) \in Nat
      /\ cktail \in Indices /\ ckhead \in Indices /\ CqReady \in 0 .. CqEntries
  <2>1. CqReady \in Nat
    BY IndexArithmetic DEF TypeOK, CqReady
  <2>2. QED  BY <2>1, LenProperties, RingConstants DEF TypeOK
<1>2. Room = CqEntries - CqReady
  BY DEF Room, CqReady
<1>3. Moved \in 0 .. Len(overflow) /\ CqReady + Moved <= CqEntries
  BY <1>1, <1>2, RingConstants DEF Moved
<1> DEFINE m == Moved
           slot(j) == CqSlot(Plus(cktail, j - 1))
           chosen(s) == CHOOSE i \in 1 .. m : slot(i) = s
<1>4. cqes' = [s \in 0 .. CqEntries - 1 |->
                 IF \E i \in 1 .. m : slot(i) = s THEN overflow[chosen(s)] ELSE cqes[s]]
  BY <1>1 DEF FlushOverflowList
<1>5. ASSUME NEW j \in 1 .. m, NEW k \in 1 .. m, j < k PROVE slot(j) # slot(k)
  <2> HIDE DEF m
  <2>1. /\ j - 1 \in 0 .. CqEntries - 1 /\ k - 1 \in 0 .. CqEntries - 1 /\ j - 1 < k - 1
    BY <1>1, <1>3, <1>5, RingConstants DEF m
  <2>2. QED  BY <1>1, <2>1, RingConstants, SlotAssumption, SlotsDiffer DEF CqSlot
<1>6. ASSUME NEW j \in 1 .. m PROVE slot(j) \in 0 .. CqEntries - 1
  <2>1. Plus(cktail, j - 1) \in Indices
    BY <1>1, <1>3, RingConstants DEF Plus
  <2>2. QED  BY <2>1, Slot
<1>7. ASSUME NEW j \in 1 .. m, NEW a \in 0 .. CqEntries - 1, a < CqReady
      PROVE  slot(j) # CqSlot(Plus(ckhead, a))
  <2> HIDE DEF m
  <2>1. CqReady + (j - 1) \in 0 .. CqEntries - 1 /\ a < CqReady + (j - 1)
    BY <1>1, <1>3, <1>7, RingConstants DEF m
  <2>2. Plus(cktail, j - 1) = Plus(ckhead, CqReady + (j - 1))
    <3>1. Plus(ckhead, CqReady) = cktail
      BY <1>1, RingConstants DEF CqReady, Plus, Minus
    <3>2. CqReady \in Nat /\ j - 1 \in Nat /\ CqReady + (j - 1) < IndexModulus
      BY <1>1, <2>1, RingConstants
    <3>3. QED  BY <1>1, <3>1, <3>2, PlusPlus
  <2>3. QED  BY <1>1, <1>7, <2>1, <2>2, RingConstants, SlotAssumption, SlotsDiffer DEF CqSlot
<1> HIDE DEF m, slot
<1>8. ASSUME NEW j \in 1 .. m PROVE cqes'[slot(j)] = overflow[j]
  <2>1. chosen(slot(j)) \in 1 .. m /\ slot(chosen(slot(j))) = slot(j)
    OBVIOUS
  <2>2. chosen(slot(j)) = j
    <3> HIDE DEF chosen
    <3>1. m \in Nat
      BY <1>3 DEF m
    <3>2. ~(chosen(slot(j)) < j) /\ ~(j < chosen(slot(j)))
      BY <1>5, <2>1
    <3>3. QED  BY <2>1, <3>1, <3>2
  <2>3. cqes'[slot(j)] = overflow[chosen(slot(j))]
    <3> HIDE DEF chosen
    <3>1. QED  BY <1>4, <1>6
  <2>4. QED  BY <2>2, <2>3
<1> HIDE DEF chosen
<1>9. ASSUME NEW a \in 0 .. CqEntries - 1, a < CqReady
      PROVE  cqes'[CqSlot(Plus(ckhead, a))] = cqes[CqSlot(Plus(ckhead, a))]
  <2>1. CqSlot(Plus(ckhead, a)) \in 0 .. CqEntries - 1
    <3>1. Plus(ckhead, a) \in Indices
      BY <1>1, RingConstants DEF Plus
    <3>2. QED  BY <3>1, Slot
  <2>2. ~ \E i \in 1 .. m : slot(i) = CqSlot(Plus(ckhead, a))
    BY <1>7, <1>9
  <2>3. QED  BY <1>4, <2>1, <2>2
<1>10. QED  BY <1>3, <1>8, <1>9 DEF m, slot

LEMMA CqFlushed ==
    ASSUME Around, FlushOverflowList, UNCHANGED <<ckhead, seen>>
    PROVE  cqBar' = cqBar
<1> DEFINE n == CqReady - seen
           l == Len(overflow)
           m == Moved
<1>1. /\ ckhead \in Indices /\ cktail \in Indices /\ CqReady \in 0 .. CqEntries
      /\ seen \in Nat /\ seen <= CqReady /\ overflow \in Seq(Ops)
      /\ TypeOK /\ CqIsQueue /\ CqIsQueue' /\ n \in Nat /\ l \in Nat
  BY Distances DEF Around, RingInv, TypeOK, CqInOrder, CqIsQueue
<1>2. /\ cqBar \in Seq(Ops) /\ Len(cqBar) = n + l
      /\ \A i \in 1 .. n : cqBar[i] = cqes[CqSlot(Plus(ckhead, seen + i - 1))]
      /\ \A i \in 1 .. l : cqBar[n + i] = overflow[i]
  BY <1>1 DEF CqIsQueue
<1>3. /\ m \in 0 .. l /\ CqReady + m <= CqEntries
      /\ \A j \in 1 .. m : cqes'[CqSlot(Plus(cktail, j - 1))] = overflow[j]
      /\ \A a \in 0 .. CqEntries - 1 :
            a < CqReady => cqes'[CqSlot(Plus(ckhead, a))] = cqes[CqSlot(Plus(ckhead, a))]
  BY <1>1, FlushFills
<1>4. /\ cktail' = Plus(cktail, m)
      /\ overflow' = SubSeq(overflow, m + 1, Len(overflow))
  BY DEF FlushOverflowList
<1>5. CqReady' = CqReady + m
  <2> HIDE DEF m
  <2>1. m \in Nat
    BY <1>1, <1>3
  <2>2. QED  BY <1>1, <1>3, <1>4, <2>1, RingConstants DEF CqReady, Plus, Minus
<1>6. /\ Len(overflow') = l - m
      /\ \A i \in 1 .. l - m : overflow'[i] = overflow[m + i]
  BY <1>1, <1>3, <1>4, DropProperties
<1>7. /\ cqBar' \in Seq(Ops) /\ Len(cqBar') = (n + m) + (l - m)
      /\ \A i \in 1 .. n + m : cqBar'[i] = cqes'[CqSlot(Plus(ckhead, seen + i - 1))]
      /\ \A i \in 1 .. l - m : cqBar'[(n + m) + i] = overflow'[i]
  <2>1. CqReady' - seen' = n + m
    <3> HIDE DEF m
    <3>1. QED  BY <1>1, <1>3, <1>5
  <2>2. QED  BY <1>1, <1>6, <2>1 DEF CqIsQueue, CqSlot, Plus
<1>8. Plus(ckhead, CqReady) = cktail
  BY <1>1, RingConstants DEF CqReady, Plus, Minus
<1>9. CqReady = seen + n
  BY <1>1
<1> HIDE DEF n, l, m
<1>10. ASSUME NEW i \in 1 .. n PROVE cqBar'[i] = cqBar[i]
  <2>1. /\ seen + i - 1 \in 0 .. CqEntries - 1 /\ seen + i - 1 < CqReady /\ i \in 1 .. n + m
    BY <1>1, <1>3, <1>9, RingConstants
  <2>2. QED  BY <1>2, <1>3, <1>7, <2>1
<1>11. ASSUME NEW j \in 1 .. m PROVE cqBar'[n + j] = cqBar[n + j]
  <2>1. /\ n + j \in 1 .. n + m /\ j \in 1 .. l
        /\ seen + (n + j) - 1 = CqReady + (j - 1)
    BY <1>1, <1>3, <1>9
  <2>2. Plus(ckhead, CqReady + (j - 1)) = Plus(cktail, j - 1)
    <3>1. CqReady \in Nat /\ j - 1 \in Nat /\ CqReady + (j - 1) < IndexModulus
      BY <1>1, <1>3, RingConstants
    <3>2. QED  BY <1>1, <1>8, <3>1, PlusPlus
  <2>3. QED  BY <1>2, <1>3, <1>7, <2>1, <2>2
<1>12. ASSUME NEW i \in 1 .. l - m PROVE cqBar'[(n + m) + i] = cqBar[(n + m) + i]
  <2>1. m + i \in 1 .. l /\ (n + m) + i = n + (m + i)
    BY <1>1, <1>3
  <2>2. QED  BY <1>2, <1>6, <1>7, <2>1
<1>13. ASSUME NEW i \in 1 .. n + l PROVE cqBar'[i] = cqBar[i]
  <2>1. CASE i <= n
    BY <1>1, <1>10, <2>1
  <2>2. CASE ~(i <= n) /\ i <= n + m
    <3>1. i - n \in 1 .. m /\ i = n + (i - n)
      BY <1>1, <1>3, <2>2
    <3>2. QED  BY <1>11, <3>1
  <2>3. CASE ~(i <= n + m)
    <3>1. i - (n + m) \in 1 .. l - m /\ i = (n + m) + (i - (n + m))
      BY <1>1, <1>3, <2>3
    <3>2. QED  BY <1>12, <3>1
  <2>4. QED  BY <2>1, <2>2, <2>3
<1>14. (n + m) + (l - m) = n + l
  BY <1>1, <1>3
<1>15. QED  BY <1>2, <1>7, <1>13, <1>14, SeqEqual
-----------------------------------------------------------------------------
(* Each step is one of the queues', or changes nothing there                 *)

\* Steps of the dispatcher and of the polling thread between its visible ones.
LEMMA QuietRefines ==
    ASSUME Around, QuietStep \/ FlushSq \/ TailVisible
    PROVE  UNCHANGED Queues!vars
<1>1. UNCHANGED <<sqes, sqe_tail, khead, cqVars, idle, inflight>>
  <2>1. CASE QuietStep
    BY <2>1, QuietFrame DEF sqVars
  <2>2. CASE FlushSq
    BY <2>2 DEF FlushSq
  <2>3. CASE TailVisible
    BY <2>3 DEF TailVisible
  <2>4. QED  BY <2>1, <2>2, <2>3
<1>2. QED  BY <1>1, SqKept, CqKept DEF Queues!vars

LEMMA GetSqeRefines ==
    ASSUME Around, NEW o \in Ops, GetSqe(o)
    PROVE  Queues!Acquire(o)
<1>1. /\ o \in idle /\ idle' = idle \ {o} /\ UNCHANGED <<inflight, cqVars>>
  BY DEF GetSqe
<1>2. Len(sqBar) < SqEntries /\ sqBar' = Append(sqBar, o)
  BY SqAppended
<1>3. cqBar' = cqBar
  BY <1>1, CqKept
<1>4. QED  BY <1>1, <1>2, <1>3 DEF Queues!Acquire

\* One entry by the polling thread,
LEMMA PollTakeRefines ==
    ASSUME Around, PollTake
    PROVE  \E n \in 1 .. Len(sqBar) : Queues!Take(n)
<1>1. /\ khead # ktail /\ khead' = Plus(khead, 1)
      /\ inflight' = inflight \cup {sqes[SqSlot(khead)]}
      /\ UNCHANGED <<sqes, sqe_tail, cqVars, idle>>
  BY DEF PollTake
<1>2. /\ khead \in Indices /\ ktail \in Indices /\ SqInOrder
      /\ Minus(ktail, khead) \in 0 .. SqEntries
      /\ Minus(sqe_head, khead) \in 0 .. SqEntries
      /\ Minus(sqe_tail, khead) \in 0 .. SqEntries
  BY Distances DEF Around, RingInv, TypeOK
<1>3. 1 \in 0 .. SqEntries /\ 1 <= Minus(sqe_tail, khead)
  <2>1. Minus(ktail, khead) # 0
    BY <1>1, <1>2, IndexArithmetic
  <2>2. QED  BY <1>2, <2>1, RingConstants DEF SqInOrder
<1>4. /\ 1 <= Len(sqBar)
      /\ sqBar' = SubSeq(sqBar, 1 + 1, Len(sqBar))
      /\ ToSet(SubSeq(sqBar, 1, 1)) = {sqes[SqSlot(Plus(khead, i - 1))] : i \in 1 .. 1}
  BY <1>1, <1>3, SqTaken
<1>5. {sqes[SqSlot(Plus(khead, i - 1))] : i \in 1 .. 1} = {sqes[SqSlot(khead)]}
  <2>1. Plus(khead, 1 - 1) = khead /\ 1 .. 1 = {1}
    BY <1>2, RingConstants DEF Plus
  <2>2. QED  BY <2>1
<1>6. cqBar' = cqBar
  BY <1>1, CqKept
<1>7. Queues!Take(1)
  BY <1>1, <1>4, <1>5, <1>6
     DEF Queues!Take, Queues!First, Queues!Without, Queues!ToSet, ToSet
<1>8. 1 \in 1 .. Len(sqBar)
  BY <1>4 DEF Around, SqIsQueue
<1>9. QED  BY <1>7, <1>8

\* or as many as the kernel takes inside io_uring_enter, perhaps none.
LEMMA EnterRefines ==
    ASSUME Around, NEW n \in 0 .. toSubmit, Enter(n)
    PROVE  Queues!Next \/ UNCHANGED Queues!vars
<1>1. /\ khead' = Plus(khead, n)
      /\ inflight' = inflight \cup {sqes[SqSlot(Plus(khead, i - 1))] : i \in 1 .. n}
      /\ UNCHANGED <<sqes, sqe_tail, idle, ckhead, seen>>
      /\ FlushOverflowList \/ UNCHANGED <<cqes, cktail, overflow>>
  BY DEF Enter
<1>2. cqBar' = cqBar
  <2>1. CASE FlushOverflowList
    BY <1>1, <2>1, CqFlushed
  <2>2. CASE UNCHANGED <<cqes, cktail, overflow>>
    <3>1. UNCHANGED cqVars
      BY <1>1, <2>2 DEF cqVars
    <3>2. QED  BY <3>1, CqKept
  <2>3. QED  BY <1>1, <2>1, <2>2
<1>3. n \in 0 .. SqEntries /\ n <= Minus(sqe_tail, khead) /\ khead \in Indices
  <2>1. /\ toSubmit = Minus(sqe_tail, khead) /\ Minus(sqe_tail, khead) \in 0 .. SqEntries
        /\ khead \in Indices
    BY Distances DEF Around, RingInv, Offered, Enter, TypeOK
  <2>2. QED  BY <2>1, RingConstants
<1>4. /\ n <= Len(sqBar)
      /\ sqBar' = SubSeq(sqBar, n + 1, Len(sqBar))
      /\ ToSet(SubSeq(sqBar, 1, n)) = {sqes[SqSlot(Plus(khead, i - 1))] : i \in 1 .. n}
  BY <1>1, <1>3, SqTaken
<1>5. CASE n = 0
  <2>1. khead' = khead /\ inflight' = inflight
    <3>1. Plus(khead, 0) = khead /\ 1 .. 0 = {}
      BY <1>3, RingConstants DEF Plus
    <3>2. QED  BY <1>1, <1>5, <3>1
  <2>2. sqBar' = sqBar
    BY <1>1, <2>1, SqKept
  <2>3. QED  BY <1>1, <1>2, <2>1, <2>2 DEF Queues!vars
<1>6. CASE n # 0
  <2>1. Queues!Take(n)
    BY <1>1, <1>2, <1>4
     DEF Queues!Take, Queues!First, Queues!Without, Queues!ToSet, ToSet
  <2>2. n \in 1 .. Len(sqBar)
    BY <1>3, <1>4, <1>6 DEF Around, SqIsQueue
  <2>3. QED  BY <2>1, <2>2 DEF Queues!Next
<1>7. QED  BY <1>5, <1>6

\* Entering for events moves completions inside the queue.
LEMMA EventsRefine ==
    ASSUME Around, EnterSqPoll \/ GetEvents
    PROVE  UNCHANGED Queues!vars
<1>1. /\ UNCHANGED <<sqes, sqe_tail, khead, idle, inflight, ckhead, seen>>
      /\ FlushOverflowList \/ UNCHANGED <<cqes, cktail, overflow>>
  <2>1. CASE EnterSqPoll
    BY <2>1 DEF EnterSqPoll, sqVars
  <2>2. CASE GetEvents
    BY <2>2 DEF GetEvents, sqVars
  <2>3. QED  BY <2>1, <2>2
<1>2. cqBar' = cqBar
  <2>1. CASE FlushOverflowList
    BY <1>1, <2>1, CqFlushed
  <2>2. CASE UNCHANGED <<cqes, cktail, overflow>>
    <3>1. UNCHANGED cqVars
      BY <1>1, <2>2 DEF cqVars
    <3>2. QED  BY <3>1, CqKept
  <2>3. QED  BY <1>1, <2>1, <2>2
<1>3. QED  BY <1>1, <1>2, SqKept DEF Queues!vars

\* A batch is read when it is processed: nothing is lost if the kernel posts more
\* before the head is advanced,
LEMMA ProcessBatchRefines ==
    ASSUME Around, ProcessBatch
    PROVE  \E n \in 1 .. Len(cqBar) : Queues!Read(n)
<1>1. /\ pc = "process" /\ CqReady # 0 /\ seen' = CqReady
      /\ idle' = idle \cup {cqes[CqSlot(Plus(ckhead, i - 1))] : i \in 1 .. CqReady}
      /\ UNCHANGED <<sqVars, cqes, cktail, ckhead, overflow, inflight>>
  BY DEF ProcessBatch
<1>2. /\ seen = 0 /\ CqReady \in 0 .. CqEntries
  BY <1>1, Distances DEF Around, RingInv, SeenOnlyAtAdvance
<1>3. CqReady' = CqReady
  BY <1>1 DEF CqReady, Minus
<1>4. /\ CqReady \in Nat /\ CqReady <= CqReady - seen
      /\ CqReady' - seen' = CqReady - seen - CqReady
      /\ CqReady - seen - CqReady = 0
  BY <1>1, <1>2, <1>3, RingConstants
<1>5. \A i \in 1 .. CqReady - seen - CqReady :
          Plus(ckhead', seen' + i - 1) = Plus(ckhead, seen + (CqReady + i) - 1)
  BY <1>4
<1>6. /\ CqReady <= Len(cqBar)
      /\ cqBar' = SubSeq(cqBar, CqReady + 1, Len(cqBar))
      /\ ToSet(SubSeq(cqBar, 1, CqReady)) =
            {cqes[CqSlot(Plus(ckhead, seen + i - 1))] : i \in 1 .. CqReady}
  BY <1>1, <1>4, <1>5, CqRead
<1>7. {cqes[CqSlot(Plus(ckhead, seen + i - 1))] : i \in 1 .. CqReady}
        = {cqes[CqSlot(Plus(ckhead, i - 1))] : i \in 1 .. CqReady}
  <2>1. \A i \in 1 .. CqReady : seen + i - 1 = i - 1
    BY <1>2
  <2>2. QED  BY <2>1
<1>8. sqBar' = sqBar
  BY <1>1, SqKept DEF sqVars
<1>9. Queues!Read(CqReady)
  BY <1>1, <1>6, <1>7, <1>8
     DEF Queues!Read, Queues!First, Queues!Without, Queues!ToSet, ToSet
<1>10. CqReady \in 1 .. Len(cqBar)
  BY <1>1, <1>2, <1>6 DEF Around, CqIsQueue
<1>11. QED  BY <1>9, <1>10

\* which then reads nothing,
LEMMA CqAdvanceRefines ==
    ASSUME Around, CqAdvance
    PROVE  UNCHANGED Queues!vars
<1>1. /\ ckhead' = Plus(ckhead, seen) /\ seen' = 0
      /\ UNCHANGED <<idle, sqVars, cqes, cktail, overflow, inflight>>
  BY DEF CqAdvance, Advanced
<1>2. /\ ckhead \in Indices /\ cktail \in Indices /\ CqReady \in 0 .. CqEntries
      /\ seen \in 0 .. CqEntries /\ seen <= CqReady
  BY Distances DEF Around, RingInv, TypeOK, CqInOrder
<1>3. CqReady' = CqReady - seen
  BY <1>1, <1>2, RingConstants DEF CqReady, Plus, Minus
<1>4. /\ 0 <= CqReady - seen /\ CqReady' - seen' = CqReady - seen - 0
  BY <1>1, <1>2, <1>3
<1>5. ASSUME NEW i \in 1 .. CqReady - seen - 0
      PROVE  Plus(ckhead', seen' + i - 1) = Plus(ckhead, seen + (0 + i) - 1)
  <2>1. /\ i - 1 \in Nat /\ seen + (i - 1) < IndexModulus /\ seen' + i - 1 = i - 1
        /\ seen + (0 + i) - 1 = seen + (i - 1) /\ seen \in Nat
    BY <1>1, <1>2, RingConstants
  <2>2. Plus(Plus(ckhead, seen), i - 1) = Plus(ckhead, seen + (i - 1))
    BY <1>2, <2>1, PlusPlus
  <2>3. QED  BY <1>1, <2>1, <2>2
<1>6. cqBar' = SubSeq(cqBar, 0 + 1, Len(cqBar))
  BY <1>1, <1>4, <1>5, CqRead
<1>7. SubSeq(cqBar, 0 + 1, Len(cqBar)) = cqBar
  <2>1. cqBar \in Seq(Ops)
    BY DEF Around, CqIsQueue
  <2>2. 0 \in 0 .. Len(cqBar)
    BY <2>1, LenProperties
  <2>3. /\ SubSeq(cqBar, 0 + 1, Len(cqBar)) \in Seq(Ops)
        /\ Len(SubSeq(cqBar, 0 + 1, Len(cqBar))) = Len(cqBar) - 0
        /\ \A i \in 1 .. Len(cqBar) - 0 : SubSeq(cqBar, 0 + 1, Len(cqBar))[i] = cqBar[0 + i]
    BY <2>1, <2>2, DropProperties
  <2>4. Len(cqBar) - 0 = Len(cqBar) /\ \A i \in 1 .. Len(cqBar) : 0 + i = i
    BY <2>1, LenProperties
  <2>5. QED  BY <2>1, <2>3, <2>4, SeqEqual
<1>8. sqBar' = sqBar
  BY <1>1, SqKept DEF sqVars
<1>9. QED  BY <1>1, <1>6, <1>7, <1>8 DEF Queues!vars

\* and the wait reads one.
LEMMA WaitCqeRefines ==
    ASSUME Around, WaitCqe
    PROVE  \E n \in 1 .. Len(cqBar) : Queues!Read(n)
<1>1. /\ pc = "wait" /\ CqReady # 0 /\ ckhead' = Plus(ckhead, 1) /\ seen' = seen
      /\ idle' = idle \cup {cqes[CqSlot(ckhead)]}
      /\ UNCHANGED <<sqVars, cqes, cktail, overflow, inflight>>
  BY DEF WaitCqe, PeekCqe
<1>2. /\ seen = 0 /\ CqReady \in 0 .. CqEntries
      /\ ckhead \in Indices /\ cktail \in Indices
  BY <1>1, Distances DEF Around, RingInv, SeenOnlyAtAdvance, TypeOK
<1>3. CqReady' = CqReady - 1
  BY <1>1, <1>2, RingConstants DEF CqReady, Plus, Minus
<1>4. /\ 1 <= CqReady - seen /\ CqReady' - seen' = CqReady - seen - 1
  BY <1>1, <1>2, <1>3, RingConstants
<1>5. ASSUME NEW i \in 1 .. CqReady - seen - 1
      PROVE  Plus(ckhead', seen' + i - 1) = Plus(ckhead, seen + (1 + i) - 1)
  <2>1. /\ i - 1 \in Nat /\ 1 + (i - 1) < IndexModulus /\ seen' + i - 1 = i - 1
        /\ seen + (1 + i) - 1 = 1 + (i - 1)
    BY <1>1, <1>2, RingConstants
  <2>2. Plus(Plus(ckhead, 1), i - 1) = Plus(ckhead, 1 + (i - 1))
    BY <1>2, <2>1, PlusPlus
  <2>3. QED  BY <1>1, <2>1, <2>2
<1>6. /\ 1 <= Len(cqBar)
      /\ cqBar' = SubSeq(cqBar, 1 + 1, Len(cqBar))
      /\ ToSet(SubSeq(cqBar, 1, 1)) =
            {cqes[CqSlot(Plus(ckhead, seen + i - 1))] : i \in 1 .. 1}
  BY <1>1, <1>4, <1>5, CqRead
<1>7. {cqes[CqSlot(Plus(ckhead, seen + i - 1))] : i \in 1 .. 1} = {cqes[CqSlot(ckhead)]}
  <2>1. Plus(ckhead, seen + 1 - 1) = ckhead /\ 1 .. 1 = {1}
    BY <1>2, RingConstants DEF Plus
  <2>2. QED  BY <2>1
<1>8. sqBar' = sqBar
  BY <1>1, SqKept DEF sqVars
<1>9. Queues!Read(1)
  BY <1>1, <1>6, <1>7, <1>8
     DEF Queues!Read, Queues!First, Queues!Without, Queues!ToSet, ToSet
<1>10. 1 \in 1 .. Len(cqBar)
  BY <1>6 DEF Around, CqIsQueue
<1>11. QED  BY <1>9, <1>10

LEMMA CompleteRefines ==
    ASSUME Around, NEW o \in Ops, Complete(o)
    PROVE  Queues!Complete(o)
<1>1. /\ o \in inflight /\ inflight' = inflight \ {o} /\ UNCHANGED <<idle, sqVars>>
  BY DEF Complete
<1>2. cqBar' = Append(cqBar, o)
  BY CqAppended
<1>3. sqBar' = sqBar
  BY <1>1, SqKept DEF sqVars
<1>4. QED  BY <1>1, <1>2, <1>3 DEF Queues!Complete

LEMMA RefinesInitially == Init => Queues!Init
<1> SUFFICES ASSUME Init PROVE Queues!Init
  OBVIOUS
<1>1. SqIsQueue /\ CqIsQueue
  BY InitInvariant, SqQueue, CqQueue
<1>2. Minus(sqe_tail, khead) = 0 /\ CqReady - seen = 0 /\ Len(overflow) = 0
  BY RingConstants DEF Init, Minus, CqReady
<1>3. sqBar \in Seq(Ops) /\ Len(sqBar) = 0 /\ cqBar \in Seq(Ops) /\ Len(cqBar) = 0
  BY <1>1, <1>2 DEF SqIsQueue, CqIsQueue
<1>4. sqBar = <<>> /\ cqBar = <<>>
  BY <1>3, EmptySeq
<1>5. QED  BY <1>4 DEF Init, Queues!Init

\* liburing's rings are the plain queues that an io_uring promises, for rings of any
\* sizes and indices that wrap at any common multiple of them: masking gives every entry
\* between head and tail a slot of its own, so none is overwritten before it is read,
\* skipped or read twice, with the overflow list and with SQPoll.
THEOREM RingsImplementQueues == Spec => ImplementsQueues
<1>1. ASSUME Around, Next PROVE Queues!Next \/ UNCHANGED Queues!vars
  <2>1. CASE QuietStep \/ FlushSq \/ TailVisible
    BY <1>1, <2>1, QuietRefines
  <2>2. ASSUME NEW o \in Ops, GetSqe(o) PROVE Queues!Next
    BY <1>1, <2>2, GetSqeRefines DEF Queues!Next
  <2>3. CASE PollTake
    BY <1>1, <2>3, PollTakeRefines DEF Queues!Next
  <2>4. CASE EnterSqPoll \/ GetEvents
    BY <1>1, <2>4, EventsRefine
  <2>5. ASSUME NEW n \in 0 .. toSubmit, Enter(n)
        PROVE  Queues!Next \/ UNCHANGED Queues!vars
    BY <1>1, <2>5, EnterRefines
  <2>6. CASE ProcessBatch
    BY <1>1, <2>6, ProcessBatchRefines DEF Queues!Next
  <2>7. CASE CqAdvance
    BY <1>1, <2>7, CqAdvanceRefines
  <2>8. CASE WaitCqe
    BY <1>1, <2>8, WaitCqeRefines DEF Queues!Next
  <2>9. ASSUME NEW o \in Ops, Complete(o) PROVE Queues!Next
    BY <1>1, <2>9, CompleteRefines DEF Queues!Next
  <2>10. QED
    BY <1>1, <2>1, <2>2, <2>3, <2>4, <2>5, <2>6, <2>7, <2>8, <2>9, Zenon
       DEF Next, Dispatcher, Poller, QuietStep
<1>2. ASSUME Around, UNCHANGED vars PROVE UNCHANGED Queues!vars
  <2>1. UNCHANGED <<sqes, sqe_tail, khead, cqVars, idle, inflight>>
    BY <1>2 DEF vars, sqVars
  <2>2. QED  BY <1>2, <2>1, SqKept, CqKept DEF Queues!vars
<1>3. RingInv /\ [Next]_vars => [Queues!Next]_(Queues!vars)
  <2>1. ASSUME RingInv, [Next]_vars PROVE Around
    BY <2>1, QueuesAfter DEF Around
  <2>2. QED  BY <1>1, <1>2, <2>1
<1>4. QED
  BY <1>3, RefinesInitially, Inductive, PTL DEF Spec, ImplementsQueues, Queues!Spec

=============================================================================
