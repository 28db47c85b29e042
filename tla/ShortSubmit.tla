----------------------------- MODULE ShortSubmit -----------------------------
(***************************************************************************)
(* SubmitRequest on a kernel without IORING_SETUP_SUBMIT_ALL, where        *)
(* io_uring_submit stops behind an entry that fails, or where it finds no  *)
(* memory, and says how many it took.  The rest of the batch is issued     *)
(* once more, although its entries are still in the submission queue.      *)
(*                                                                         *)
(* The ring has room for all of it: a full queue, the buffers and the      *)
(* files are the concern of LinuxIoDispatcher and BufferMemory.            *)
(***************************************************************************)
EXTENDS Integers, Sequences, FiniteSets, SequencesExt

CONSTANTS
    Requests,
    GBatchSubmitSize,
    MaxShort            \* bound on the submissions the kernel cuts short
ASSUME ShortConstants == GBatchSubmitSize \in Nat \ {0} /\ MaxShort \in Nat

VARIABLES
    idle, queue,            \* requests not pushed yet; pushed
    PendingSubmits, NumPendingCompletions,
    answered,               \* requests in CompletedRequests, or beyond
    pc, from,               \* the service thread, and who called SubmitRequest
    sq, inflight, cq,       \* requests of the entries, by where they are
    shorts
vars == <<idle, queue, PendingSubmits, NumPendingCompletions, answered, pc, from, sq,
          inflight, cq, shorts>>

Init ==
    /\ idle = Requests /\ queue = {} /\ answered = {}
    /\ PendingSubmits = <<>> /\ NumPendingCompletions = 0
    /\ pc = "next" /\ from = "flush"
    /\ sq = <<>> /\ inflight = <<>> /\ cq = <<>> /\ shorts = 0

PushRequest(r) ==
    /\ r \in idle
    /\ idle' = idle \ {r} /\ queue' = queue \cup {r}
    /\ UNCHANGED <<PendingSubmits, NumPendingCompletions, answered, pc, from, sq,
                   inflight, cq, shorts>>

\* IssueRequest, and SubmitRequest(Request) up to io_uring_submit.
IssueRequest(r) ==
    /\ pc = "next" /\ r \in queue
    /\ queue' = queue \ {r}
    /\ sq' = Append(sq, r)
    /\ NumPendingCompletions' = NumPendingCompletions + 1
    /\ PendingSubmits' = Append(PendingSubmits, r)
    /\ from' = "request"
    /\ pc' = IF Len(PendingSubmits) + 1 < GBatchSubmitSize THEN "process" ELSE "enter"
    /\ UNCHANGED <<idle, answered, inflight, cq, shorts>>

\* SubmitRequest(nullptr), if there is anything pending.
NoNextRequest ==
    /\ pc = "next" /\ queue = {}
    /\ from' = "flush"
    /\ pc' = IF PendingSubmits = <<>> THEN "wait" ELSE "enter"
    /\ UNCHANGED <<idle, queue, PendingSubmits, NumPendingCompletions, answered, sq,
                   inflight, cq, shorts>>

\* The kernel takes n entries, of which the last may have failed at once.
Take(n, failed) ==
    /\ n \in 0 .. Len(sq) /\ (failed => n > 0)
    /\ sq' = SubSeq(sq, n + 1, Len(sq))
    /\ IF failed
         THEN inflight' = inflight \o SubSeq(sq, 1, n - 1) /\ cq' = Append(cq, sq[n])
         ELSE inflight' = inflight \o SubSeq(sq, 1, n) /\ UNCHANGED cq

\* What is left of the batch.  Mutant: a batch that went through is kept.
GoPast(n) == SubSeq(PendingSubmits, n + 1, Len(PendingSubmits))
BatchLeft_Kept == PendingSubmits
BatchLeft == <<>>

\* Expected == NumSubmitted, or -EBUSY: all of it is submitted.
SubmitAll(failed) ==
    /\ pc = "enter"
    /\ \/ Take(Len(PendingSubmits), failed) /\ Len(PendingSubmits) > 0
       \/ ~failed /\ Take(Len(sq), FALSE)
    /\ shorts' = IF sq' # <<>> THEN shorts + 1 ELSE shorts
    /\ shorts' <= MaxShort
    /\ PendingSubmits' = BatchLeft
    /\ pc' = "process"
    /\ UNCHANGED <<idle, queue, NumPendingCompletions, answered, from>>

\* A negative result is fatal, and so is RemoveAt if the kernel took more entries
\* than the batch has.
SubmitShort(n, failed) ==
    /\ pc = "enter" /\ n # Len(PendingSubmits)
    /\ Take(n, failed)
    /\ shorts' = IF sq' # <<>> THEN shorts + 1 ELSE shorts
    /\ shorts' <= MaxShort
    /\ IF n \in 1 .. Len(PendingSubmits)
         THEN PendingSubmits' = GoPast(n) /\ pc' = "reissue"
         ELSE UNCHANGED PendingSubmits /\ pc' = "fatal"
    /\ UNCHANGED <<idle, queue, NumPendingCompletions, answered, from>>

\* IssueRequest for what was not taken.  Mutant: it is not counted again.
Reissued_NotCounted == NumPendingCompletions
Reissued == NumPendingCompletions + Len(PendingSubmits)

Reissue ==
    /\ pc = "reissue"
    /\ sq' = sq \o PendingSubmits
    /\ NumPendingCompletions' = Reissued
    /\ pc' = "enter"
    /\ UNCHANGED <<idle, queue, PendingSubmits, answered, from, inflight, cq, shorts>>

AfterProcess ==
    CASE from = "request" -> "next"
      [] from = "flush" -> "wait"
      [] from = "wait" -> "loop"

\* ProcessCompletedRequests.
ProcessCompletedRequests ==
    /\ pc = "process"
    /\ answered' = answered \cup ToSet(cq)
    /\ NumPendingCompletions' = NumPendingCompletions - Len(cq)
    /\ cq' = <<>>
    /\ pc' = AfterProcess
    /\ UNCHANGED <<idle, queue, PendingSubmits, from, sq, inflight, shorts>>

\* WaitAndProcessCompletionRequests(false).
NothingToWaitFor ==
    /\ pc = "wait" /\ NumPendingCompletions <= 0
    /\ pc' = "loop"
    /\ UNCHANGED <<idle, queue, PendingSubmits, NumPendingCompletions, answered, from, sq,
                   inflight, cq, shorts>>

WaitCqe ==
    /\ pc = "wait" /\ NumPendingCompletions > 0 /\ cq # <<>>
    /\ answered' = answered \cup {Head(cq)}
    /\ NumPendingCompletions' = NumPendingCompletions - 1
    /\ cq' = Tail(cq)
    /\ from' = "wait" /\ pc' = "process"
    /\ UNCHANGED <<idle, queue, PendingSubmits, sq, inflight, shorts>>

\* The thread sleeps unless something is pending or was pushed.  Mutant: it counts
\* on being woken for the completions.
StillPending_Pushed == queue # {}
StillPending == NumPendingCompletions > 0 \/ queue # {}

Loop ==
    /\ pc = "loop" /\ StillPending
    /\ pc' = "next"
    /\ UNCHANGED <<idle, queue, PendingSubmits, NumPendingCompletions, answered, from, sq,
                   inflight, cq, shorts>>

Complete(i) ==
    /\ i \in DOMAIN inflight
    /\ inflight' = RemoveAt(inflight, i)
    /\ cq' = Append(cq, inflight[i])
    /\ UNCHANGED <<idle, queue, PendingSubmits, NumPendingCompletions, answered, pc, from,
                   sq, shorts>>

Service ==
    \/ \E r \in Requests : IssueRequest(r)
    \/ NoNextRequest
    \/ \E failed \in BOOLEAN :
          SubmitAll(failed) \/ \E n \in 0 .. Len(sq) : SubmitShort(n, failed)
    \/ Reissue
    \/ ProcessCompletedRequests \/ NothingToWaitFor \/ WaitCqe \/ Loop
Kernel == \E i \in DOMAIN inflight : Complete(i)
Next == (\E r \in Requests : PushRequest(r)) \/ Service \/ Kernel

Spec == Init /\ [][Next]_vars

\* The service thread keeps running, and the kernel completes what it took.
FairSpec == Spec /\ WF_vars(Service) /\ WF_vars(Kernel)

-----------------------------------------------------------------------------
PCs == {"next", "enter", "reissue", "process", "wait", "loop", "fatal"}
TypeOK ==
    /\ idle \subseteq Requests /\ queue \subseteq Requests /\ answered \subseteq Requests
    /\ PendingSubmits \in Seq(Requests) /\ NumPendingCompletions \in Nat
    /\ pc \in PCs /\ from \in {"request", "flush", "wait"}
    /\ sq \in Seq(Requests) /\ inflight \in Seq(Requests) /\ cq \in Seq(Requests)
    /\ shorts \in 0 .. MaxShort

\* What is issued twice is counted twice: NumPendingCompletions stays the number
\* of completions to come, so that the service waits for all of them.
CounterMatches == NumPendingCompletions = Len(sq) + Len(inflight) + Len(cq)

Times(r, s) == Cardinality({i \in DOMAIN s : s[i] = r})
Bit(b) == IF b THEN 1 ELSE 0
Places(r) == Times(r, sq) + Times(r, inflight) + Times(r, cq) + Bit(r \in answered)

\* While the kernel takes every batch whole, every request is read once, and the
\* service does not fail.
OnceUnlessShort ==
    shorts = 0 => pc # "fatal" /\ \A r \in Requests : Places(r) <= 1

\* "CQE should've posted for the failed event. Go past it.": the batch goes on
\* behind it, each request still submitted once.
GoesPastFailedEvent == \A r \in Requests : Places(r) <= 1

\* While the kernel takes every batch whole, also if it says -EBUSY, a request
\* that was pushed is answered.
PushedIsAnswered ==
    [](shorts = 0) => \A r \in Requests : r \in queue ~> r \in answered
=============================================================================
