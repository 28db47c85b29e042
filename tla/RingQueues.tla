----------------------------- MODULE RingQueues -----------------------------
(***************************************************************************)
(* What an io_uring promises the program that uses it, without indices,    *)
(* flags or threads: entries are taken in the order they were acquired,    *)
(* each completes once, and completions are read in the order they came.   *)
(***************************************************************************)
EXTENDS Naturals, Sequences, SequencesExt

CONSTANTS Ops, SqEntries

VARIABLES
    idle,       \* operations the program may submit
    sq,         \* acquired entries the kernel has not taken
    inflight,   \* operations the kernel is working on
    cq          \* completions not read yet
vars == <<idle, sq, inflight, cq>>

Init == idle = Ops /\ sq = <<>> /\ inflight = {} /\ cq = <<>>

First(n, s) == SubSeq(s, 1, n)
Without(n, s) == SubSeq(s, n + 1, Len(s))

Acquire(o) ==
    /\ o \in idle /\ Len(sq) < SqEntries
    /\ idle' = idle \ {o} /\ sq' = Append(sq, o)
    /\ UNCHANGED <<inflight, cq>>

Take(n) ==
    /\ sq' = Without(n, sq)
    /\ inflight' = inflight \cup ToSet(First(n, sq))
    /\ UNCHANGED <<idle, cq>>

Complete(o) ==
    /\ o \in inflight
    /\ inflight' = inflight \ {o} /\ cq' = Append(cq, o)
    /\ UNCHANGED <<idle, sq>>

Read(n) ==
    /\ cq' = Without(n, cq)
    /\ idle' = idle \cup ToSet(First(n, cq))
    /\ UNCHANGED <<sq, inflight>>

Next ==
    \/ \E o \in Ops : Acquire(o) \/ Complete(o)
    \/ \E n \in 1 .. Len(sq) : Take(n)
    \/ \E n \in 1 .. Len(cq) : Read(n)

Spec == Init /\ [][Next]_vars

=============================================================================
