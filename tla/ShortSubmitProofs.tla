-------------------------- MODULE ShortSubmitProofs --------------------------
(***************************************************************************)
(* NumPendingCompletions is the number of completions to come, for any     *)
(* batch size, any number of requests and of short submissions, although   *)
(* requests may be in the submission queue more than once.  And until the  *)
(* first short submission they are not: every request is read once.        *)
(***************************************************************************)
EXTENDS ShortSubmit, SequenceLemmas

-----------------------------------------------------------------------------
(* The inductive invariant: the counter counts, and a negative one would hide *)
(* entries, so its type is a part of it.                                     *)

IInv == TypeOK /\ CounterMatches

USE DEF PCs

\* What the kernel takes from the submission queue it holds or has completed.
LEMMA TakeProperties2 ==
    ASSUME TypeOK, NEW n \in Nat, NEW failed \in BOOLEAN, Take(n, failed)
    PROVE  /\ sq' \in Seq(Requests) /\ inflight' \in Seq(Requests) /\ cq' \in Seq(Requests)
           /\ Len(sq') + Len(inflight') + Len(cq') = Len(sq) + Len(inflight) + Len(cq)
<1>1. /\ n \in 0 .. Len(sq) /\ sq \in Seq(Requests) /\ inflight \in Seq(Requests)
      /\ cq \in Seq(Requests) /\ sq' = SubSeq(sq, n + 1, Len(sq))
      /\ Len(sq) \in Nat /\ Len(inflight) \in Nat /\ Len(cq) \in Nat
  BY DEF Take, TypeOK
<1>2. sq' \in Seq(Requests) /\ Len(sq') = Len(sq) - n
  BY <1>1, DropProperties
<1>3. CASE failed
  <2> DEFINE taken == SubSeq(sq, 1, n - 1)
  <2>1. n > 0 /\ inflight' = inflight \o taken /\ cq' = Append(cq, sq[n])
    BY <1>3 DEF Take
  <2>2. n - 1 \in 0 .. Len(sq) /\ sq[n] \in Requests
    BY <1>1, <2>1
  <2>3. taken \in Seq(Requests) /\ Len(taken) = n - 1
    BY <1>1, <2>2, TakeProperties
  <2> HIDE DEF taken
  <2>4. inflight' \in Seq(Requests) /\ Len(inflight') = Len(inflight) + n - 1
    BY <1>1, <2>1, <2>3, ConcatProperties
  <2>5. cq' \in Seq(Requests) /\ Len(cq') = Len(cq) + 1
    BY <1>1, <2>1, <2>2
  <2>6. Len(sq') + Len(inflight') + Len(cq')
          = (Len(sq) - n) + (Len(inflight) + n - 1) + (Len(cq) + 1)
    BY <1>2, <2>4, <2>5
  <2>7. \A x, y, z \in Nat : (x - n) + (y + n - 1) + (z + 1) = x + y + z
    OBVIOUS
  <2>8. Len(sq') + Len(inflight') + Len(cq') = Len(sq) + Len(inflight) + Len(cq)
    BY <1>1, <2>6, <2>7
  <2>9. QED
    BY <1>2, <2>4, <2>5, <2>8
<1>4. CASE ~failed
  <2> DEFINE taken == SubSeq(sq, 1, n)
  <2>1. inflight' = inflight \o taken /\ cq' = cq
    BY <1>4 DEF Take
  <2>2. taken \in Seq(Requests) /\ Len(taken) = n
    BY <1>1, TakeProperties
  <2> HIDE DEF taken
  <2>3. inflight' \in Seq(Requests) /\ Len(inflight') = Len(inflight) + n
    BY <1>1, <2>1, <2>2, ConcatProperties
  <2>4. Len(sq') + Len(inflight') + Len(cq')
          = (Len(sq) - n) + (Len(inflight) + n) + Len(cq)
    BY <1>2, <2>1, <2>3
  <2>5. \A x, y, z \in Nat : (x - n) + (y + n) + z = x + y + z
    OBVIOUS
  <2>6. Len(sq') + Len(inflight') + Len(cq') = Len(sq) + Len(inflight) + Len(cq)
    BY <1>1, <2>4, <2>5
  <2>7. QED
    BY <1>1, <1>2, <2>1, <2>3, <2>6
<1>5. QED
  BY <1>3, <1>4

LEMMA InitIInv == Init => IInv
BY ShortConstants DEF Init, IInv, TypeOK, CounterMatches

-----------------------------------------------------------------------------
(* Every step keeps it                                                       *)

LEMMA SubmitStep ==
    ASSUME IInv,
           \E failed \in BOOLEAN :
               SubmitAll(failed) \/ \E n \in 0 .. Len(sq) : SubmitShort(n, failed)
    PROVE  IInv'
<1>0. TypeOK /\ CounterMatches
  BY DEF IInv
<1>1. /\ sq \in Seq(Requests) /\ PendingSubmits \in Seq(Requests)
      /\ Len(sq) \in Nat /\ Len(PendingSubmits) \in Nat
  BY <1>0 DEF TypeOK
<1>2. PICK failed \in BOOLEAN :
        SubmitAll(failed) \/ \E n \in 0 .. Len(sq) : SubmitShort(n, failed)
  OBVIOUS
<1>3. \E n \in Nat, f \in BOOLEAN : Take(n, f)
  <2>1. ASSUME SubmitAll(failed) PROVE \E n \in Nat, f \in BOOLEAN : Take(n, f)
    <3>1. Take(Len(PendingSubmits), failed) \/ Take(Len(sq), FALSE)
      BY <2>1 DEF SubmitAll
    <3>2. QED
      BY <1>1, <3>1
  <2>2. ASSUME NEW n \in 0 .. Len(sq), SubmitShort(n, failed)
        PROVE  \E m \in Nat, f \in BOOLEAN : Take(m, f)
    <3>1. n \in Nat /\ Take(n, failed)
      BY <1>1, <2>2 DEF SubmitShort
    <3>2. QED
      BY <3>1
  <2>3. QED
    BY <1>2, <2>1, <2>2
<1>4. /\ sq' \in Seq(Requests) /\ inflight' \in Seq(Requests) /\ cq' \in Seq(Requests)
      /\ Len(sq') + Len(inflight') + Len(cq') = Len(sq) + Len(inflight) + Len(cq)
  BY <1>0, <1>3, TakeProperties2
<1>5. /\ UNCHANGED <<idle, queue, NumPendingCompletions, answered, from>>
      /\ shorts' \in {shorts, shorts + 1} /\ shorts' <= MaxShort
      /\ pc' \in {"process", "reissue", "fatal"}
  BY <1>2 DEF SubmitAll, SubmitShort
<1>6. PendingSubmits' \in Seq(Requests)
  <2>1. CASE SubmitAll(failed)
    BY <2>1 DEF SubmitAll, BatchLeft
  <2>2. ASSUME NEW n \in 0 .. Len(sq), SubmitShort(n, failed)
        PROVE  PendingSubmits' \in Seq(Requests)
    <3>1. CASE n \in 1 .. Len(PendingSubmits)
      <4>1. PendingSubmits' = SubSeq(PendingSubmits, n + 1, Len(PendingSubmits))
        BY <2>2, <3>1 DEF SubmitShort, GoPast
      <4>2. QED
        BY <1>1, <3>1, <4>1, DropProperties
    <3>2. CASE n \notin 1 .. Len(PendingSubmits)
      BY <1>1, <2>2, <3>2 DEF SubmitShort
    <3>3. QED
      BY <3>1, <3>2
  <2>3. QED
    BY <1>2, <2>1, <2>2
<1>7. shorts' \in 0 .. MaxShort
  BY <1>0, <1>5, ShortConstants DEF TypeOK
<1>8. TypeOK'
  BY <1>0, <1>4, <1>5, <1>6, <1>7 DEF TypeOK
<1>9. CounterMatches'
  BY <1>0, <1>4, <1>5 DEF CounterMatches
<1>10. QED
  BY <1>8, <1>9 DEF IInv

LEMMA IInvStep == IInv /\ [Next]_vars => IInv'
<1> SUFFICES ASSUME IInv, [Next]_vars PROVE IInv'
  OBVIOUS
<1>0. TypeOK /\ CounterMatches
  BY DEF IInv
<1>1. /\ sq \in Seq(Requests) /\ PendingSubmits \in Seq(Requests)
      /\ inflight \in Seq(Requests) /\ cq \in Seq(Requests)
      /\ Len(sq) \in Nat /\ Len(inflight) \in Nat /\ Len(cq) \in Nat
      /\ Len(PendingSubmits) \in Nat /\ NumPendingCompletions \in Nat
  BY <1>0 DEF TypeOK
<1>2. CASE \E r \in Requests : PushRequest(r)
  BY <1>0, <1>2 DEF PushRequest, IInv, TypeOK, CounterMatches
<1>3. CASE \E r \in Requests : IssueRequest(r)
  <2>1. PICK r \in Requests : IssueRequest(r)
    BY <1>3
  <2>2. sq' \in Seq(Requests) /\ Len(sq') = Len(sq) + 1 /\ PendingSubmits' \in Seq(Requests)
    BY <1>1, <2>1 DEF IssueRequest
  <2>3. CounterMatches'
    BY <1>0, <1>1, <2>1, <2>2 DEF IssueRequest, CounterMatches
  <2>4. TypeOK'
    BY <1>0, <1>1, <2>1, <2>2 DEF IssueRequest, TypeOK
  <2>5. QED
    BY <2>3, <2>4 DEF IInv
<1>4. CASE NoNextRequest \/ NothingToWaitFor \/ Loop
  BY <1>0, <1>4 DEF NoNextRequest, NothingToWaitFor, Loop, IInv, TypeOK, CounterMatches
<1>5. CASE \E failed \in BOOLEAN :
             SubmitAll(failed) \/ \E n \in 0 .. Len(sq) : SubmitShort(n, failed)
  BY <1>5, SubmitStep
<1>6. CASE Reissue
  <2>1. sq' \in Seq(Requests) /\ Len(sq') = Len(sq) + Len(PendingSubmits)
    BY <1>1, <1>6, ConcatProperties DEF Reissue
  <2>2. CounterMatches'
    BY <1>0, <1>1, <1>6, <2>1 DEF Reissue, Reissued, CounterMatches
  <2>3. TypeOK'
    BY <1>0, <1>1, <1>6, <2>1 DEF Reissue, Reissued, TypeOK
  <2>4. QED
    BY <2>2, <2>3 DEF IInv
<1>7. CASE ProcessCompletedRequests
  <2> USE DEF ProcessCompletedRequests
  <2>1. cq' = <<>> /\ ToSet(cq) \subseteq Requests
    BY <1>1, <1>7 DEF ToSet
  <2>2. NumPendingCompletions' = Len(sq) + Len(inflight)
    BY <1>0, <1>1, <1>7 DEF CounterMatches
  <2>3. pc' \in PCs
    BY <1>0, <1>7 DEF AfterProcess, TypeOK
  <2>4. CounterMatches'
    BY <1>1, <1>7, <2>1, <2>2 DEF CounterMatches
  <2>5. TypeOK'
    BY <1>0, <1>1, <1>7, <2>1, <2>2, <2>3 DEF TypeOK
  <2>6. QED
    BY <2>4, <2>5 DEF IInv
<1>8. CASE WaitCqe
  <2> USE DEF WaitCqe
  <2>1. cq' \in Seq(Requests) /\ Len(cq') = Len(cq) - 1 /\ Head(cq) \in Requests
    BY <1>1, <1>8
  <2>2. CounterMatches'
    BY <1>0, <1>1, <1>8, <2>1 DEF CounterMatches
  <2>3. TypeOK'
    BY <1>0, <1>1, <1>8, <2>1 DEF TypeOK
  <2>4. QED
    BY <2>2, <2>3 DEF IInv
<1>9. CASE Kernel
  <2>1. PICK i \in DOMAIN inflight : Complete(i)
    BY <1>9 DEF Kernel
  <2>2. i \in 1 .. Len(inflight) /\ inflight[i] \in Requests
    BY <1>1
  <2>3. inflight' \in Seq(Requests) /\ Len(inflight') = Len(inflight) - 1
    BY <1>1, <2>1, <2>2, RemoveAtProperties DEF Complete
  <2>4. cq' \in Seq(Requests) /\ Len(cq') = Len(cq) + 1
    BY <1>1, <2>1, <2>2 DEF Complete
  <2>5. CounterMatches'
    BY <1>0, <1>1, <2>1, <2>3, <2>4 DEF Complete, CounterMatches
  <2>6. TypeOK'
    BY <1>0, <2>1, <2>3, <2>4 DEF Complete, TypeOK
  <2>7. QED
    BY <2>5, <2>6 DEF IInv
<1>10. CASE UNCHANGED vars
  BY <1>0, <1>10 DEF vars, IInv, TypeOK, CounterMatches
<1>11. QED
  BY <1>2, <1>3, <1>4, <1>5, <1>6, <1>7, <1>8, <1>9, <1>10 DEF Next, Service

\* The service waits for exactly the completions that will come, whatever the kernel
\* did not take and was issued again.
THEOREM CounterAlwaysMatches == Spec => []CounterMatches
<1>1. IInv => CounterMatches
  BY DEF IInv
<1>2. QED
  BY <1>1, InitIInv, IInvStep, PTL DEF Spec
-----------------------------------------------------------------------------
(* Once, while the kernel takes every batch whole.  The batch is then what    *)
(* the submission queue holds, so that whatever is taken short of the batch   *)
(* leaves entries behind; and a request is in one place, the ones it is in    *)
(* before it is issued included.                                              *)

Entries(r) ==
    Occurrences(sq, {r}) + Occurrences(inflight, {r}) + Occurrences(cq, {r})
AllPlaces(r) == Bit(r \in idle) + Bit(r \in queue) + Entries(r) + Bit(r \in answered)

OnceInv ==
    shorts = 0 => /\ sq = PendingSubmits /\ pc \notin {"reissue", "fatal"}
                  /\ \A r \in Requests : AllPlaces(r) = 1
OInv == IInv /\ OnceInv

LEMMA TimesIsOccurrences ==
    ASSUME NEW r, NEW s
    PROVE  Times(r, s) = Occurrences(s, {r})
<1>1. {i \in DOMAIN s : s[i] = r} = {i \in DOMAIN s : s[i] \in {r}}
  OBVIOUS
<1>2. QED  BY <1>1 DEF Times, Occurrences

LEMMA PlacesType ==
    ASSUME TypeOK, NEW r
    PROVE  /\ Occurrences(sq, {r}) \in Nat /\ Occurrences(inflight, {r}) \in Nat
           /\ Occurrences(cq, {r}) \in Nat /\ Entries(r) \in Nat
           /\ \A b \in BOOLEAN : Bit(b) \in {0, 1}
<1>1. sq \in Seq(Requests) /\ inflight \in Seq(Requests) /\ cq \in Seq(Requests)
  BY DEF TypeOK
<1>2. /\ Occurrences(sq, {r}) \in Nat /\ Occurrences(inflight, {r}) \in Nat
      /\ Occurrences(cq, {r}) \in Nat
  BY <1>1, OccurrencesType
<1>3. QED  BY <1>2 DEF Entries, Bit

\* The kernel takes no entry twice, and loses none.
LEMMA TakeKeepsEntries ==
    ASSUME TypeOK, NEW n \in Nat, NEW failed \in BOOLEAN, Take(n, failed), NEW r
    PROVE  Entries(r)' = Entries(r)
<1> DEFINE P == {r}
           rest == SubSeq(sq, n + 1, Len(sq))
<1>1. /\ n \in 0 .. Len(sq) /\ sq \in Seq(Requests) /\ inflight \in Seq(Requests)
      /\ cq \in Seq(Requests) /\ sq' = rest /\ Len(sq) \in Nat
  BY DEF Take, TypeOK
<1>2. rest \in Seq(Requests)
  BY <1>1, DropProperties
<1>3. /\ Occurrences(sq, P) \in Nat /\ Occurrences(inflight, P) \in Nat
      /\ Occurrences(cq, P) \in Nat /\ Occurrences(rest, P) \in Nat
  BY <1>1, <1>2, OccurrencesType
<1>4. CASE failed
  <2> DEFINE taken == SubSeq(sq, 1, n - 1)
             one == IF sq[n] \in P THEN 1 ELSE 0
  <2>1. n > 0 /\ inflight' = inflight \o taken /\ cq' = Append(cq, sq[n])
    BY <1>4 DEF Take
  <2>2. n - 1 \in 0 .. Len(sq) /\ n \in 1 .. Len(sq) /\ sq[n] \in Requests
    BY <1>1, <2>1
  <2>3. taken \in Seq(Requests)
    BY <1>1, <2>2, TakeProperties
  <2>4. Occurrences(sq, P) = Occurrences(RemoveAt(sq, n), P) + one
    BY <1>1, <2>2, OccurrencesRemoveAt
  <2>5. RemoveAt(sq, n) = taken \o rest
    BY DEF RemoveAt
  <2> HIDE DEF P, rest, taken, one
  <2>6. Occurrences(taken \o rest, P) = Occurrences(taken, P) + Occurrences(rest, P)
    BY <1>2, <2>3, OccurrencesConcat
  <2>7. Occurrences(inflight \o taken, P) = Occurrences(inflight, P) + Occurrences(taken, P)
    BY <1>1, <2>3, OccurrencesConcat
  <2>8. Occurrences(Append(cq, sq[n]), P) = Occurrences(cq, P) + one
    BY <1>1, <2>2, OccurrencesAppend DEF one
  <2>9. Occurrences(taken, P) \in Nat /\ one \in Nat
    BY <2>3, OccurrencesType DEF one
  <2>10. /\ Occurrences(sq', P) = Occurrences(rest, P)
         /\ Occurrences(inflight', P) = Occurrences(inflight, P) + Occurrences(taken, P)
         /\ Occurrences(cq', P) = Occurrences(cq, P) + one
         /\ Occurrences(sq, P) = Occurrences(taken, P) + Occurrences(rest, P) + one
    BY <1>1, <2>1, <2>4, <2>5, <2>6, <2>7, <2>8
  <2>11. Occurrences(sq', P) + Occurrences(inflight', P) + Occurrences(cq', P)
           = Occurrences(sq, P) + Occurrences(inflight, P) + Occurrences(cq, P)
    BY <1>3, <2>9, <2>10
  <2>12. QED  BY <2>11 DEF Entries, P
<1>5. CASE ~failed
  <2> DEFINE taken == SubSeq(sq, 1, n)
  <2>1. inflight' = inflight \o taken /\ cq' = cq
    BY <1>5 DEF Take
  <2>2. taken \in Seq(Requests)
    BY <1>1, TakeProperties
  <2>3. Occurrences(sq, P) = Occurrences(taken, P) + Occurrences(rest, P)
    BY <1>1, OccurrencesSplit
  <2> HIDE DEF P, rest, taken
  <2>4. Occurrences(inflight \o taken, P) = Occurrences(inflight, P) + Occurrences(taken, P)
    BY <1>1, <2>2, OccurrencesConcat
  <2>5. Occurrences(taken, P) \in Nat
    BY <2>2, OccurrencesType
  <2>6. Occurrences(sq', P) + Occurrences(inflight', P) + Occurrences(cq', P)
          = Occurrences(sq, P) + Occurrences(inflight, P) + Occurrences(cq, P)
    BY <1>1, <1>3, <2>1, <2>3, <2>4, <2>5
  <2>7. QED  BY <2>6 DEF Entries, P
<1>6. QED  BY <1>4, <1>5

LEMMA InitOnce == Init => OnceInv
<1> SUFFICES ASSUME Init PROVE OnceInv
  OBVIOUS
<1>1. \A r \in Requests : AllPlaces(r) = 1
  BY OccurrencesEmpty DEF Init, AllPlaces, Entries, Bit
<1>2. QED  BY <1>1 DEF Init, OnceInv

\* A submission that stays whole takes all the entries, and is not short of the batch.
LEMMA SubmitOnce ==
    ASSUME OInv,
           \E failed \in BOOLEAN :
               SubmitAll(failed) \/ \E n \in 0 .. Len(sq) : SubmitShort(n, failed)
    PROVE  OnceInv'
<1> SUFFICES ASSUME shorts' = 0
             PROVE  (/\ sq = PendingSubmits /\ pc \notin {"reissue", "fatal"}
                     /\ \A r \in Requests : AllPlaces(r) = 1)'
  BY DEF OnceInv
<1>0. TypeOK /\ shorts \in Nat /\ sq \in Seq(Requests) /\ Len(sq) \in Nat
  BY DEF OInv, IInv, TypeOK
<1>1. PICK failed \in BOOLEAN :
        SubmitAll(failed) \/ \E n \in 0 .. Len(sq) : SubmitShort(n, failed)
  OBVIOUS
<1>2. shorts' = IF sq' # <<>> THEN shorts + 1 ELSE shorts
  BY <1>1 DEF SubmitAll, SubmitShort
<1>3. sq' = <<>> /\ shorts = 0
  BY <1>0, <1>2
<1>4. sq = PendingSubmits /\ \A r \in Requests : AllPlaces(r) = 1
  BY <1>3 DEF OInv, OnceInv
<1>5. ASSUME NEW n \in 0 .. Len(sq), SubmitShort(n, failed) PROVE FALSE
  <2>1. n # Len(sq) /\ sq' = SubSeq(sq, n + 1, Len(sq))
    BY <1>4, <1>5 DEF SubmitShort, Take
  <2>2. Len(sq') = Len(sq) - n
    BY <1>0, <2>1, DropProperties
  <2>3. QED  BY <1>0, <1>3, <2>1, <2>2
<1>6. SubmitAll(failed)
  BY <1>1, <1>5
<1>7. /\ PendingSubmits' = <<>> /\ pc' = "process"
      /\ UNCHANGED <<idle, queue, answered>>
  BY <1>6 DEF SubmitAll, BatchLeft
<1>8. PICK n \in Nat, f \in BOOLEAN : Take(n, f)
  <2>1. Take(Len(PendingSubmits), failed) \/ Take(Len(sq), FALSE)
    BY <1>6 DEF SubmitAll
  <2>2. QED  BY <1>0, <1>4, <2>1
<1>9. ASSUME NEW r \in Requests PROVE AllPlaces(r)' = 1
  <2>1. Entries(r)' = Entries(r)
    BY <1>0, <1>8, TakeKeepsEntries
  <2>2. AllPlaces(r)' = AllPlaces(r)
    BY <1>7, <2>1 DEF AllPlaces
  <2>3. QED  BY <1>4, <2>2
<1>10. QED  BY <1>3, <1>7, <1>9

LEMMA OnceStep == OInv /\ [Next]_vars => OnceInv'
<1> SUFFICES ASSUME OInv, [Next]_vars PROVE OnceInv'
  OBVIOUS
<1>0. /\ TypeOK /\ OnceInv
      /\ sq \in Seq(Requests) /\ inflight \in Seq(Requests) /\ cq \in Seq(Requests)
      /\ PendingSubmits \in Seq(Requests) /\ DOMAIN inflight = 1 .. Len(inflight)
  BY LenProperties DEF OInv, IInv, TypeOK
<1>1. CASE \E r \in Requests : PushRequest(r)
  <2>1. PICK p \in Requests : PushRequest(p)
    BY <1>1
  <2>2. /\ idle' = idle \ {p} /\ queue' = queue \cup {p} /\ p \in idle
        /\ UNCHANGED <<PendingSubmits, answered, pc, sq, inflight, cq, shorts>>
    BY <2>1 DEF PushRequest
  <2>3. ASSUME NEW r \in Requests, AllPlaces(r) = 1 PROVE AllPlaces(r)' = 1
    <3>1. Entries(r)' = Entries(r) /\ Entries(r) \in Nat
      BY <1>0, <2>2, PlacesType DEF Entries
    <3>2. Bit(r \in idle') + Bit(r \in queue') = Bit(r \in idle) + Bit(r \in queue)
      <4>1. CASE r = p
        <5>1. r \in idle /\ r \notin idle' /\ r \in queue' /\ r \notin queue
          <6>1. ~(r \in idle /\ r \in queue)
            BY <2>3, <3>1 DEF AllPlaces, Bit
          <6>2. QED  BY <2>2, <4>1, <6>1
        <5>2. QED  BY <5>1 DEF Bit
      <4>2. CASE r # p
        BY <2>2, <4>2 DEF Bit
      <4>3. QED  BY <4>1, <4>2
    <3>3. QED  BY <2>2, <2>3, <3>1, <3>2 DEF AllPlaces, Bit
  <2>4. QED  BY <1>0, <2>2, <2>3 DEF OnceInv
<1>2. CASE \E r \in Requests : IssueRequest(r)
  <2>1. PICK p \in Requests : IssueRequest(p)
    BY <1>2
  <2>2. /\ p \in queue /\ queue' = queue \ {p} /\ sq' = Append(sq, p)
        /\ PendingSubmits' = Append(PendingSubmits, p) /\ pc' \in {"process", "enter"}
        /\ UNCHANGED <<idle, answered, inflight, cq, shorts>>
    BY <2>1 DEF IssueRequest
  <2>3. ASSUME NEW r \in Requests, AllPlaces(r) = 1 PROVE AllPlaces(r)' = 1
    <3>1. Occurrences(sq', {r}) = Occurrences(sq, {r}) + (IF p \in {r} THEN 1 ELSE 0)
      BY <1>0, <2>2, OccurrencesAppend
    <3>2. /\ Occurrences(sq, {r}) \in Nat /\ Occurrences(inflight, {r}) \in Nat
          /\ Occurrences(cq, {r}) \in Nat
      BY <1>0, PlacesType
    <3>3. Entries(r)' = Entries(r) + Bit(r = p) /\ Entries(r) \in Nat
      BY <2>2, <3>1, <3>2 DEF Entries, Bit
    <3>4. Bit(r \in queue') + Bit(r = p) = Bit(r \in queue)
      BY <2>2 DEF Bit
    <3>5. QED  BY <2>2, <2>3, <3>3, <3>4 DEF AllPlaces, Bit
  <2>4. QED
    <3>1. shorts = 0 => sq' = PendingSubmits' /\ pc' \notin {"reissue", "fatal"}
      BY <1>0, <2>2 DEF OnceInv
    <3>2. QED  BY <1>0, <2>2, <2>3, <3>1 DEF OnceInv
<1>3. CASE NoNextRequest \/ NothingToWaitFor \/ Loop
  <2>1. /\ pc' \in {"wait", "enter", "loop", "next"}
        /\ UNCHANGED <<idle, queue, PendingSubmits, answered, sq, inflight, cq, shorts>>
    BY <1>3 DEF NoNextRequest, NothingToWaitFor, Loop
  <2>2. QED  BY <1>0, <2>1 DEF OnceInv, AllPlaces, Entries
<1>4. CASE \E failed \in BOOLEAN :
             SubmitAll(failed) \/ \E n \in 0 .. Len(sq) : SubmitShort(n, failed)
  BY <1>4, SubmitOnce
<1>5. CASE Reissue
  BY <1>0, <1>5 DEF Reissue, OnceInv
<1>6. CASE ProcessCompletedRequests
  <2>1. /\ answered' = answered \cup ToSet(cq) /\ cq' = <<>>
        /\ UNCHANGED <<idle, queue, PendingSubmits, sq, inflight, shorts>>
    BY <1>6 DEF ProcessCompletedRequests
  <2>2. pc' \notin {"reissue", "fatal"}
    BY <1>0, <1>6 DEF ProcessCompletedRequests, AfterProcess, TypeOK
  <2>3. ASSUME NEW r \in Requests, AllPlaces(r) = 1 PROVE AllPlaces(r)' = 1
    <3>1. Occurrences(cq', {r}) = 0
      BY <2>1, OccurrencesEmpty
    <3>2. r \in ToSet(cq) <=> Occurrences(cq, {r}) # 0
      <4>1. Occurrences(cq, {r}) = 0 <=> \A i \in DOMAIN cq : cq[i] \notin {r}
        BY <1>0, OccurrencesType
      <4>2. QED  BY <4>1 DEF ToSet
    <3>3. /\ Occurrences(sq, {r}) \in Nat /\ Occurrences(inflight, {r}) \in Nat
          /\ Occurrences(cq, {r}) \in Nat
      BY <1>0, PlacesType
    <3>4. Entries(r)' + Occurrences(cq, {r}) = Entries(r)
      BY <2>1, <3>1, <3>3 DEF Entries
    <3>5. Bit(r \in answered') = Bit(r \in answered) + Occurrences(cq, {r})
      <4>1. Occurrences(cq, {r}) + Bit(r \in answered) <= 1
        BY <2>3, <3>3 DEF AllPlaces, Entries, Bit
      <4>2. CASE r \in ToSet(cq)
        <5>1. Occurrences(cq, {r}) = 1 /\ r \notin answered
          BY <3>2, <3>3, <4>1, <4>2 DEF Bit
        <5>2. QED  BY <2>1, <4>2, <5>1 DEF Bit
      <4>3. CASE r \notin ToSet(cq)
        BY <2>1, <3>2, <4>3 DEF Bit
      <4>4. QED  BY <4>2, <4>3
    <3>6. Entries(r)' \in Nat
      BY <2>1, <3>1, <3>3 DEF Entries
    <3>7. QED  BY <2>1, <2>3, <3>3, <3>4, <3>5, <3>6 DEF AllPlaces, Bit
  <2>4. QED  BY <1>0, <2>1, <2>2, <2>3 DEF OnceInv
<1>7. CASE WaitCqe
  <2>1. /\ cq # <<>> /\ answered' = answered \cup {Head(cq)} /\ cq' = Tail(cq)
        /\ pc' = "process"
        /\ UNCHANGED <<idle, queue, PendingSubmits, sq, inflight, shorts>>
    BY <1>7 DEF WaitCqe
  <2>2. cq' \in Seq(Requests)
    BY <1>0, <2>1
  <2>3. ASSUME NEW r \in Requests, AllPlaces(r) = 1 PROVE AllPlaces(r)' = 1
    <3>1. Occurrences(cq, {r}) = Occurrences(cq', {r}) + (IF Head(cq) \in {r} THEN 1 ELSE 0)
      BY <1>0, <2>1, OccurrencesTail
    <3>2. Occurrences(cq', {r}) \in Nat
      BY <2>2, OccurrencesType
    <3>3. Occurrences(sq, {r}) \in Nat /\ Occurrences(inflight, {r}) \in Nat
      BY <1>0, PlacesType
    <3>4. Entries(r) = Entries(r)' + Bit(r = Head(cq)) /\ Entries(r)' \in Nat
      BY <2>1, <3>1, <3>2, <3>3 DEF Entries, Bit
    <3>5. Bit(r \in answered') = Bit(r \in answered) + Bit(r = Head(cq))
      <4>1. ~(r = Head(cq) /\ r \in answered)
        BY <2>3, <3>4 DEF AllPlaces, Bit
      <4>2. QED  BY <2>1, <4>1 DEF Bit
    <3>6. QED  BY <2>1, <2>3, <3>4, <3>5 DEF AllPlaces, Bit
  <2>4. QED  BY <1>0, <2>1, <2>3 DEF OnceInv
<1>8. CASE Kernel
  <2>1. PICK i \in DOMAIN inflight : Complete(i)
    BY <1>8 DEF Kernel
  <2>2. /\ i \in 1 .. Len(inflight) /\ inflight[i] \in Requests
        /\ inflight' = RemoveAt(inflight, i) /\ cq' = Append(cq, inflight[i])
        /\ UNCHANGED <<idle, queue, PendingSubmits, answered, pc, sq, shorts>>
    BY <1>0, <2>1, ElementOfSeq DEF Complete
  <2>3. inflight' \in Seq(Requests)
    BY <1>0, <2>2, RemoveAtProperties
  <2>4. ASSUME NEW r \in Requests, AllPlaces(r) = 1 PROVE AllPlaces(r)' = 1
    <3>1. Occurrences(cq', {r}) =
            Occurrences(cq, {r}) + (IF inflight[i] \in {r} THEN 1 ELSE 0)
      BY <1>0, <2>2, OccurrencesAppend
    <3>2. Occurrences(inflight, {r}) =
            Occurrences(inflight', {r}) + (IF inflight[i] \in {r} THEN 1 ELSE 0)
      BY <1>0, <2>2, OccurrencesRemoveAt
    <3>3. Occurrences(inflight', {r}) \in Nat
      BY <2>3, OccurrencesType
    <3>4. Entries(r)' = Entries(r)
      <4>1. Occurrences(sq, {r}) \in Nat /\ Occurrences(cq, {r}) \in Nat
        BY <1>0, PlacesType
      <4> DEFINE one == IF inflight[i] \in {r} THEN 1 ELSE 0
      <4>2. /\ one \in Nat /\ Occurrences(cq', {r}) = Occurrences(cq, {r}) + one
            /\ Occurrences(inflight, {r}) = Occurrences(inflight', {r}) + one
        BY <3>1, <3>2
      <4> HIDE DEF one
      <4>3. QED  BY <2>2, <3>3, <4>1, <4>2 DEF Entries
    <3>5. AllPlaces(r)' = AllPlaces(r)
      BY <2>2, <3>4 DEF AllPlaces
    <3>6. QED  BY <2>4, <3>5
  <2>5. QED  BY <1>0, <2>2, <2>4 DEF OnceInv
<1>9. CASE UNCHANGED vars
  BY <1>0, <1>9 DEF vars, OnceInv, AllPlaces, Entries
<1>10. QED
  BY <1>1, <1>2, <1>3, <1>4, <1>5, <1>6, <1>7, <1>8, <1>9 DEF Next, Service

\* While the kernel takes every batch whole, no request has two entries, none is read
\* again once it was answered, and SubmitRequest does not fail.
THEOREM ReadOnceUnlessShort == Spec => []OnceUnlessShort
<1>1. OInv => OnceUnlessShort
  <2> SUFFICES ASSUME OInv, shorts = 0
               PROVE  pc # "fatal" /\ \A r \in Requests : Places(r) <= 1
    BY DEF OnceUnlessShort
  <2>1. TypeOK /\ pc # "fatal" /\ \A r \in Requests : AllPlaces(r) = 1
    BY DEF OInv, IInv, OnceInv
  <2>2. ASSUME NEW r \in Requests PROVE Places(r) <= 1
    <3>1. Places(r) = Entries(r) + Bit(r \in answered)
      BY TimesIsOccurrences DEF Places, Entries
    <3>2. AllPlaces(r) = 1
      BY <2>1
    <3>3. Entries(r) \in Nat /\ \A b \in BOOLEAN : Bit(b) \in {0, 1}
      BY <2>1, PlacesType
    <3>4. Bit(r \in idle) \in Nat /\ Bit(r \in queue) \in Nat /\ Bit(r \in answered) \in Nat
      BY DEF Bit
    <3>5. QED  BY <3>1, <3>2, <3>3, <3>4 DEF AllPlaces
  <2>3. QED  BY <2>1, <2>2
<1>2. Init => OInv
  BY InitIInv, InitOnce DEF OInv
<1>3. OInv /\ [Next]_vars => OInv'
  BY IInvStep, OnceStep DEF OInv
<1>4. QED
  BY <1>1, <1>2, <1>3, PTL DEF Spec
=============================================================================
