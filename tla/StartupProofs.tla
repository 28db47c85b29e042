---------------------------- MODULE StartupProofs ----------------------------
(***************************************************************************)
(* Whatever kernels there are, and whatever the options, the plugin's      *)
(* flags say what its ring is, buffers are registered only where locked    *)
(* memory suffices, and descriptors and mappings belong to whoever made    *)
(* them.                                                                   *)
(***************************************************************************)
EXTENDS Startup, SequenceTheorems, WellFoundedInduction, TLAPS

-----------------------------------------------------------------------------
(* The inductive invariant                                                   *)

Before == {"off", "declined"}
Trying == {"try", "plain"}
Granted == {"check", "files", "increase", "workers", "buffers", "ready"}
Ended == {"destroy", "fatal", "gone"}

\* A struct io_uring has its fields, whatever is in them.
IsRing(r) ==
    r = [ring_fd |-> r.ring_fd, flags |-> r.flags, pointers |-> r.pointers,
         REG_RING |-> r.REG_RING, REG_REG_RING |-> r.REG_REG_RING]

SetupTypeOK ==
    /\ pc \in Before \cup Trying \cup Granted \cup {"running"} \cup Ended
    /\ memlock \in Nat /\ attempt \in Nat \ {0} /\ IsRing(ring)

\* The flags of the attempt under way are those the plugin will believe in.
FlagsTellAttempt ==
    pc \in Trying =>
        /\ "SubmitAll" \in Flags <=> "SUBMIT_ALL" \in params
        /\ "EnableRing" \in Flags <=> "R_DISABLED" \in params

\* From the successful attempt on, SubmitAll is what the ring has.
FlagsTellRing ==
    pc \in Granted \cup {"running"} =>
        ("SubmitAll" \in Flags <=> "SUBMIT_ALL" \in ring.flags)

\* A ring that has been granted is disabled exactly until the service runs.
EnabledWhenNeeded ==
    /\ pc \in Granted => ("EnableRing" \in Flags <=> ~enabled)
    /\ pc = "running" => enabled

\* Registered buffers were measured with the largest blocks.
BuffersMeasured ==
    pc \in {"ready", "running"} /\ "RegisterBuffers" \in Flags => NeededMemory <= memlock

IInv ==
    /\ SetupTypeOK /\ FlagsTellAttempt /\ FlagsTellRing /\ EnabledWhenNeeded
    /\ BuffersMeasured

-----------------------------------------------------------------------------
(* What the steps have in common                                             *)

\* Initially no dispatcher has been asked for.
LEMMA InitInv == Init => IInv
<1> SUFFICES ASSUME Init PROVE IInv
    OBVIOUS
<1>1. pc = "off" /\ memlock \in Nat /\ attempt = 1 /\ ring = ZeroRing
    BY MemoryAssumption DEF Init, RingInit
<1>2. IsRing(ring)
    BY <1>1 DEF IsRing, ZeroRing
<1> QED
    BY <1>1, <1>2
    DEF IInv, SetupTypeOK, FlagsTellAttempt, FlagsTellRing, EnabledWhenNeeded,
        BuffersMeasured, Before, Trying, Granted, Ended

\* The options of CreatePlatformFileIoStore: the flags asked of the kernel are the
\* ones the plugin believes in, with a polling thread and without.
LEMMA OptionsTell ==
    ASSUME NEW cvars \in SUBSET Optional, NEW pollQueues \in BOOLEAN,
           NEW multithreaded \in BOOLEAN,
           NEW flags, flags = RingFlags(AddFlags(cvars, pollQueues), multithreaded)
    PROVE  /\ "SubmitAll" \in flags /\ "SUBMIT_ALL" \in Requested(flags)
           /\ "EnableRing" \in flags <=> "R_DISABLED" \in Requested(flags)
<1> DEFINE added == AddFlags(cvars, pollQueues)
<1>1. "SubmitAll" \in added /\ "EnableRing" \in added
    BY DEF AddFlags, Default
<1> HIDE DEF added
<1>2. CASE "SQPoll" \in flags
  <2>1. flags = added \ {"RegisterRing", "EnableRing"}
      BY <1>2 DEF RingFlags, added
  <2> QED
      BY <1>1, <1>2, <2>1 DEF Requested
<1>3. CASE "SQPoll" \notin flags
  <2>1. "SubmitAll" \in flags /\ "EnableRing" \in flags
      BY <1>1, <1>3 DEF RingFlags, added
  <2> QED
      BY <1>3, <2>1 DEF Requested
<1> QED
    BY <1>2, <1>3

\* What an attempt does without, the plugin does without too.
LEMMA NextAttemptTells ==
    ASSUME NEW flags, flags \in {params, params \cup {"NO_SQARRAY"}},
           pc \in Trying, FlagsTellAttempt, attempt \in Nat \ {0}, NextAttempt(flags)
    PROVE  pc' \in {"try", "destroy"} /\ FlagsTellAttempt' /\ attempt' \in Nat \ {0}
<1>1. CASE attempt <= Len(Drops)
  <2> DEFINE dropped == Drops[attempt]
  <2>1. dropped \in {"DEFER_TASKRUN", "SINGLE_ISSUER", "COOP_TASKRUN", "SUBMIT_ALL"}
    <3>1. CASE "SQPoll" \in Flags
        BY <1>1, <3>1 DEF Drops
    <3>2. CASE "SQPoll" \notin Flags
        BY <1>1, <3>2 DEF Drops
    <3> QED
        BY <3>1, <3>2
  <2>2. /\ pc' = "try" /\ params' = flags \ {dropped} /\ Flags' = FlagsWithout(dropped)
        /\ attempt' = attempt + 1
      BY <1>1 DEF NextAttempt
  <2> HIDE DEF dropped
  <2>3. "SUBMIT_ALL" \in flags <=> "SubmitAll" \in Flags
      BY DEF FlagsTellAttempt
  <2>4. "R_DISABLED" \in flags <=> "EnableRing" \in Flags
      BY DEF FlagsTellAttempt
  <2> QED
      BY <2>1, <2>2, <2>3, <2>4 DEF FlagsTellAttempt, FlagsWithout
<1>2. CASE ~(attempt <= Len(Drops))
    BY <1>2 DEF NextAttempt, FlagsTellAttempt, Trying
<1> QED
    BY <1>1, <1>2

\* io_uring_queue_init gives a ring with the flags it was called with, or none.
LEMMA QueueInitTells ==
    ASSUME NEW flags, NEW outcome, QueueInit(flags, outcome)
    PROVE  /\ IsRing(ring') /\ UNCHANGED memlock
           /\ outcome = "ok" => ring'.flags = flags
                                /\ (enabled' <=> "R_DISABLED" \notin flags)
<1>1. CASE outcome = "ok"
  <2>1. ring' = [ring_fd |-> LowestFree, flags |-> flags, pointers |-> Areas,
                 REG_RING |-> FALSE, REG_REG_RING |-> FALSE]
        /\ enabled' = ("R_DISABLED" \notin flags)
      BY <1>1 DEF QueueInit
  <2> QED
      BY <2>1 DEF QueueInit, IsRing
<1>2. CASE outcome # "ok"
    BY <1>2 DEF QueueInit, IsRing, ZeroRing
<1> QED
    BY <1>1, <1>2

-----------------------------------------------------------------------------
(* The steps                                                                 *)

\* A step that gives the dispatcher up, or has it wait for nothing more.
LEMMA EndedInv ==
    ASSUME IInv, pc' \in Ended, IsRing(ring'), UNCHANGED <<memlock, attempt>>
    PROVE  IInv'
    BY DEF IInv, SetupTypeOK, FlagsTellAttempt, FlagsTellRing, EnabledWhenNeeded,
           BuffersMeasured, Before, Trying, Granted, Ended

\* A step from one check of what was granted to the next.
LEMMA CheckInv ==
    ASSUME IInv, pc \in Granted, pc' \in Granted \ {"ready"},
           UNCHANGED <<Flags, memlock, attempt, ring, enabled>>
    PROVE  IInv'
    BY DEF IInv, SetupTypeOK, FlagsTellAttempt, FlagsTellRing, EnabledWhenNeeded,
           BuffersMeasured, Before, Trying, Granted, Ended

\* A successful attempt.
LEMMA GrantedInv ==
    ASSUME IInv, pc \in Trying, pc' = "check", IsRing(ring'),
           UNCHANGED <<Flags, params, memlock, attempt>>,
           "SUBMIT_ALL" \in ring'.flags <=> "SUBMIT_ALL" \in params,
           enabled' <=> "R_DISABLED" \notin params
    PROVE  IInv'
    BY DEF IInv, SetupTypeOK, FlagsTellAttempt, FlagsTellRing, EnabledWhenNeeded,
           BuffersMeasured, Before, Trying, Granted, Ended

\* A failed one.
LEMMA RefusedInv ==
    ASSUME IInv, pc \in Trying, pc' \in {"try", "plain", "destroy"}, IsRing(ring'),
           FlagsTellAttempt', attempt' \in Nat \ {0}, UNCHANGED memlock
    PROVE  IInv'
    BY DEF IInv, SetupTypeOK, FlagsTellRing, EnabledWhenNeeded,
           BuffersMeasured, Before, Trying, Granted, Ended

LEMMA CreateInv ==
    ASSUME IInv, NEW cvars \in SUBSET Optional, NEW pollQueues \in BOOLEAN,
           NEW multithreaded \in BOOLEAN,
           CreatePlatformFileIoStore(cvars, pollQueues, multithreaded)
    PROVE  IInv'
<1> DEFINE flags == RingFlags(AddFlags(cvars, pollQueues), multithreaded)
<1>1. Create(flags)
    BY DEF CreatePlatformFileIoStore
<1>2. /\ "SubmitAll" \in flags /\ "SUBMIT_ALL" \in Requested(flags)
      /\ "EnableRing" \in flags <=> "R_DISABLED" \in Requested(flags)
    BY OptionsTell
<1> HIDE DEF flags
<1> QED
    BY <1>1, <1>2
    DEF Create, IInv, SetupTypeOK, FlagsTellAttempt, FlagsTellRing, EnabledWhenNeeded,
        BuffersMeasured, Before, Trying, Granted, Ended

LEMMA TryInv ==
    ASSUME IInv, NEW outcome, TryNoSqarray(outcome)
    PROVE  IInv'
<1> DEFINE flags == params \cup {"NO_SQARRAY"}
<1>1. pc = "try" /\ QueueInit(flags, outcome)
    BY DEF TryNoSqarray
<1>2. /\ IsRing(ring') /\ UNCHANGED memlock
      /\ outcome = "ok" => ring'.flags = flags /\ (enabled' <=> "R_DISABLED" \notin flags)
    BY <1>1, QueueInitTells
<1>3. /\ "SUBMIT_ALL" \in flags <=> "SUBMIT_ALL" \in params
      /\ "R_DISABLED" \in flags <=> "R_DISABLED" \in params
    OBVIOUS
<1>4. CASE outcome = "ok"
  <2>1. pc' = "check" /\ UNCHANGED <<params, Flags, attempt>>
      BY <1>4 DEF TryNoSqarray
  <2> QED
      BY <1>1, <1>2, <1>3, <1>4, <2>1, GrantedInv DEF Trying
<1>5. CASE outcome # "ok" /\ outcome = "EINVAL" /\ "NO_SQARRAY" \notin params
  <2>1. pc' = "plain" /\ UNCHANGED <<params, Flags, attempt>>
      BY <1>5 DEF TryNoSqarray
  <2>2. FlagsTellAttempt' /\ attempt' \in Nat \ {0}
      BY <1>1, <2>1 DEF IInv, SetupTypeOK, FlagsTellAttempt, Trying
  <2> QED
      BY <1>1, <1>2, <2>1, <2>2, RefusedInv DEF Trying
<1>6. CASE outcome # "ok" /\ ~(outcome = "EINVAL" /\ "NO_SQARRAY" \notin params)
  <2>1. NextAttempt(flags)
      BY <1>6 DEF TryNoSqarray
  <2>2. pc \in Trying /\ FlagsTellAttempt /\ attempt \in Nat \ {0}
      BY <1>1 DEF IInv, SetupTypeOK, Trying
  <2> HIDE DEF flags
  <2>3. flags \in {params, params \cup {"NO_SQARRAY"}}
      BY DEF flags
  <2>4. pc' \in {"try", "destroy"} /\ FlagsTellAttempt' /\ attempt' \in Nat \ {0}
      BY <2>1, <2>2, <2>3, NextAttemptTells
  <2> QED
      BY <1>2, <2>2, <2>4, RefusedInv
<1> QED
    BY <1>4, <1>5, <1>6

LEMMA PlainInv ==
    ASSUME IInv, NEW outcome, TryPlain(outcome)
    PROVE  IInv'
<1>1. pc = "plain" /\ QueueInit(params, outcome)
    BY DEF TryPlain
<1>2. /\ IsRing(ring') /\ UNCHANGED memlock
      /\ outcome = "ok" => ring'.flags = params /\ (enabled' <=> "R_DISABLED" \notin params)
    BY <1>1, QueueInitTells
<1>3. CASE outcome = "ok"
  <2>1. pc' = "check" /\ UNCHANGED <<params, Flags, attempt>>
      BY <1>3 DEF TryPlain
  <2> QED
      BY <1>1, <1>2, <1>3, <2>1, GrantedInv DEF Trying
<1>4. CASE outcome # "ok"
  <2>1. NextAttempt(params)
      BY <1>4 DEF TryPlain
  <2>2. pc \in Trying /\ FlagsTellAttempt /\ attempt \in Nat \ {0}
      BY <1>1 DEF IInv, SetupTypeOK, Trying
  <2>3. pc' \in {"try", "destroy"} /\ FlagsTellAttempt' /\ attempt' \in Nat \ {0}
      BY <2>1, <2>2, NextAttemptTells
  <2> QED
      BY <1>2, <2>2, <2>3, RefusedInv
<1> QED
    BY <1>3, <1>4

\* CheckFeatures, RegisterFiles, IncreaseLimit and LimitWorkers.
LEMMA ChecksInv ==
    ASSUME IInv,
           \/ CheckFeatures \/ IncreaseLimit \/ LimitWorkers
           \/ \E result \in {"ok", "EMFILE", "other"} : RegisterFiles(result)
    PROVE  IInv'
<1>1. /\ pc \in Granted /\ pc' \in (Granted \ {"ready"}) \cup {"destroy"}
      /\ UNCHANGED <<Flags, memlock, attempt, ring, enabled>>
  <2>1. CASE CheckFeatures
      BY <2>1 DEF CheckFeatures, VerifySafe, Granted
  <2>2. CASE IncreaseLimit
      BY <2>2 DEF IncreaseLimit, Granted
  <2>3. CASE LimitWorkers
      BY <2>3 DEF LimitWorkers, Granted
  <2>4. CASE \E result \in {"ok", "EMFILE", "other"} : RegisterFiles(result)
      BY <2>4 DEF RegisterFiles, VerifySafe, Granted
  <2> QED
      BY <2>1, <2>2, <2>3, <2>4
<1>2. IsRing(ring')
    BY <1>1 DEF IInv, SetupTypeOK, IsRing
<1>3. CASE pc' = "destroy"
    BY <1>1, <1>2, <1>3, EndedInv DEF Ended
<1>4. CASE pc' \in Granted \ {"ready"}
    BY <1>1, <1>4, CheckInv
<1> QED
    BY <1>1, <1>3, <1>4

LEMMA SizeBuffersInv ==
    ASSUME IInv, SizeBuffers
    PROVE  IInv'
<1>1. /\ pc = "buffers" /\ pc' = "ready"
      /\ UNCHANGED <<memlock, attempt, ring, enabled>>
      /\ Flags' = IF memlock < NeededMemory THEN Flags \ {"RegisterBuffers"} ELSE Flags
    BY DEF SizeBuffers
<1>2. \A flag \in {"SubmitAll", "EnableRing", "DirectIO", "NvmeDirect"} :
         flag \in Flags' <=> flag \in Flags
    BY <1>1
<1>3. NeededMemory' = NeededMemory
  <2>1. (Flags' \cap {"DirectIO", "NvmeDirect"} = {}) <=>
            (Flags \cap {"DirectIO", "NvmeDirect"} = {})
      BY <1>2
  <2> QED
      BY <2>1 DEF NeededMemory
<1>4. NeededMemory \in Int
    BY MemoryAssumption DEF NeededMemory, ActualBufferSize
<1>5. "RegisterBuffers" \in Flags' => NeededMemory' <= memlock'
    BY <1>1, <1>3, <1>4 DEF IInv, SetupTypeOK
<1> QED
    BY <1>1, <1>2, <1>5
    DEF IInv, SetupTypeOK, FlagsTellAttempt, FlagsTellRing, EnabledWhenNeeded,
        BuffersMeasured, Before, Trying, Granted, Ended, IsRing

LEMMA EnableRingInv ==
    ASSUME IInv, NEW registered, EnableRing(registered)
    PROVE  IInv'
<1>1. /\ pc = "ready" /\ pc' = IF "EnableRing" \in Flags => ~enabled THEN "running" ELSE "fatal"
      /\ enabled' = (enabled \/ "EnableRing" \in Flags)
      /\ Flags' = Flags \ {"EnableRing", "RegisterRing"}
      /\ UNCHANGED <<memlock, attempt>>
    BY DEF EnableRing, Verify
<1>2. IsRing(ring') /\ ring'.flags = ring.flags
  <2>1. PICK ok : ring' = [ring EXCEPT !.REG_RING = ok,
                                       !.REG_REG_RING = ok /\ "REG_REG_RING" \in kernel]
      BY DEF EnableRing, RegisterRingFd
  <2>2. IsRing(ring)
      BY DEF IInv, SetupTypeOK
  <2> QED
      BY <2>1, <2>2 DEF IsRing
<1>3. "EnableRing" \in Flags <=> ~enabled
    BY <1>1 DEF IInv, EnabledWhenNeeded, Granted
<1>4. pc' = "running" /\ enabled'
    BY <1>1, <1>3
<1>5. \A flag \in {"SubmitAll", "RegisterBuffers", "DirectIO", "NvmeDirect"} :
         flag \in Flags' <=> flag \in Flags
    BY <1>1
<1>6. NeededMemory' = NeededMemory
  <2>1. (Flags' \cap {"DirectIO", "NvmeDirect"} = {}) <=>
            (Flags \cap {"DirectIO", "NvmeDirect"} = {})
      BY <1>5
  <2> QED
      BY <2>1 DEF NeededMemory
<1> QED
    BY <1>1, <1>2, <1>4, <1>5, <1>6
    DEF IInv, SetupTypeOK, FlagsTellAttempt, FlagsTellRing, EnabledWhenNeeded,
        BuffersMeasured, Before, Trying, Granted, Ended

LEMMA DestroyInv ==
    ASSUME IInv, NEW unregistered, Destroy(unregistered)
    PROVE  IInv'
<1>1. pc' = "gone" /\ UNCHANGED <<memlock, attempt>>
    BY DEF Destroy
<1>2. IsRing(ring')
  <2>1. IsRing(ring)
      BY DEF IInv, SetupTypeOK
  <2>2. ring' = [ring EXCEPT !.REG_RING = FALSE, !.REG_REG_RING = FALSE] \/ ring' = ring
      BY DEF Destroy, QueueExit, UnregisterRingFd
  <2> QED
      BY <2>1, <2>2 DEF IsRing
<1> QED
    BY <1>1, <1>2, EndedInv DEF Ended

\* Handles and devices leave the ring and its flags alone.
LEMMA UnchangedInv ==
    ASSUME IInv, UNCHANGED ringVars
    PROVE  IInv'
    BY DEF ringVars, IInv, SetupTypeOK, FlagsTellAttempt, FlagsTellRing, EnabledWhenNeeded,
           BuffersMeasured, NeededMemory, IsRing

LEMMA NextInv == IInv /\ [Next]_vars => IInv'
<1> SUFFICES ASSUME IInv, [Next]_vars PROVE IInv'
    OBVIOUS
<1>1. CASE RingNext
  <2>1. CASE \E cvars \in SUBSET Optional, pollQueues, multithreaded \in BOOLEAN :
                CreatePlatformFileIoStore(cvars, pollQueues, multithreaded)
      BY <2>1, CreateInv
  <2>2. CASE NoPlatformFileIoStore
      BY <2>2
      DEF NoPlatformFileIoStore, IInv, SetupTypeOK, FlagsTellAttempt, FlagsTellRing,
          EnabledWhenNeeded, BuffersMeasured, Before, Trying, Granted, Ended, IsRing
  <2>3. CASE \E outcome \in {"ok", "EINVAL", "ENOMEM", "rings", "cq", "sqes"} :
                TryNoSqarray(outcome) \/ TryPlain(outcome)
      BY <2>3, TryInv, PlainInv
  <2>4. CASE \/ CheckFeatures \/ IncreaseLimit \/ LimitWorkers
             \/ \E result \in {"ok", "EMFILE", "other"} : RegisterFiles(result)
      BY <2>4, ChecksInv
  <2>5. CASE SizeBuffers
      BY <2>5, SizeBuffersInv
  <2>6. CASE \E registered \in BOOLEAN : EnableRing(registered) \/ Destroy(registered)
      BY <2>6, EnableRingInv, DestroyInv
  <2> QED
      BY <1>1, <2>1, <2>2, <2>3, <2>4, <2>5, <2>6 DEF RingNext
<1>2. CASE UNCHANGED ringVars
    BY <1>2, UnchangedInv
<1> QED
    BY <1>1, <1>2 DEF Next, vars

LEMMA Invariance == Spec => []IInv
<1>1. Init => IInv
    BY InitInv
<1>2. IInv /\ [Next]_vars => IInv'
    BY NextInv
<1> QED
    BY <1>1, <1>2, PTL DEF Spec

-----------------------------------------------------------------------------
(* The theorems                                                              *)

\* SUBMIT_ALL is believed in exactly when it was granted, a ring is enabled exactly
\* when it was created disabled, and the service submits to an enabled ring.
THEOREM FlagsAlwaysTellTruth == Spec => []FlagsTellTruth
<1>1. IInv => FlagsTellTruth
    BY DEF IInv, FlagsTellRing, EnabledWhenNeeded, FlagsTellTruth, Granted
<1> QED
    BY <1>1, Invariance, PTL

\* A buffer aligned for smaller blocks is no longer than one aligned for the largest.
LEMMA SmallerBlocksNeedLess ==
    ASSUME NEW block \in BlockSizes
    PROVE  /\ ActualBufferSize(block) \in Nat
           /\ ActualBufferSize(block) <= ActualBufferSize(MaximumBlockSize)
<1> DEFINE m == MaximumBlockSize
           k == m \div block
<1>1. block \in Nat \ {0} /\ m \in Nat \ {0} /\ ReadBufferSize \in Nat /\ m % block = 0
    BY MemoryAssumption DEF BlockSizes
<1>2. \A x \in Nat, b \in Nat \ {0} :
         /\ ((x + b - 1) \div b) * b \in Nat
         /\ x <= ((x + b - 1) \div b) * b
         /\ ((x + b - 1) \div b) * b <= x + b - 1
    BY Z3
<1>3. block = m \/ 2 * block <= m
  <2>1. \A x, b \in Nat \ {0} : x % b = 0 => x = b * (x \div b) /\ x \div b \in Nat \ {0}
      BY Z3
  <2>2. m = block * k /\ k \in Nat \ {0}
      BY <1>1, <2>1
  <2>3. \A b, j \in Nat \ {0} : j = 1 \/ 2 * b <= b * j
      BY Z3
  <2> QED
      BY <1>1, <2>2, <2>3
<1>4. CASE block = m
  <2>1. ReadBufferSize + 2 * m \in Nat
      BY <1>1
  <2>2. ActualBufferSize(m) \in Nat
      BY <1>1, <1>2, <2>1 DEF ActualBufferSize
  <2> QED
      BY <1>4, <2>2
<1>5. CASE 2 * block <= m
  <2> DEFINE less == ActualBufferSize(block)
             most == ActualBufferSize(m)
  <2>1. less \in Nat /\ less <= ReadBufferSize + 2 * block + block - 1
      BY <1>1, <1>2, ReadBufferSize + 2 * block \in Nat DEF ActualBufferSize
  <2>2. most \in Nat /\ ReadBufferSize + 2 * m <= most
      BY <1>1, <1>2, ReadBufferSize + 2 * m \in Nat DEF ActualBufferSize
  <2> HIDE DEF less, most
  <2>3. less <= most
      BY <1>1, <1>5, <2>1, <2>2
  <2> QED
      BY <2>1, <2>3 DEF less, most
<1> QED
    BY <1>3, <1>4, <1>5

\* No block size that the files turn out to need makes the registered buffers too
\* large for the limit that they were measured against before any file was open.
THEOREM RegisteredBuffersFit == Spec => []BuffersFitMemlock
<1>1. IInv => BuffersFitMemlock
  <2> SUFFICES ASSUME IInv, pc \in {"ready", "running"}, "RegisterBuffers" \in Flags,
                      NEW block \in BlockSizes
               PROVE  BufferCount * (IF Flags \cap {"DirectIO", "NvmeDirect"} = {}
                                       THEN ReadBufferSize
                                       ELSE ActualBufferSize(block)) <= memlock
      BY DEF BuffersFitMemlock
  <2>1. NeededMemory <= memlock /\ memlock \in Nat
      BY DEF IInv, SetupTypeOK, BuffersMeasured
  <2>2. CASE Flags \cap {"DirectIO", "NvmeDirect"} = {}
      BY <2>1, <2>2 DEF NeededMemory
  <2>3. CASE Flags \cap {"DirectIO", "NvmeDirect"} # {}
    <3> DEFINE less == ActualBufferSize(block)
               most == ActualBufferSize(MaximumBlockSize)
    <3>1. less \in Nat /\ less <= most
        BY SmallerBlocksNeedLess
    <3>2. MaximumBlockSize \in BlockSizes
        BY MemoryAssumption, Z3 DEF BlockSizes
    <3>3. most \in Nat
        BY <3>2, SmallerBlocksNeedLess
    <3>4. BufferCount * most <= memlock
        BY <2>1, <2>3 DEF NeededMemory
    <3> HIDE DEF less, most
    <3>5. \A n, x, y \in Nat : x <= y => n * x <= n * y
        BY Z3
    <3>6. BufferCount \in Nat
        BY MemoryAssumption
    <3>7. BufferCount * less <= memlock
        BY <2>1, <3>1, <3>3, <3>4, <3>5, <3>6
    <3> QED
        BY <2>3, <3>7 DEF less
  <2> QED
      BY <2>2, <2>3
<1> QED
    BY <1>1, Invariance, PTL

-----------------------------------------------------------------------------
(* Who owns what.  The ring's descriptor is open from the successful attempt  *)
(* until the dispatcher is gone; a file's while a thread has a step to take   *)
(* with it; the device's while there is a device.                             *)

Owners == Files \cup {"process", "ring", "device", None}

OwnersTypeOK ==
    /\ fds \in [Fds -> Owners]
    /\ State \in [Files -> {"Deleted", "Opened", "Closed", "Fixed"}]
    /\ Fd \in [Files -> Fds \cup Slots \cup {-1}]
    /\ step \in [Files -> {"none", "create", "mount", "service"}]
    /\ device \in {"none", "opened", "new", "rejected", "registered"}

NoRing == ~created /\ mapped = {} /\ \A d \in Fds : fds[d] # "ring"
HasRing ==
    /\ created /\ mapped = ring.pointers
    /\ ring.ring_fd \in Fds /\ fds[ring.ring_fd] = "ring"
    /\ \A d \in Fds : fds[d] = "ring" => d = ring.ring_fd

RingOwned ==
    /\ pc \in Before \cup Trying => NoRing
    /\ pc \in Granted \cup {"running", "fatal"} => HasRing
    /\ pc = "destroy" => NoRing \/ HasRing
    /\ pc = "gone" => mapped = {} /\ \A d \in Fds : fds[d] # "ring"
    /\ closedForOthers # {} \/ unmappedTwice => pc = "gone" /\ ~created

\* Files and the device are opened only while the dispatcher runs.
Quiet == device = "none" /\ \A f \in Files : step[f] = "none"
QuietWhenNotRunning == pc \notin {"ready", "running", "fatal"} => Quiet

FilesOwned ==
    \A f \in Files :
       /\ step[f] # "none" => Fd[f] \in Fds /\ fds[Fd[f]] = f
       /\ \A d \in Fds : fds[d] = f => d \in leaked \/ (Fd[f] = d /\ step[f] # "none")
       /\ State[f] = "Opened" <=> step[f] \in {"mount", "service"}
       /\ step[f] = "create" => State[f] = "Deleted"
       /\ step[f] = "service" /\ "NvmeDirect" \in Flags => device \in {"new", "registered"}

DeviceOwned ==
    /\ device = "none" => DeviceFd = -1
    /\ device # "none" => DeviceFd \in Fds /\ fds[DeviceFd] = "device" /\ OpensItsNamespace
    /\ \A d \in Fds : fds[d] = "device" => DeviceFd = d
    /\ RegisteredContainers # {} => device = "registered"

Owned == OwnersTypeOK /\ RingOwned /\ QuietWhenNotRunning /\ FilesOwned /\ DeviceOwned

\* The least of some numbers is one of them.
LEMMA LeastIsOne ==
    ASSUME NEW S, S \subseteq Nat, S # {}
    PROVE  \E d \in S : \A e \in S : d <= e
<1> DEFINE R == {pair \in Nat \X Nat : pair[1] < pair[2]}
<1>1. IsWellFoundedOn(R, Nat)
  <2>1. IsWellFoundedOn(OpToRel(<, Nat), Nat)
      BY NatLessThanWellFounded, Zenon
  <2>2. OpToRel(<, Nat) = R
      BY Zenon DEF OpToRel
  <2> QED
      BY <2>1, <2>2, Zenon
<1> HIDE DEF R
<1>2. PICK d \in S : \A e \in S : ~(<<e, d>> \in R)
    BY <1>1, WFMin
<1>3. ASSUME NEW e \in S PROVE d <= e
  <2>1. ~(<<e, d>> \in R) /\ e \in Nat /\ d \in Nat
      BY <1>2
  <2>2. <<e, d>> \in Nat \X Nat /\ <<e, d>>[1] = e /\ <<e, d>>[2] = d
      BY <2>1
  <2>3. ~(e < d)
      BY <2>1, <2>2 DEF R
  <2> QED
      BY <2>1, <2>3
<1> QED
    BY <1>3

\* A descriptor that is opened belonged to nobody.
LEMMA OpenFdOpens ==
    ASSUME OwnersTypeOK, NEW owner \in Owners, OpenFd(owner)
    PROVE  /\ LowestFree \in Fds /\ fds[LowestFree] = None /\ closedForOthers' = closedForOthers
           /\ fds' \in [Fds -> Owners]
           /\ \A d \in Fds : fds'[d] = IF d = LowestFree THEN owner ELSE fds[d]
<1>1. FreeFds \subseteq Nat /\ FreeFds # {}
    BY FdsAssumption DEF FreeFds, Fds, OpenFd
<1>2. \E d \in FreeFds : \A e \in FreeFds : d <= e
    BY <1>1, LeastIsOne
<1>3. LowestFree \in FreeFds
    BY <1>2 DEF LowestFree
<1>4. LowestFree \in Fds /\ fds[LowestFree] = None
    BY <1>3 DEF FreeFds
<1> DEFINE low == LowestFree
<1>5. fds' = [fds EXCEPT ![low] = owner] /\ closedForOthers' = closedForOthers
    BY DEF OpenFd
<1> HIDE DEF low
<1>6. fds \in [Fds -> Owners]
    BY DEF OwnersTypeOK
<1>7. fds' \in [Fds -> Owners] /\ \A d \in Fds : fds'[d] = IF d = low THEN owner ELSE fds[d]
    BY <1>5, <1>6
<1> QED
    BY <1>4, <1>5, <1>7 DEF low

\* Its owner closes a descriptor for nobody else.
LEMMA CloseFdCloses ==
    ASSUME OwnersTypeOK, NEW n, NEW owner, CloseFd(n, owner)
    PROVE  /\ fds' \in [Fds -> Owners]
           /\ \A d \in Fds : fds'[d] = IF d = n THEN None ELSE fds[d]
           /\ n \in Fds /\ fds[n] = owner => closedForOthers' = closedForOthers
<1>1. fds \in [Fds -> Owners] /\ None \in Owners
    BY DEF OwnersTypeOK, Owners
<1>2. fds' = [fds EXCEPT ![n] = None]
    BY DEF CloseFd
<1>3. fds' \in [Fds -> Owners] /\ \A d \in Fds : fds'[d] = IF d = n THEN None ELSE fds[d]
    BY <1>1, <1>2
<1>4. fds[n] = owner => closedForOthers' = closedForOthers
    BY DEF CloseFd
<1> QED
    BY <1>3, <1>4

LEMMA InitOwned == Init => Owned
<1> SUFFICES ASSUME Init PROVE Owned
    OBVIOUS
<1>1. /\ pc = "off" /\ created = FALSE /\ mapped = {} /\ unmappedTwice = FALSE
      /\ closedForOthers = {} /\ fds = [d \in Fds |-> IF d < 3 THEN "process" ELSE None]
      /\ State = [f \in Files |-> "Deleted"] /\ Fd = [f \in Files |-> -1]
      /\ step = [f \in Files |-> "none"] /\ device = "none" /\ DeviceFd = -1
      /\ RegisteredContainers = {}
    BY DEF Init, FdInit, RingInit, HandleInit, DeviceInit
<1>2. OwnersTypeOK
    BY <1>1 DEF OwnersTypeOK, Owners
<1>3. \A d \in Fds : fds[d] \in {"process", None}
    BY <1>1
<1>4. RingOwned
    BY <1>1, <1>3, OwnersAssumption DEF RingOwned, NoRing, Before, Trying, Granted
<1>5. QuietWhenNotRunning
    BY <1>1 DEF QuietWhenNotRunning, Quiet
<1>6. FilesOwned
    BY <1>1, <1>3, OwnersAssumption DEF FilesOwned
<1>7. DeviceOwned
    BY <1>1, <1>3, OwnersAssumption DEF DeviceOwned
<1> QED
    BY <1>2, <1>4, <1>5, <1>6, <1>7 DEF Owned

-----------------------------------------------------------------------------
(* The ring's steps                                                          *)

\* While nothing is open, the ring's descriptor may come and go.
LEMMA QuietKept ==
    ASSUME Owned, Quiet, UNCHANGED <<handleVars, deviceVars>>, fds' \in [Fds -> Owners],
           \A d \in Fds : fds'[d] \in {fds[d], None, "ring"}
    PROVE  OwnersTypeOK' /\ QuietWhenNotRunning' /\ FilesOwned' /\ DeviceOwned'
<1>1. /\ UNCHANGED <<State, Fd, step, freeSlots, leaked, DeviceFd, device,
                      RegisteredContainers, ControllerDevice, CharacterDevice>>
      /\ OwnersTypeOK /\ FilesOwned /\ DeviceOwned
    BY DEF handleVars, deviceVars, Owned
<1>2. OwnersTypeOK'
    BY <1>1 DEF OwnersTypeOK
<1>3. Quiet'
    BY <1>1 DEF Quiet
<1>4. FilesOwned'
  <2>1. \A f \in Files : f # None /\ f # "ring"
      BY OwnersAssumption
  <2> QED
      BY <1>1, <2>1 DEF FilesOwned, Quiet
<1>5. DeviceOwned'
  <2>1. \A d \in Fds : fds'[d] = "device" => fds[d] = "device"
      BY OwnersAssumption
  <2> QED
      BY <1>1, <2>1 DEF DeviceOwned, Quiet
<1> QED
    BY <1>2, <1>3, <1>4, <1>5 DEF QuietWhenNotRunning

LEMMA AttemptOwned ==
    ASSUME IInv, Owned, UNCHANGED <<handleVars, deviceVars>>,
           NEW outcome \in {"ok", "EINVAL", "ENOMEM", "rings", "cq", "sqes"},
           TryNoSqarray(outcome) \/ TryPlain(outcome)
    PROVE  Owned'
<1>1. /\ pc \in Trying /\ OwnersTypeOK /\ NoRing /\ Quiet
      /\ closedForOthers = {} /\ ~unmappedTwice
    BY DEF TryNoSqarray, TryPlain, Trying, Owned, RingOwned, QuietWhenNotRunning
<1>2. PICK flags : QueueInit(flags, outcome)
    BY DEF TryNoSqarray, TryPlain
<1>3. CASE outcome = "ok"
  <2>1. OpenFd("ring") /\ ring'.ring_fd = LowestFree /\ mapped' = ring'.pointers /\ created'
      BY <1>2, <1>3 DEF QueueInit
  <2>2. pc' = "check" /\ UNCHANGED unmappedTwice
      BY <1>2, <1>3 DEF TryNoSqarray, TryPlain, QueueInit
  <2>3. "ring" \in Owners
      BY DEF Owners
  <2>4. /\ LowestFree \in Fds /\ closedForOthers' = closedForOthers
        /\ fds' \in [Fds -> Owners]
        /\ \A d \in Fds : fds'[d] = IF d = LowestFree THEN "ring" ELSE fds[d]
      BY <1>1, <2>1, <2>3, OpenFdOpens
  <2>5. HasRing'
      BY <1>1, <2>1, <2>4 DEF HasRing, NoRing
  <2>6. RingOwned'
      BY <1>1, <2>2, <2>4, <2>5 DEF RingOwned, Before, Trying, Granted
  <2>7. OwnersTypeOK' /\ QuietWhenNotRunning' /\ FilesOwned' /\ DeviceOwned'
      BY <1>1, <2>4, QuietKept
  <2> QED
      BY <2>6, <2>7 DEF Owned
<1>4. CASE outcome # "ok"
  <2>1. UNCHANGED <<fdVars, mapped, created, unmappedTwice>>
      BY <1>2, <1>4 DEF QueueInit
  <2>2. pc' \in {"try", "plain", "destroy"}
      BY <1>4 DEF TryNoSqarray, TryPlain, NextAttempt
  <2>3. NoRing' /\ UNCHANGED <<fds, closedForOthers>>
      BY <1>1, <2>1 DEF NoRing, fdVars
  <2>4. RingOwned'
      BY <1>1, <2>1, <2>2, <2>3 DEF RingOwned, Before, Trying, Granted
  <2>5. fds' \in [Fds -> Owners] /\ \A d \in Fds : fds'[d] \in {fds[d], None, "ring"}
      BY <1>1, <2>3 DEF OwnersTypeOK
  <2>6. OwnersTypeOK' /\ QuietWhenNotRunning' /\ FilesOwned' /\ DeviceOwned'
      BY <1>1, <2>5, QuietKept
  <2> QED
      BY <2>4, <2>6 DEF Owned
<1> QED
    BY <1>3, <1>4

\* The steps before the files can be opened that open nothing themselves.
LEMMA SetupOwned ==
    ASSUME Owned, UNCHANGED <<handleVars, deviceVars>>,
           \/ \E flags : Create(flags)
           \/ NoPlatformFileIoStore
           \/ CheckFeatures \/ IncreaseLimit \/ LimitWorkers \/ SizeBuffers
           \/ \E result \in {"ok", "EMFILE", "other"} : RegisterFiles(result)
    PROVE  Owned'
<1>1. UNCHANGED <<fdVars, created, ring, mapped, unmappedTwice>>
    BY DEF Create, NoPlatformFileIoStore, CheckFeatures, IncreaseLimit, LimitWorkers,
           SizeBuffers, RegisterFiles
<1>2. \/ pc = "off" /\ pc' \in {"try", "declined"}
      \/ /\ pc \in {"check", "files", "increase", "workers", "buffers"}
         /\ pc' \in Granted \cup {"destroy"}
    BY DEF Create, NoPlatformFileIoStore, CheckFeatures, IncreaseLimit, LimitWorkers,
           SizeBuffers, RegisterFiles, VerifySafe, Granted
<1>3. Quiet /\ OwnersTypeOK /\ RingOwned
    BY <1>2 DEF Owned, QuietWhenNotRunning
<1>4. UNCHANGED <<fds, closedForOthers>>
    BY <1>1 DEF fdVars
<1>5. (NoRing => NoRing') /\ (HasRing => HasRing')
    BY <1>1, <1>4 DEF NoRing, HasRing
<1>6. RingOwned'
    BY <1>1, <1>2, <1>3, <1>4, <1>5 DEF RingOwned, Before, Trying, Granted
<1>7. fds' \in [Fds -> Owners] /\ \A d \in Fds : fds'[d] \in {fds[d], None, "ring"}
    BY <1>3, <1>4 DEF OwnersTypeOK
<1>8. OwnersTypeOK' /\ QuietWhenNotRunning' /\ FilesOwned' /\ DeviceOwned'
    BY <1>3, <1>7, QuietKept
<1> QED
    BY <1>6, <1>8 DEF Owned

\* Files may be open when the service starts; it gives up no option of theirs.
LEMMA EnableOwned ==
    ASSUME IInv, Owned, UNCHANGED <<handleVars, deviceVars>>, NEW registered,
           EnableRing(registered)
    PROVE  Owned'
<1>1. /\ pc = "ready" /\ pc' \in {"running", "fatal"} /\ Flags' \subseteq Flags
      /\ UNCHANGED <<created, mapped, unmappedTwice, fds, closedForOthers>>
    BY DEF EnableRing, Verify, fdVars
<1>2. ring'.ring_fd = ring.ring_fd /\ ring'.pointers = ring.pointers
  <2>1. IsRing(ring)
      BY DEF IInv, SetupTypeOK
  <2>2. \E a, b : ring' = [ring EXCEPT !.REG_RING = a, !.REG_REG_RING = b]
      BY DEF EnableRing, RegisterRingFd
  <2> QED
      BY <2>1, <2>2 DEF IsRing
<1>3. HasRing'
    BY <1>1, <1>2 DEF Owned, RingOwned, HasRing, Granted
<1>4. RingOwned'
    BY <1>1, <1>3 DEF Owned, RingOwned, Before, Trying, Granted
<1>5. UNCHANGED <<State, Fd, step, freeSlots, leaked, DeviceFd, device,
                  RegisteredContainers, ControllerDevice, CharacterDevice>>
    BY DEF handleVars, deviceVars
<1>6. OwnersTypeOK' /\ QuietWhenNotRunning' /\ FilesOwned' /\ DeviceOwned'
    BY <1>1, <1>5
    DEF Owned, OwnersTypeOK, QuietWhenNotRunning, FilesOwned, DeviceOwned, OpensItsNamespace
<1> QED
    BY <1>4, <1>6 DEF Owned

\* Where there is a ring, the destructor closes its descriptor and unmaps its memory;
\* where there is none, only that is left open which is closed for others.
LEMMA DestroyOwned ==
    ASSUME IInv, Owned, UNCHANGED <<handleVars, deviceVars>>, Quiet, NEW unregistered,
           Destroy(unregistered)
    PROVE  Owned'
<1>1. /\ pc \in {"destroy", "ready", "running"} /\ pc' = "gone"
      /\ CloseFd(ring.ring_fd, "ring") /\ unmappedTwice' = ~(ring.pointers \subseteq mapped)
      /\ mapped' = mapped \ ring.pointers /\ UNCHANGED created
    BY DEF Destroy, QueueExit, Unmapped
<1>2. OwnersTypeOK /\ (NoRing \/ HasRing) /\ closedForOthers = {}
    BY <1>1 DEF Owned, RingOwned, Granted
<1>3. /\ fds' \in [Fds -> Owners]
      /\ \A d \in Fds : fds'[d] = IF d = ring.ring_fd THEN None ELSE fds[d]
      /\ HasRing => closedForOthers' = closedForOthers
    BY <1>1, <1>2, CloseFdCloses DEF HasRing
<1>4. None # "ring"
    BY OwnersAssumption
<1>5. mapped' = {} /\ \A d \in Fds : fds'[d] # "ring"
    BY <1>1, <1>2, <1>3, <1>4 DEF NoRing, HasRing
<1>6. closedForOthers' # {} \/ unmappedTwice' => ~created'
    BY <1>1, <1>2, <1>3 DEF NoRing, HasRing
<1>7. RingOwned'
    BY <1>1, <1>5, <1>6 DEF RingOwned, Before, Trying, Granted
<1>8. OwnersTypeOK' /\ QuietWhenNotRunning' /\ FilesOwned' /\ DeviceOwned'
    BY <1>3, QuietKept
<1> QED
    BY <1>7, <1>8 DEF Owned

LEMMA RingNextOwned ==
    ASSUME IInv, Owned, RingNext, UNCHANGED <<handleVars, deviceVars>>,
           pc' = "gone" => \A f \in Files : step[f] = "none",
           pc' = "gone" => device = "none"
    PROVE  Owned'
<1>1. CASE \E cvars \in SUBSET Optional, pollQueues, multithreaded \in BOOLEAN :
              CreatePlatformFileIoStore(cvars, pollQueues, multithreaded)
    BY <1>1, SetupOwned DEF CreatePlatformFileIoStore
<1>2. CASE \/ NoPlatformFileIoStore \/ CheckFeatures \/ IncreaseLimit \/ LimitWorkers
           \/ SizeBuffers \/ \E result \in {"ok", "EMFILE", "other"} : RegisterFiles(result)
    BY <1>2, SetupOwned
<1>3. CASE \E outcome \in {"ok", "EINVAL", "ENOMEM", "rings", "cq", "sqes"} :
              TryNoSqarray(outcome) \/ TryPlain(outcome)
    BY <1>3, AttemptOwned
<1>4. CASE \E registered \in BOOLEAN : EnableRing(registered)
    BY <1>4, EnableOwned
<1>5. CASE \E unregistered \in BOOLEAN : Destroy(unregistered)
  <2>1. PICK unregistered \in BOOLEAN : Destroy(unregistered)
      BY <1>5
  <2>2. Quiet
      BY <2>1 DEF Destroy, Quiet
  <2> QED
      BY <2>1, <2>2, DestroyOwned
<1> QED
    BY <1>1, <1>2, <1>3, <1>4, <1>5 DEF RingNext

-----------------------------------------------------------------------------
(* The steps of files and the device                                         *)

Working == pc \in {"ready", "running"} /\ UNCHANGED ringVars

\* They leave the ring its descriptor.
LEMMA RingKept ==
    ASSUME Owned, Working, closedForOthers' = closedForOthers,
           \A d \in Fds : fds'[d] = "ring" <=> fds[d] = "ring"
    PROVE  RingOwned' /\ QuietWhenNotRunning'
<1>1. /\ pc \in {"ready", "running"} /\ pc' = pc
      /\ UNCHANGED <<created, mapped, ring, unmappedTwice>>
    BY DEF Working, ringVars
<1>2. HasRing /\ closedForOthers = {} /\ ~unmappedTwice
    BY <1>1 DEF Owned, RingOwned, Granted
<1>3. HasRing'
    BY <1>1, <1>2 DEF HasRing
<1> QED
    BY <1>1, <1>2, <1>3
    DEF RingOwned, QuietWhenNotRunning, Before, Trying, Granted

\* A file is opened: by CreateFileHandle, or once more by the service.
LEMMA OpenedOwned ==
    ASSUME Owned, Working, UNCHANGED <<deviceVars, leaked>>, NEW f \in Files, OpenFd(f),
           step[f] = "none", Fd' = [Fd EXCEPT ![f] = LowestFree],
           \/ State[f] = "Deleted" /\ State' = State /\ step' = [step EXCEPT ![f] = "create"]
           \/ /\ State' = [State EXCEPT ![f] = "Opened"]
              /\ step' = [step EXCEPT ![f] = "service"]
              /\ "NvmeDirect" \in Flags => device \in {"new", "registered"}
    PROVE  Owned'
<1> DEFINE low == LowestFree
<1>1. /\ OwnersTypeOK /\ FilesOwned /\ DeviceOwned /\ f \in Owners
      /\ UNCHANGED <<DeviceFd, device, RegisteredContainers, ControllerDevice,
                     CharacterDevice, Flags>>
    BY DEF Owned, Owners, deviceVars, Working, ringVars
<1>2. /\ low \in Fds /\ fds[low] = None /\ closedForOthers' = closedForOthers
      /\ fds' \in [Fds -> Owners]
      /\ \A d \in Fds : fds'[d] = IF d = low THEN f ELSE fds[d]
    BY <1>1, OpenFdOpens
<1>3. /\ f # "ring" /\ f # "device" /\ f # "process" /\ None # "ring" /\ None # "device"
      /\ \A g \in Files : g # None
    BY OwnersAssumption
<1>4. Fd' = [Fd EXCEPT ![f] = low]
    OBVIOUS
<1> HIDE DEF low
<1>5. OwnersTypeOK'
    BY <1>1, <1>2, <1>4 DEF OwnersTypeOK
<1>6. RingOwned' /\ QuietWhenNotRunning'
    BY <1>2, <1>3, RingKept
<1>7. FilesOwned'
  <2>1. ASSUME NEW g \in Files, g # f
        PROVE  /\ step'[g] = step[g] /\ State'[g] = State[g] /\ Fd'[g] = Fd[g]
               /\ \A d \in Fds : fds'[d] = g <=> fds[d] = g
      BY <1>1, <1>2, <1>3, <1>4, <2>1 DEF OwnersTypeOK
  <2>2. /\ Fd'[f] = low /\ step'[f] \in {"create", "service"}
        /\ step'[f] = "create" => State'[f] = "Deleted"
        /\ step'[f] = "service" => State'[f] = "Opened"
      BY <1>1, <1>4 DEF OwnersTypeOK
  <2>3. \A d \in Fds : fds'[d] = f => d \in leaked \/ d = low
      BY <1>1, <1>2 DEF FilesOwned
  <2>4. step'[f] = "service" /\ "NvmeDirect" \in Flags => device \in {"new", "registered"}
      BY <1>1 DEF OwnersTypeOK
  <2> QED
      BY <1>1, <1>2, <2>1, <2>2, <2>3, <2>4 DEF FilesOwned
<1>8. DeviceOwned'
    BY <1>1, <1>2, <1>3 DEF DeviceOwned, OpensItsNamespace
<1> QED
    BY <1>5, <1>6, <1>7, <1>8 DEF Owned

\* A thread is done with a file and closes it.
LEMMA ClosedOwned ==
    ASSUME Owned, Working, UNCHANGED leaked, NEW f \in Files, CloseFd(Fd[f], f),
           step[f] \in {"mount", "service"},
           NEW state \in {"Closed", "Fixed"}, State' = [State EXCEPT ![f] = state],
           NEW n \in Slots \cup {-1}, Fd' = [Fd EXCEPT ![f] = n],
           step' = [step EXCEPT ![f] = "none"],
           UNCHANGED <<DeviceFd, ControllerDevice, CharacterDevice>>,
           \/ UNCHANGED <<device, RegisteredContainers>>
           \/ \E found \in BOOLEAN :
                 step[f] = "service" /\ "NvmeDirect" \in Flags /\ AddContainer(f, found),
           \A g \in Files : step[g] = "service" => device' = device \/ g = f
    PROVE  Owned'
<1>1. OwnersTypeOK /\ FilesOwned /\ DeviceOwned /\ UNCHANGED Flags
    BY DEF Owned, Working, ringVars
<1>2. Fd[f] \in Fds /\ fds[Fd[f]] = f
    BY <1>1 DEF FilesOwned
<1>3. /\ closedForOthers' = closedForOthers /\ fds' \in [Fds -> Owners]
      /\ \A d \in Fds : fds'[d] = IF d = Fd[f] THEN None ELSE fds[d]
    BY <1>1, <1>2, CloseFdCloses
<1>4. /\ f # "ring" /\ f # "device" /\ None # "ring" /\ None # "device"
      /\ \A g \in Files : g # None
    BY OwnersAssumption
<1>5. /\ device' \in {"none", "opened", "new", "rejected", "registered"}
      /\ device' = "none" <=> device = "none"
      /\ RegisteredContainers' # {} => device' = "registered"
  <2>1. CASE UNCHANGED <<device, RegisteredContainers>>
      BY <1>1, <2>1 DEF OwnersTypeOK, DeviceOwned
  <2>2. CASE \E found \in BOOLEAN :
                step[f] = "service" /\ "NvmeDirect" \in Flags /\ AddContainer(f, found)
    <3>1. device \in {"new", "registered"}
        BY <1>1, <2>2 DEF FilesOwned
    <3> QED
        BY <1>1, <2>2, <3>1 DEF AddContainer, DeviceOwned
  <2> QED
      BY <2>1, <2>2
<1>6. OwnersTypeOK'
    BY <1>1, <1>3, <1>5 DEF OwnersTypeOK
<1>7. RingOwned' /\ QuietWhenNotRunning'
    BY <1>2, <1>3, <1>4, RingKept
<1>8. FilesOwned'
  <2>1. ASSUME NEW g \in Files, g # f
        PROVE  /\ step'[g] = step[g] /\ State'[g] = State[g] /\ Fd'[g] = Fd[g]
               /\ \A d \in Fds : fds'[d] = g <=> fds[d] = g
      BY <1>1, <1>2, <1>3, <1>4, <2>1 DEF OwnersTypeOK
  <2>2. step'[f] = "none" /\ State'[f] = state
      BY <1>1 DEF OwnersTypeOK
  <2>3. \A d \in Fds : fds'[d] = f => d \in leaked
      BY <1>1, <1>3, <1>4 DEF FilesOwned
  <2> QED
      BY <1>1, <2>1, <2>2, <2>3 DEF FilesOwned
<1>9. DeviceOwned'
    BY <1>1, <1>2, <1>3, <1>4, <1>5 DEF DeviceOwned, OpensItsNamespace
<1> QED
    BY <1>6, <1>7, <1>8, <1>9 DEF Owned

\* What CreateFileHandle leaks is given up, the descriptor still open.
LEMMA CreatedOwned ==
    ASSUME Owned, Working, UNCHANGED deviceVars, NEW f \in Files,
           NEW suitable \in BOOLEAN, CreateFileHandle(f, suitable)
    PROVE  Owned'
<1>1. /\ OwnersTypeOK /\ FilesOwned /\ DeviceOwned /\ step[f] = "create"
      /\ UNCHANGED <<fds, closedForOthers, DeviceFd, device, RegisteredContainers,
                     ControllerDevice, CharacterDevice, Flags>>
    BY DEF Owned, Working, ringVars, deviceVars, CreateFileHandle, fdVars
<1>2. \/ /\ State' = [State EXCEPT ![f] = "Opened"] /\ step' = [step EXCEPT ![f] = "mount"]
         /\ UNCHANGED <<Fd, leaked>>
      \/ /\ leaked' = leaked \cup {Fd[f]} /\ Fd' = [Fd EXCEPT ![f] = -1]
         /\ step' = [step EXCEPT ![f] = "none"] /\ UNCHANGED State
    BY DEF CreateFileHandle
<1>3. OwnersTypeOK'
    BY <1>1, <1>2 DEF OwnersTypeOK
<1>4. RingOwned' /\ QuietWhenNotRunning'
    BY <1>1, RingKept
<1>5. FilesOwned'
  <2>1. ASSUME NEW g \in Files, g # f
        PROVE  step'[g] = step[g] /\ State'[g] = State[g] /\ Fd'[g] = Fd[g]
      BY <1>1, <1>2, <2>1 DEF OwnersTypeOK
  <2>2. leaked \subseteq leaked'
      BY <1>2
  <2>3. CASE step' = [step EXCEPT ![f] = "mount"]
    <3>1. step'[f] = "mount" /\ State'[f] = "Opened" /\ Fd'[f] = Fd[f]
        BY <1>1, <1>2, <2>3 DEF OwnersTypeOK
    <3> QED
        BY <1>1, <2>1, <2>2, <3>1 DEF FilesOwned
  <2>4. CASE step' = [step EXCEPT ![f] = "none"]
    <3>1. step'[f] = "none" /\ State'[f] = "Deleted" /\ Fd[f] \in leaked'
        BY <1>1, <1>2, <2>4 DEF OwnersTypeOK, FilesOwned
    <3> QED
        BY <1>1, <2>1, <2>2, <3>1 DEF FilesOwned
  <2> QED
      BY <1>2, <2>3, <2>4
<1>6. DeviceOwned'
    BY <1>1 DEF DeviceOwned, OpensItsNamespace
<1> QED
    BY <1>3, <1>4, <1>5, <1>6 DEF Owned

\* The device is closed: its containers are gone, or there have been none.
LEMMA DeviceClosedOwned ==
    ASSUME Owned, Working, UNCHANGED leaked, device # "none",
           CloseFd(DeviceFd, "device"), NoDevice, RegisteredContainers' = {},
           OwnersTypeOK', \A f \in Files : step'[f] = step[f] /\ step[f] # "service",
           \A f \in Files : step[f] # "none" => State'[f] = State[f] /\ Fd'[f] = Fd[f],
           \A f \in Files : step[f] = "none" => State'[f] # "Opened"
    PROVE  Owned'
<1>1. OwnersTypeOK /\ FilesOwned /\ DeviceOwned
    BY DEF Owned
<1>2. DeviceFd \in Fds /\ fds[DeviceFd] = "device"
    BY <1>1 DEF DeviceOwned
<1>3. /\ closedForOthers' = closedForOthers
      /\ \A d \in Fds : fds'[d] = IF d = DeviceFd THEN None ELSE fds[d]
    BY <1>1, <1>2, CloseFdCloses
<1>4. /\ "device" # None /\ "ring" # None
      /\ \A f \in Files : f # "device" /\ f # None
    BY OwnersAssumption
<1>5. RingOwned' /\ QuietWhenNotRunning'
    BY <1>2, <1>3, <1>4, RingKept
<1>6. FilesOwned'
    BY <1>1, <1>2, <1>3, <1>4 DEF FilesOwned
<1>7. DeviceOwned'
    BY <1>1, <1>3, <1>4 DEF DeviceOwned, NoDevice
<1> QED
    BY <1>5, <1>6, <1>7 DEF Owned

LEMMA UnregisteredOwned ==
    ASSUME Owned, Working, NEW f \in Files, NEW nvme, UnregisterFile(f, nvme)
    PROVE  Owned'
<1>1. /\ OwnersTypeOK /\ FilesOwned /\ DeviceOwned /\ UNCHANGED <<Flags, step, leaked>>
      /\ State[f] \in {"Closed", "Fixed"} /\ step[f] = "none"
      /\ State' = [State EXCEPT ![f] = "Deleted"] /\ Fd' = [Fd EXCEPT ![f] = -1]
      /\ \A g \in Files : step[g] # "service"
      /\ device \in {"none", "registered"}
    BY DEF Owned, Working, ringVars, UnregisterFile, Idle
<1>2. /\ \A g \in Files : step[g] # "none" => State'[g] = State[g] /\ Fd'[g] = Fd[g]
      /\ \A g \in Files : step[g] = "none" => State'[g] # "Opened"
    BY <1>1 DEF OwnersTypeOK, FilesOwned
<1>3. CASE nvme /\ device = "registered" /\ ShouldRemove(f)
  <2>1. /\ CloseFd(DeviceFd, "device") /\ NoDevice
        /\ RegisteredContainers' = {}
      BY <1>3 DEF UnregisterFile, RemoveContainer, ShouldRemove
  <2>2. OwnersTypeOK'
    <3>1. fds' \in [Fds -> Owners]
        BY <1>1, <2>1, CloseFdCloses
    <3> QED
        BY <1>1, <2>1, <3>1 DEF OwnersTypeOK, NoDevice
  <2> QED
      BY <1>1, <1>2, <1>3, <2>1, <2>2, DeviceClosedOwned
<1>4. CASE ~(nvme /\ device = "registered" /\ ShouldRemove(f))
  <2>1. /\ UNCHANGED <<DeviceFd, device, ControllerDevice, CharacterDevice, fds,
                       closedForOthers>>
        /\ RegisteredContainers' \subseteq RegisteredContainers
    <3>1. CASE nvme
        BY <1>4, <3>1 DEF UnregisterFile, RemoveContainer, fdVars
    <3>2. CASE ~nvme
        BY <1>1, <3>2 DEF UnregisterFile, CloseFile, IsOpen, deviceVars, fdVars
    <3> QED
        BY <3>1, <3>2
  <2>2. OwnersTypeOK'
      BY <1>1, <2>1 DEF OwnersTypeOK
  <2>3. RingOwned' /\ QuietWhenNotRunning'
      BY <2>1, RingKept
  <2>4. FilesOwned'
      BY <1>1, <1>2, <2>1 DEF FilesOwned
  <2>5. DeviceOwned'
      BY <1>1, <2>1 DEF DeviceOwned, OpensItsNamespace
  <2> QED
      BY <2>2, <2>3, <2>4, <2>5 DEF Owned
<1> QED
    BY <1>3, <1>4

-----------------------------------------------------------------------------
(* The names of devices                                                      *)

LEMMA MaxMin ==
    ASSUME NEW S, S \subseteq Nat, NEW m \in S
    PROVE  /\ (\A x \in S : x <= m) => Max(S) = m
           /\ (\A x \in S : m <= x) => Min(S) = m
<1>1. \A x, y \in Nat : x <= y /\ y <= x => x = y
    OBVIOUS
<1>2. ASSUME \A x \in S : x <= m PROVE Max(S) = m
  <2>1. \A n \in S : (\A x \in S : n >= x) => n = m
      BY <1>1, <1>2
  <2>2. \A x \in S : m >= x
      BY <1>2
  <2>3. Max(S) \in S /\ \A x \in S : Max(S) >= x
      BY <2>2 DEF Max
  <2> QED
      BY <2>1, <2>3
<1>3. ASSUME \A x \in S : m <= x PROVE Min(S) = m
  <2>1. \A n \in S : (\A x \in S : n <= x) => n = m
      BY <1>1, <1>3
  <2>2. Min(S) \in S /\ \A x \in S : Min(S) <= x
      BY <1>3 DEF Min
  <2> QED
      BY <2>1, <2>2
<1> QED
    BY <1>2, <1>3

\* Where Initialize finds a controller, the name has the word nvme.
LEMMA ControllerNeedsNvme ==
    ASSUME NEW name \in Seq(STRING), Recognised(name)
    PROVE  \E j \in DOMAIN name : name[j] = "nvme"
<1> SUFFICES ASSUME \A j \in DOMAIN name : name[j] # "nvme" PROVE FALSE
    OBVIOUS
<1> DEFINE S == {Len(name) + 1} \cup {i \in DOMAIN name : name[i] \in {"nvme"}}
<1>1. Len(name) \in Nat /\ DOMAIN name = 1 .. Len(name)
    OBVIOUS
<1>2. S = {Len(name) + 1}
    OBVIOUS
<1>3. Min(S) = Len(name) + 1
    BY <1>1, <1>2 DEF Min
<1>4. FindFirst(name, {"nvme"}) = Len(name) + 1
    BY <1>3 DEF FindFirst
<1>5. NumberAfter(name, Len(name) + 1) = ""
  <2>1. Len(name) + 1 + 1 \notin 1 .. Len(name)
      BY <1>1
  <2>2. Len(name) + 1 + 1 \notin DOMAIN name
      BY <1>1, <2>1
  <2> QED
      BY <2>2, Zenon DEF NumberAfter
<1> QED
    BY <1>4, <1>5 DEF Recognised, GetCharacterDevice

LEMMA FirstFourOfSix ==
    ASSUME NEW a, NEW b, NEW c, NEW d, NEW e, NEW f
    PROVE  SubSeq(<<a, b, c, d, e, f>>, 1, 4) = <<a, b, c, d>>
<1> DEFINE W == {a, b, c, d, e, f}
           six == <<a, b, c, d, e, f>>
           four == <<a, b, c, d>>
           front == SubSeq(six, 1, 4)
<1>1. a \in W /\ b \in W /\ c \in W /\ d \in W /\ e \in W /\ f \in W
    OBVIOUS
<1> HIDE DEF W
<1>2. six \in Seq(W) /\ Len(six) = 6
    BY <1>1
<1>3. four \in Seq(W) /\ Len(four) = 4
    BY <1>1
<1>4. six[1] = four[1] /\ six[2] = four[2] /\ six[3] = four[3] /\ six[4] = four[4]
    OBVIOUS
<1> HIDE DEF six, four
<1>5. /\ front \in Seq(W) /\ Len(front) = 4
      /\ \A i \in 1 .. 4 : front[i] = six[i]
  <2>1. \A i \in 1 .. 4 : six[i] \in W
      BY <1>2, ElementOfSeq, \A i \in 1 .. 4 : i \in 1 .. 6
  <2>2. /\ SubSeq(six, 1, 4) \in Seq(W)
        /\ Len(SubSeq(six, 1, 4)) = IF 1 <= 4 THEN 4 - 1 + 1 ELSE 0
        /\ \A i \in 1 .. 4 - 1 + 1 : SubSeq(six, 1, 4)[i] = six[1 + i - 1]
      BY <2>1, SubSeqProperties, 1 \in Int, 4 \in Int
  <2> QED
      BY <2>2
<1> HIDE DEF front
<1>6. ASSUME NEW i \in 1 .. 4 PROVE front[i] = four[i]
  <2>1. i = 1 \/ i = 2 \/ i = 3 \/ i = 4
      OBVIOUS
  <2> QED
      BY <1>4, <1>5, <2>1
<1>7. front = four
    BY <1>3, <1>5, <1>6, SeqEqual
<1> QED
    BY <1>7 DEF front, six, four

\* A partition's disk is the namespace whose character device is opened; a name
\* without a partition is not recognised.
LEMMA PartitionOfNamespace ==
    ASSUME NEW c \in Numbers, NEW n \in Numbers, NEW p \in Numbers
    PROVE  /\ ~Recognised(<<"nvme", c, "n", n>>)
           /\ DiskOf(<<"nvme", c, "n", n, "p", p>>) = <<"nvme", c, "n", n>>
           /\ GetCharacterDevice(<<"nvme", c, "n", n, "p", p>>)
                = [controller |-> c, namespace |-> n]
<1>1. /\ c # "" /\ c # "p" /\ c # "n" /\ c # "nvme" /\ c # "nbd"
      /\ n # "" /\ n # "p" /\ n # "n" /\ n # "nvme" /\ n # "nbd"
      /\ p # "" /\ p # "p" /\ p # "n" /\ p # "nvme" /\ p # "nbd"
    BY DEF Numbers
<1>2. ~Recognised(<<"nvme", c, "n", n>>)
  <2> DEFINE name == <<"nvme", c, "n", n>>
             S == {0} \cup {i \in DOMAIN name : name[i] \in {"p"}}
  <2>1. DOMAIN name = 1 .. 4 /\ name[1] = "nvme" /\ name[2] = c /\ name[3] = "n" /\ name[4] = n
      OBVIOUS
  <2>2. S = {0}
    <3>1. ASSUME NEW i \in 1 .. 4 PROVE name[i] # "p"
      <4>1. i = 1 \/ i = 2 \/ i = 3 \/ i = 4
          OBVIOUS
      <4> HIDE DEF name
      <4> QED
          BY <1>1, <2>1, <4>1
    <3> HIDE DEF name
    <3> QED
        BY <2>1, <3>1
  <2> HIDE DEF S
  <2>3. Max(S) = 0
      BY <2>2, MaxMin
  <2>4. FindLast(name, {"p"}) = 0
      BY <2>3 DEF FindLast, S
  <2> HIDE DEF name
  <2>5. ~Recognised(name)
      BY <2>4 DEF Recognised, HasPartition
  <2> QED
      BY <2>5 DEF name
<1> DEFINE name == <<"nvme", c, "n", n, "p", p>>
<1>3. /\ Len(name) = 6 /\ DOMAIN name = 1 .. 6
      /\ name[1] = "nvme" /\ name[2] = c /\ name[3] = "n" /\ name[4] = n
      /\ name[5] = "p" /\ name[6] = p
    OBVIOUS
<1>4. \A i \in 1 .. 6 : i = 1 \/ i = 2 \/ i = 3 \/ i = 4 \/ i = 5 \/ i = 6
    OBVIOUS
<1>5. SubSeq(name, 1, 4) = <<"nvme", c, "n", n>>
    BY FirstFourOfSix
<1> HIDE DEF name
<1>6. DiskOf(name) = <<"nvme", c, "n", n>>
  <2> DEFINE S == {0} \cup {i \in DOMAIN name : name[i] \in {"p"}}
  <2>1. S = {0, 5}
    <3>1. ASSUME NEW i \in 1 .. 6 PROVE name[i] \in {"p"} <=> i = 5
      <4>1. i = 1 \/ i = 2 \/ i = 3 \/ i = 4 \/ i = 5 \/ i = 6
          OBVIOUS
      <4> QED
          BY <1>1, <1>3, <4>1
    <3> QED
        BY <1>3, <3>1
  <2> HIDE DEF S
  <2>2. Max(S) = 5
      BY <2>1, MaxMin
  <2>3. FindLast(name, {"p"}) = 5
      BY <2>2 DEF FindLast, S
  <2> QED
      BY <1>5, <2>3, 5 - 1 = 4 DEF DiskOf
<1>7. GetCharacterDevice(name).controller = c
  <2> DEFINE S == {Len(name) + 1} \cup {i \in DOMAIN name : name[i] \in {"nvme"}}
  <2>1. S = {7, 1}
    <3>1. ASSUME NEW i \in 1 .. 6 PROVE name[i] \in {"nvme"} <=> i = 1
      <4>1. i = 1 \/ i = 2 \/ i = 3 \/ i = 4 \/ i = 5 \/ i = 6
          OBVIOUS
      <4> QED
          BY <1>1, <1>3, <4>1
    <3> QED
        BY <1>3, <3>1
  <2> HIDE DEF S
  <2>2. Min(S) = 1
      BY <2>1, MaxMin
  <2>3. FindFirst(name, {"nvme"}) = 1
      BY <2>2 DEF FindFirst, S
  <2>4. NumberAfter(name, 1) = c
      BY <1>3, 1 + 1 = 2, 2 \in 1 .. 6 DEF NumberAfter
  <2> QED
      BY <2>3, <2>4 DEF GetCharacterDevice
<1>8. GetCharacterDevice(name).namespace = n
  <2> DEFINE S == {0} \cup {i \in DOMAIN name : name[i] \in NWords}
  <2>1. S = {0, 1, 3}
    <3>1. ASSUME NEW i \in 1 .. 6 PROVE name[i] \in NWords <=> i = 1 \/ i = 3
      <4>1. i = 1 \/ i = 2 \/ i = 3 \/ i = 4 \/ i = 5 \/ i = 6
          OBVIOUS
      <4> QED
          BY <1>1, <1>3, <4>1 DEF NWords
    <3> QED
        BY <1>3, <3>1
  <2> HIDE DEF S
  <2>2. Max(S) = 3
      BY <2>1, MaxMin
  <2>3. FindLast(name, NWords) = 3
      BY <2>2 DEF FindLast, S
  <2>4. NumberAfter(name, 3) = n
      BY <1>3, 3 + 1 = 4, 4 \in 1 .. 6 DEF NumberAfter
  <2> QED
      BY <1>3, <2>3, <2>4 DEF GetCharacterDevice
<1>9. GetCharacterDevice(name) = [controller |-> c, namespace |-> n]
    BY <1>7, <1>8 DEF GetCharacterDevice
<1> QED
    BY <1>2, <1>6, <1>9 DEF name

LEMMA RecognisedNames ==
    ASSUME NEW uevent \in Uevents, Recognised(GetControllerDevice(uevent))
    PROVE  DiskOf(GetControllerDevice(uevent)) =
             <<"nvme", GetCharacterDevice(GetControllerDevice(uevent)).controller,
               "n", GetCharacterDevice(GetControllerDevice(uevent)).namespace>>
<1> DEFINE named == {i \in DOMAIN uevent : uevent[i].key = "DEVNAME"}
           name == GetControllerDevice(uevent)
<1>1. uevent \in Seq([key : STRING, value : Seq(STRING)])
    BY UeventsAssumption
<1>2. CASE named = {}
  <2>1. name = <<>>
      BY <1>2 DEF GetControllerDevice
  <2>2. <<>> \in Seq(STRING) /\ DOMAIN <<>> = {}
      OBVIOUS
  <2>3. \E j \in DOMAIN <<>> : <<>>[j] = "nvme"
      BY <2>1, <2>2, ControllerNeedsNvme
  <2> QED
      BY <2>2, <2>3
<1>3. CASE named # {}
  <2>1. name = uevent[Min(named)].value
      BY <1>3 DEF GetControllerDevice
  <2>2. named \subseteq Nat
      BY <1>1
  <2>3. PICK m \in named : \A i \in named : m <= i
      BY <1>3, <2>2, LeastIsOne
  <2>4. Min(named) = m
    <3> HIDE DEF named
    <3> QED
        BY <2>2, <2>3, MaxMin
  <2>5. m \in DOMAIN uevent /\ name = uevent[m].value
      BY <2>1, <2>4
  <2>6. name \in Seq(STRING)
    <3>1. uevent[m] \in [key : STRING, value : Seq(STRING)]
      <4> DEFINE Pairs == [key : STRING, value : Seq(STRING)]
      <4>1. uevent \in Seq(Pairs) /\ m \in 1 .. Len(uevent)
          BY <1>1, <2>5
      <4> HIDE DEF Pairs
      <4>2. uevent[m] \in Pairs
          BY <4>1, ElementOfSeq
      <4> QED
          BY <4>2 DEF Pairs
    <3> QED
        BY <2>5, <3>1
  <2> HIDE DEF name
  <2>7. \E j \in DOMAIN name : name[j] = "nvme"
      BY <2>6, ControllerNeedsNvme DEF name
  <2>8. PICK c, n, p \in Numbers :
          name \in {<<"nvme", c, "n", n>>, <<"nvme", c, "n", n, "p", p>>}
      BY <2>5, <2>7, NamesAssumption
  <2>9. name = <<"nvme", c, "n", n, "p", p>>
      BY <2>8, PartitionOfNamespace DEF name
  <2>10. DiskOf(name) = <<"nvme", c, "n", n>>
         /\ GetCharacterDevice(name) = [controller |-> c, namespace |-> n]
      BY <2>9, PartitionOfNamespace
  <2> QED
      BY <2>10 DEF name
<1> QED
    BY <1>2, <1>3

-----------------------------------------------------------------------------
(* The device's steps, and all of them                                       *)

LEMMA DeviceStepOwned ==
    ASSUME Owned, Working, DeviceStep
    PROVE  Owned'
<1>1. /\ OwnersTypeOK /\ FilesOwned /\ DeviceOwned
      /\ UNCHANGED <<State, Fd, step, leaked, Flags>>
      /\ \A f \in Files : step[f] # "service"
    BY DEF Owned, Working, ringVars, DeviceStep, handleVars, Idle
<1>2. CASE Identify
  <2>1. /\ device = "opened" /\ device' = "new"
        /\ UNCHANGED <<DeviceFd, RegisteredContainers, ControllerDevice, CharacterDevice,
                       fds, closedForOthers>>
      BY <1>2 DEF Identify, fdVars
  <2>2. OwnersTypeOK' /\ FilesOwned'
      BY <1>1, <2>1 DEF OwnersTypeOK, FilesOwned
  <2>3. DeviceOwned'
      BY <1>1, <2>1 DEF DeviceOwned, OpensItsNamespace
  <2>4. RingOwned' /\ QuietWhenNotRunning'
      BY <2>1, RingKept
  <2> QED
      BY <2>2, <2>3, <2>4 DEF Owned
<1>3. CASE DestroyDevice
  <2>1. /\ device \in {"opened", "new", "rejected"} /\ CloseFd(DeviceFd, "device")
        /\ NoDevice /\ UNCHANGED RegisteredContainers
      BY <1>3 DEF DestroyDevice
  <2>2. RegisteredContainers' = {}
      BY <1>1, <2>1 DEF DeviceOwned
  <2>3. OwnersTypeOK'
    <3>1. fds' \in [Fds -> Owners]
        BY <1>1, <2>1, CloseFdCloses
    <3> QED
        BY <1>1, <2>1, <3>1 DEF OwnersTypeOK, NoDevice
  <2>4. \A f \in Files : step[f] = "none" => State'[f] # "Opened"
      BY <1>1 DEF FilesOwned
  <2> QED
      BY <1>1, <2>1, <2>2, <2>3, <2>4, DeviceClosedOwned
<1>4. CASE \E uevent \in Uevents : InitializeDevice(uevent)
  <2>1. PICK uevent \in Uevents : InitializeDevice(uevent)
      BY <1>4
  <2> DEFINE low == LowestFree
  <2>2. /\ device = "none" /\ OpenFd("device") /\ DeviceFd' = low /\ device' = "opened"
        /\ UNCHANGED RegisteredContainers
      BY <2>1 DEF InitializeDevice
  <2>3. "device" \in Owners
      BY DEF Owners
  <2>4. /\ low \in Fds /\ fds[low] = None /\ closedForOthers' = closedForOthers
        /\ fds' \in [Fds -> Owners]
        /\ \A d \in Fds : fds'[d] = IF d = low THEN "device" ELSE fds[d]
      BY <1>1, <2>2, <2>3, OpenFdOpens
  <2>5. OpensItsNamespace'
      BY <2>1, RecognisedNames DEF InitializeDevice, OpensItsNamespace
  <2> HIDE DEF low
  <2>6. /\ "ring" # None /\ "device" # None /\ "device" # "ring"
        /\ \A f \in Files : f # "device" /\ f # None
      BY OwnersAssumption
  <2>7. OwnersTypeOK'
      BY <1>1, <2>2, <2>4 DEF OwnersTypeOK
  <2>8. FilesOwned'
      BY <1>1, <2>4, <2>6 DEF FilesOwned
  <2>9. DeviceOwned'
    <3>1. \A d \in Fds : fds[d] # "device"
      <4>1. \A d \in Fds : d # -1
          BY FdsAssumption DEF Fds
      <4> QED
          BY <1>1, <2>2, <4>1 DEF DeviceOwned
    <3> QED
        BY <1>1, <2>2, <2>4, <2>5, <3>1 DEF DeviceOwned
  <2>10. RingOwned' /\ QuietWhenNotRunning'
      BY <2>4, <2>6, RingKept
  <2> QED
      BY <2>7, <2>8, <2>9, <2>10 DEF Owned
<1> QED
    BY <1>2, <1>3, <1>4 DEF DeviceStep

\* The service has one file open at a time.
OneAtATime ==
    \A f, g \in Files : step[f] = "service" /\ step[g] = "service" => f = g

LEMMA HandleNextOwned ==
    ASSUME Owned, OneAtATime, Working, HandleNext("NvmeDirect" \in Flags)
    PROVE  Owned'
<1> DEFINE nvme == "NvmeDirect" \in Flags
<1>0. OwnersTypeOK /\ FilesOwned
    BY DEF Owned
<1>1. ASSUME NEW f \in Files, OpenNew(f), UNCHANGED deviceVars PROVE Owned'
    BY <1>1, OpenedOwned DEF OpenNew
<1>2. ASSUME NEW f \in Files, OpenFile(f, nvme) PROVE Owned'
  <2>1. step[f] = "none"
      BY <1>0, <1>2 DEF OpenFile, Idle, OwnersTypeOK, FilesOwned
  <2> QED
      BY <1>2, <2>1, OpenedOwned DEF OpenFile
<1>3. ASSUME NEW f \in Files, OpenContainer(f), UNCHANGED deviceVars PROVE Owned'
  <2>1. CloseFd(Fd[f], f)
      BY <1>0, <1>3 DEF OpenContainer, CloseFile, IsOpen, FilesOwned
  <2> QED
      BY <1>3, <2>1, ClosedOwned DEF OpenContainer, deviceVars
<1>4. ASSUME NEW f \in Files, NEW slot \in Slots, RegisterFile(f, slot), UNCHANGED deviceVars
      PROVE  Owned'
    BY <1>4, ClosedOwned DEF RegisterFile, ClosedAs, deviceVars
<1>5. ASSUME NEW f \in Files, NEW found \in BOOLEAN, nvme, RegisterContainer(f, found)
      PROVE  Owned'
  <2>1. CloseFd(Fd[f], f) /\ step[f] = "service" /\ AddContainer(f, found)
      BY <1>0, <1>5 DEF RegisterContainer, CloseFile, IsOpen, FilesOwned
  <2>2. \A g \in Files : step[g] = "service" => device' = device \/ g = f
      BY <2>1 DEF OneAtATime
  <2> QED
      BY <1>5, <2>1, <2>2, ClosedOwned DEF RegisterContainer, AddContainer
<1>6. ASSUME NEW f \in Files, UnregisterFile(f, nvme) PROVE Owned'
    BY <1>6, UnregisteredOwned
<1>7. ASSUME NEW f \in Files, NEW suitable \in BOOLEAN, CreateFileHandle(f, suitable),
             UNCHANGED deviceVars
      PROVE  Owned'
    BY <1>7, CreatedOwned
<1>8. ASSUME DeviceStep PROVE Owned'
    BY <1>8, DeviceStepOwned
<1> QED
    BY <1>1, <1>2, <1>3, <1>4, <1>5, <1>6, <1>7, <1>8 DEF HandleNext

LEMMA NextOwned == IInv /\ Owned /\ OneAtATime /\ [Next]_vars => Owned'
<1> SUFFICES ASSUME IInv, Owned, OneAtATime, [Next]_vars PROVE Owned'
    OBVIOUS
<1>1. CASE /\ RingNext
           /\ pc' = "gone" => \A f \in Files : State[f] = "Deleted" /\ step[f] = "none"
           /\ pc' = "gone" => device = "none"
           /\ UNCHANGED <<handleVars, deviceVars>>
    BY <1>1, RingNextOwned
<1>2. CASE /\ pc \in {"ready", "running"} /\ HandleNext("NvmeDirect" \in Flags)
           /\ UNCHANGED ringVars
    BY <1>2, HandleNextOwned DEF Working
<1>3. CASE UNCHANGED vars
    BY <1>3
    DEF vars, fdVars, ringVars, handleVars, deviceVars, Owned, OwnersTypeOK, RingOwned,
        NoRing, HasRing, QuietWhenNotRunning, Quiet, FilesOwned, DeviceOwned,
        OpensItsNamespace
<1> QED
    BY <1>1, <1>2, <1>3 DEF Next

LEMMA NextOneAtATime == Owned /\ OneAtATime /\ [Next]_vars => OneAtATime'
<1> SUFFICES ASSUME Owned, OneAtATime, [Next]_vars PROVE OneAtATime'
    OBVIOUS
<1>1. step \in [Files -> {"none", "create", "mount", "service"}]
    BY DEF Owned, OwnersTypeOK
<1>2. CASE UNCHANGED step
    BY <1>2 DEF OneAtATime
<1>3. ASSUME NEW f \in Files, NEW next \in {"none", "create", "mount"},
             step' = [step EXCEPT ![f] = next]
      PROVE  OneAtATime'
    BY <1>1, <1>3 DEF OneAtATime
<1>4. ASSUME NEW f \in Files, Idle, step' = [step EXCEPT ![f] = "service"]
      PROVE  OneAtATime'
    BY <1>1, <1>4 DEF OneAtATime, Idle
<1>5. CASE HandleNext("NvmeDirect" \in Flags)
  <2>1. \/ UNCHANGED step
        \/ \E f \in Files, next \in {"none", "create", "mount"} :
              step' = [step EXCEPT ![f] = next]
        \/ \E f \in Files : Idle /\ step' = [step EXCEPT ![f] = "service"]
      BY <1>5
      DEF HandleNext, OpenNew, OpenContainer, CreateFileHandle, OpenFile, UnregisterFile,
          RegisterFile, RegisterContainer, DeviceStep, handleVars
  <2> QED
      BY <1>2, <1>3, <1>4, <2>1
<1> QED
    BY <1>2, <1>5 DEF Next, vars, handleVars

\* For any number of files and descriptors: nobody's descriptor is closed by another
\* and nothing is unmapped twice, unless there never was a ring; nothing but what
\* CreateFileHandle leaks is left open; and the device is that of its containers.
THEOREM ResourcesAlwaysOwned == Spec => []ResourcesOwned
<1>1. IInv /\ Owned => ResourcesOwned
  <2> SUFFICES ASSUME IInv, Owned PROVE ResourcesOwned
      OBVIOUS
  <2>1. /\ closedForOthers # {} \/ unmappedTwice => NeverHadARing
        /\ \A d \in Fds : fds[d] = "ring" => ring.ring_fd = d /\ created /\ pc # "gone"
        /\ pc = "gone" => mapped = {}
      BY DEF IInv, SetupTypeOK, Owned, RingOwned, NoRing, HasRing, NeverHadARing, Before,
             Trying, Granted, Ended
  <2>2. \A f \in Files :
          /\ \A d \in Fds : fds[d] = f => d \in leaked \/ (Fd[f] = d /\ step[f] # "none")
          /\ step[f] # "none" => fds[Fd[f]] = f
      BY DEF Owned, FilesOwned
  <2>3. /\ \A d \in Fds : fds[d] = "device" => DeviceFd = d
        /\ RegisteredContainers # {} => DeviceFd # -1
        /\ DeviceFd # -1 => fds[DeviceFd] = "device" /\ OpensItsNamespace
        /\ pc = "gone" => DeviceFd = -1
    <3>1. \A d \in Fds : d # -1
        BY FdsAssumption DEF Fds
    <3> QED
        BY <3>1 DEF Owned, DeviceOwned, QuietWhenNotRunning, Quiet
  <2> QED
      BY <2>1, <2>2, <2>3 DEF ResourcesOwned
<1>2. Init => IInv /\ Owned /\ OneAtATime
  <2>1. Init => OneAtATime
      BY DEF Init, HandleInit, OneAtATime
  <2> QED
      BY <2>1, InitInv, InitOwned
<1>3. IInv /\ Owned /\ OneAtATime /\ [Next]_vars => IInv' /\ Owned' /\ OneAtATime'
    BY NextInv, NextOwned, NextOneAtATime
<1> QED
    BY <1>1, <1>2, <1>3, PTL DEF Spec
=============================================================================
