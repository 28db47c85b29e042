------------------------------ MODULE RingSetup ------------------------------
(***************************************************************************)
(* The life of the dispatcher's io_uring: CreatePlatformFileIoStore makes  *)
(* a dispatcher, which asks the kernel for a ring with every feature it    *)
(* can use and again with fewer, checks what it got, and gives itself up   *)
(* when it cannot do without something; the first StartRequests enables    *)
(* the ring; the destructor takes it down.  Flags of the kernel are named  *)
(* without IORING_SETUP_, those of EUringFlags as in the code.             *)
(***************************************************************************)
EXTENDS Descriptors, Integers, Sequences, FiniteSets

CONSTANTS
    Kernels,        \* kernels, each the set of flags and features it has
    MemlockLimits,  \* RLIMIT_MEMLOCK
    BufferCount, ReadBufferSize,    \* of the engine's read buffers
    MaximumBlockSize,               \* of any device
    GQueueDepth,                    \* -1: as many as there are buffers
    MaxEntries                      \* of a ring: 32768 in the kernel

Optional == {"IOPoll", "SQPoll", "NvmeDirect", "DirectIO", "RegisterBuffers"}
Default == {"RegisterRing", "EnableRing", "SubmitAll"}

\* What a kernel may know: flags to ask for, and features it tells of.
SetupFlags == {"IOPOLL", "SQPOLL", "R_DISABLED", "SUBMIT_ALL", "COOP_TASKRUN", "SQE128",
               "CQE32", "SINGLE_ISSUER", "DEFER_TASKRUN", "NO_SQARRAY"}
Features == {"SINGLE_MMAP", "NODROP", "RSRC_TAGS", "REG_REG_RING"}

ASSUME KernelsAssumption == \A k \in Kernels : k \subseteq SetupFlags \cup Features
ASSUME MemoryAssumption ==
    /\ MemlockLimits \subseteq Nat /\ BufferCount \in Nat /\ ReadBufferSize \in Nat
    /\ MaximumBlockSize \in Nat \ {0}

VARIABLES
    pc,
    Flags,
    kernel, memlock,
    params,         \* Params.flags, kept from one attempt to the next
    attempt,
    created,        \* an attempt has succeeded
    ring,           \* struct io_uring
    mapped,         \* the ring's memory areas that are mapped
    unmappedTwice,
    enabled,        \* the kernel accepts submissions
    didIncrease     \* io_uring_register_files has raised RLIMIT_NOFILE

ringVars == <<pc, Flags, kernel, memlock, params, attempt, created, ring, mapped,
              unmappedTwice, enabled, didIncrease>>

\* All zero, as after memset: ring_fd is 0, the number of standard input.
ZeroRing == [ring_fd |-> 0, flags |-> {}, pointers |-> {}, REG_RING |-> FALSE,
             REG_REG_RING |-> FALSE]

RingInit ==
    /\ pc = "off" /\ Flags = Default /\ kernel \in Kernels
    /\ memlock \in MemlockLimits
    /\ params = {} /\ attempt = 1 /\ created = FALSE
    /\ ring = ZeroRing /\ mapped = {} /\ unmappedTwice = FALSE /\ enabled = FALSE
    /\ didIncrease = FALSE

Requested(flags) ==
    (IF "SQPoll" \in flags THEN {"SQPOLL", "SUBMIT_ALL"}
     ELSE {"DEFER_TASKRUN", "SINGLE_ISSUER", "COOP_TASKRUN", "SUBMIT_ALL", "R_DISABLED"})
    \cup (IF "IOPoll" \in flags THEN {"IOPOLL"} ELSE {})
    \cup (IF "NvmeDirect" \in flags THEN {"SQE128", "CQE32"} ELSE {})

\* Initialize up to CreateRing: the console variables say what to use, IOPoll
\* needs poll queues and brings DirectIO.
AddFlags(cvars, pollQueues) ==
    Default \cup (IF "IOPoll" \notin cvars THEN cvars
                  ELSE IF pollQueues THEN cvars \cup {"DirectIO"} ELSE cvars \ {"IOPoll"})

\* CreateRing, where a polling thread needs threads, and the ring is then neither
\* disabled at first nor registered.
RingFlags(flags, multithreaded) ==
    IF "SQPoll" \notin flags THEN flags
    ELSE IF multithreaded THEN flags \ {"RegisterRing", "EnableRing"} ELSE flags \ {"SQPoll"}

\* Entries of the submission queue.
MaxPendingRequests == IF GQueueDepth = -1 THEN BufferCount ELSE GQueueDepth

Create(flags) ==
    /\ pc = "off" /\ pc' = "try"
    /\ Flags' = flags /\ params' = Requested(flags)
    /\ UNCHANGED <<kernel, memlock, attempt, created, ring, mapped, unmappedTwice,
                   enabled, didIncrease, fdVars>>

\* The engine asks for a dispatcher, unless it is told to use its own file I/O.
CreatePlatformFileIoStore(cvars, pollQueues, multithreaded) ==
    Create(RingFlags(AddFlags(cvars, pollQueues), multithreaded))

NoPlatformFileIoStore ==
    /\ pc = "off" /\ pc' = "declined"
    /\ UNCHANGED <<Flags, kernel, memlock, params, attempt, created, ring, mapped,
                   unmappedTwice, enabled, didIncrease, fdVars>>

\* What each further attempt of CreateRing does without.
Drops ==
    IF "SQPoll" \in Flags THEN <<"SUBMIT_ALL">>
    ELSE <<"DEFER_TASKRUN", "SINGLE_ISSUER", "COOP_TASKRUN", "SUBMIT_ALL">>

\* Mutant: the plugin goes on believing in SUBMIT_ALL.
FlagsWithout_Kept(dropped) == Flags
FlagsWithout(dropped) == IF dropped = "SUBMIT_ALL" THEN Flags \ {"SubmitAll"} ELSE Flags

\* The next attempt, with one flag less, or none is left.
NextAttempt(flags) ==
    IF attempt <= Len(Drops)
      THEN /\ params' = flags \ {Drops[attempt]}
           /\ Flags' = FlagsWithout(Drops[attempt])
           /\ attempt' = attempt + 1 /\ pc' = "try"
      ELSE pc' = "destroy" /\ UNCHANGED <<params, Flags, attempt>>

\* VERIFY_URING_SAFE and VERIFY_URING: what an error leads to.
VerifySafe(ok, next) == IF ok THEN next ELSE "destroy"
Verify(ok, next) == IF ok THEN next ELSE "fatal"

\* The kernel knows the flags and takes them together.
Accepts(flags) ==
    /\ flags \subseteq kernel
    /\ MaxPendingRequests \in 1 .. MaxEntries
    /\ "DEFER_TASKRUN" \in flags => "SINGLE_ISSUER" \in flags

Single == "SINGLE_MMAP" \in kernel
Areas == IF Single THEN {"rings", "sqes"} ELSE {"rings", "cq", "sqes"}

\* io_uring_setup may fail, and so may the mapping of each area.
Outcomes(flags) == IF Accepts(flags) THEN {"ok", "ENOMEM"} \cup Areas ELSE {"EINVAL"}

\* io_uring_mmap: areas whose address stays in the struct when the mapping of one
\* fails, although io_uring_unmap_rings has unmapped them again.
LeftBehind(area) ==
    CASE area = "cq" -> {"rings"}
      [] area = "sqes" -> Areas \ {"sqes"}
      [] OTHER -> {}

\* __io_uring_queue_init_params.
QueueInit(flags, outcome) ==
    /\ outcome \in Outcomes(flags)
    /\ IF outcome = "ok"
         THEN /\ OpenFd("ring")
              /\ ring' = [ring_fd |-> LowestFree, flags |-> flags, pointers |-> Areas,
                          REG_RING |-> FALSE, REG_REG_RING |-> FALSE]
              /\ mapped' = Areas /\ enabled' = ("R_DISABLED" \notin flags)
              /\ created' = TRUE
         ELSE /\ ring' = [ZeroRing EXCEPT !.pointers = LeftBehind(outcome)]
              /\ UNCHANGED <<fdVars, mapped, enabled, created>>
    /\ UNCHANGED <<kernel, memlock, unmappedTwice, didIncrease>>

\* io_uring_queue_init_try_nosqarr: only EINVAL leads to the call without the
\* flag; after another error it stays in the flags of the attempts that follow.
TryNoSqarray(outcome) ==
    LET flags == params \cup {"NO_SQARRAY"} IN
    /\ pc = "try"
    /\ QueueInit(flags, outcome)
    /\ CASE outcome = "ok" -> pc' = "check" /\ UNCHANGED <<params, Flags, attempt>>
         [] outcome = "EINVAL" /\ "NO_SQARRAY" \notin params ->
              pc' = "plain" /\ UNCHANGED <<params, Flags, attempt>>
         [] OTHER -> NextAttempt(flags)

TryPlain(outcome) ==
    /\ pc = "plain"
    /\ QueueInit(params, outcome)
    /\ IF outcome = "ok" THEN pc' = "check" /\ UNCHANGED <<params, Flags, attempt>>
                         ELSE NextAttempt(params)

\* Features the dispatcher cannot do without.
CheckFeatures ==
    /\ pc = "check"
    /\ pc' = VerifySafe({"NODROP", "RSRC_TAGS"} \subseteq kernel, "files")
    /\ UNCHANGED <<Flags, kernel, memlock, params, attempt, created, ring,
                   mapped, unmappedTwice, enabled, didIncrease, fdVars>>

\* io_uring_register_files: EMFILE is answered once by raising the limit.
RegisterFiles(result) ==
    /\ pc = "files"
    /\ IF result = "EMFILE" /\ ~didIncrease
         THEN didIncrease' = TRUE /\ pc' = "increase"
         ELSE pc' = VerifySafe(result = "ok", "workers") /\ UNCHANGED didIncrease
    /\ UNCHANGED <<Flags, kernel, memlock, params, attempt, created, ring,
                   mapped, unmappedTwice, enabled, fdVars>>

\* increase_rlimit_nofile, which may be of no use: RLIMIT_NOFILE has a hard limit.
IncreaseLimit ==
    /\ pc = "increase"
    /\ pc' = "files"
    /\ UNCHANGED <<Flags, kernel, memlock, params, attempt, created,
                   ring, mapped, unmappedTwice, enabled, didIncrease, fdVars>>

\* The kernel's workers are limited, if it can and whether or not it does.
LimitWorkers ==
    /\ pc = "workers" /\ pc' = "buffers"
    /\ UNCHANGED <<Flags, kernel, memlock, params, attempt, created, ring, mapped,
                   unmappedTwice, enabled, didIncrease, fdVars>>

\* A buffer's size once it is aligned for reads in whole blocks.
ActualBufferSize(block) == ((ReadBufferSize + 2 * block + block - 1) \div block) * block

\* Locked memory that registered buffers may take.  Mutant: by the block size
\* the plugin starts with, the least there is.
NeededMemory_Least == IF Flags \cap {"DirectIO", "NvmeDirect"} = {}
                        THEN BufferCount * ReadBufferSize
                        ELSE BufferCount * ActualBufferSize(1)
NeededMemory == IF Flags \cap {"DirectIO", "NvmeDirect"} = {}
                  THEN BufferCount * ReadBufferSize
                  ELSE BufferCount * ActualBufferSize(MaximumBlockSize)

SizeBuffers ==
    /\ pc = "buffers"
    /\ Flags' = IF memlock < NeededMemory THEN Flags \ {"RegisterBuffers"} ELSE Flags
    /\ pc' = "ready"
    /\ UNCHANGED <<kernel, memlock, params, attempt, created, ring, mapped,
                   unmappedTwice, enabled, didIncrease, fdVars>>

\* io_uring_register_ring_fd: with the feature, even registrations of other things
\* go by the registered descriptor.
RegisterRingFd(ok) ==
    [ring EXCEPT !.REG_RING = ok, !.REG_REG_RING = ok /\ "REG_REG_RING" \in kernel]

\* The first StartRequests.  Enabling a ring that is not disabled is an error, as
\* VERIFY_URING has it; a ring descriptor that cannot be registered is not needed.
EnableRing(registered) ==
    /\ pc = "ready"
    /\ pc' = Verify("EnableRing" \in Flags => ~enabled, "running")
    /\ enabled' = (enabled \/ "EnableRing" \in Flags)
    /\ ring' = RegisterRingFd("RegisterRing" \in Flags /\ registered)
    /\ Flags' = Flags \ {"EnableRing", "RegisterRing"}
    /\ UNCHANGED <<kernel, memlock, params, attempt, created, mapped,
                   unmappedTwice, didIncrease, fdVars>>

\* What io_uring_unmap_rings and io_uring_queue_exit unmap.
Unmapped == ring.pointers

\* io_uring_unregister_ring_fd, which only the thread that registered it can do.
UnregisterRingFd(ok) ==
    IF ring.REG_RING /\ ok
      THEN [ring EXCEPT !.REG_RING = FALSE, !.REG_REG_RING = FALSE] ELSE ring

\* io_uring_queue_exit closes ring_fd unless it is -1, and unmaps what the struct
\* points to, whatever became of it.
QueueExit(unregistered) ==
    /\ ring' = UnregisterRingFd(unregistered)
    /\ CloseFd(ring.ring_fd, "ring")
    /\ unmappedTwice' = ~(Unmapped \subseteq mapped)
    /\ mapped' = mapped \ Unmapped /\ enabled' = FALSE

\* The destructor: the dispatcher is of no use, or the engine shuts down.
Destroy(unregistered) ==
    /\ pc \in {"destroy", "ready", "running"}
    /\ QueueExit(unregistered)
    /\ pc' = "gone"
    /\ UNCHANGED <<Flags, kernel, memlock, params, attempt, created, didIncrease>>

RingNext ==
    \/ \E cvars \in SUBSET Optional, pollQueues, multithreaded \in BOOLEAN :
          CreatePlatformFileIoStore(cvars, pollQueues, multithreaded)
    \/ NoPlatformFileIoStore
    \/ \E outcome \in {"ok", "EINVAL", "ENOMEM", "rings", "cq", "sqes"} :
          TryNoSqarray(outcome) \/ TryPlain(outcome)
    \/ CheckFeatures
    \/ \E result \in {"ok", "EMFILE", "other"} : RegisterFiles(result)
    \/ IncreaseLimit \/ LimitWorkers \/ SizeBuffers
    \/ \E registered \in BOOLEAN : EnableRing(registered) \/ Destroy(registered)
=============================================================================
