------------------------------- MODULE Startup -------------------------------
(***************************************************************************)
(* The ring's set-up, the file handles and the NVMe device together, on    *)
(* the descriptor table they share: handles live while a dispatcher does.  *)
(***************************************************************************)
EXTENDS RingSetup, LinuxFileHandle

\* Nobody is taken for somebody else.
ASSUME OwnersAssumption ==
    /\ {"process", "ring", "device", None} \cap Files = {}
    /\ None \notin {"process", "ring", "device"}

\* How Linux names the block devices of an NVMe controller: a namespace, a partition.
ASSUME NamesAssumption ==
    \A u \in Uevents : \A i \in DOMAIN u :
       LET name == u[i].value IN
       (\E j \in DOMAIN name : name[j] = "nvme") =>
          \E c, n, p \in Numbers :
             name \in {<<"nvme", c, "n", n>>, <<"nvme", c, "n", n, "p", p>>}

vars == <<fdVars, ringVars, handleVars, deviceVars>>

Init == FdInit /\ RingInit /\ HandleInit /\ DeviceInit

\* The engine closes its containers before it lets the dispatcher go.
Next ==
    \/ /\ RingNext
       /\ pc' = "gone" => \A f \in Files : State[f] = "Deleted" /\ step[f] = "none"
       /\ pc' = "gone" => device = "none"
       /\ UNCHANGED <<handleVars, deviceVars>>
    \/ pc \in {"ready", "running"} /\ HandleNext("NvmeDirect" \in Flags)
         /\ UNCHANGED ringVars

Spec == Init /\ [][Next]_vars

-----------------------------------------------------------------------------
\* The plugin's flags say what the ring is: SUBMIT_ALL, on which the submission
\* path depends, is there if and only if it is believed to be; a ring is enabled
\* if and only if it was created disabled; and the kernel does take submissions
\* by the time the service thread makes any.
FlagsTellTruth ==
    /\ pc \in {"check", "files", "workers", "buffers", "ready", "running"} =>
         ("SubmitAll" \in Flags <=> "SUBMIT_ALL" \in ring.flags)
    /\ pc = "ready" => ("EnableRing" \in Flags <=> ~enabled)
    /\ pc = "running" => enabled

\* Buffers are registered only if locked memory suffices for them, whatever the
\* block size is that the files opened later turn out to need (UpdateMemory).  Block
\* sizes are powers of two: each divides the largest.
BlockSizes == {block \in 1 .. MaximumBlockSize : MaximumBlockSize % block = 0}
BuffersFitMemlock ==
    pc \in {"ready", "running"} /\ "RegisterBuffers" \in Flags =>
      \A block \in BlockSizes :
         BufferCount * (IF Flags \cap {"DirectIO", "NvmeDirect"} = {}
                          THEN ReadBufferSize ELSE ActualBufferSize(block)) <= memlock

\* The device that is open is the namespace whose disk the containers' partition
\* is on: block numbers counted in that disk's blocks are used on no other.
OpensItsNamespace ==
    DiskOf(ControllerDevice) =
      <<"nvme", CharacterDevice.controller, "n", CharacterDevice.namespace>>

\* Descriptors and mappings belong to whoever made them: no part closes what is not
\* its own or unmaps memory twice (but see NeverHadARing); every descriptor is the
\* process's, the ring's, an open handle's, the device's, or one CreateFileHandle
\* leaked; the device is open while it has containers, as the namespace that they
\* are on; and when the dispatcher is gone nothing of its ring is left.
NeverHadARing == pc = "gone" /\ ~created
ResourcesOwned ==
    /\ closedForOthers # {} \/ unmappedTwice => NeverHadARing
    /\ \A d \in Fds : fds[d] = "ring" => ring.ring_fd = d /\ created /\ pc # "gone"
    /\ \A f \in Files : \A d \in Fds :
          fds[d] = f => d \in leaked \/ (Fd[f] = d /\ step[f] # "none")
    /\ \A f \in Files : step[f] # "none" => fds[Fd[f]] = f
    /\ \A d \in Fds : fds[d] = "device" => DeviceFd = d
    /\ RegisteredContainers # {} => DeviceFd # -1
    /\ DeviceFd # -1 => fds[DeviceFd] = "device" /\ OpensItsNamespace
    /\ pc = "gone" => mapped = {} /\ DeviceFd = -1
=============================================================================
