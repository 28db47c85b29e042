--------------------------- MODULE LinuxFileHandle ---------------------------
(***************************************************************************)
(* FLinuxFileHandle: the descriptor a container file is open on, for as    *)
(* long as that is needed, or the slot it has in the registered-file       *)
(* table.  The engine's mount thread creates a handle and closes the file  *)
(* again; the service thread opens it once more to register it, or with    *)
(* NVMe passthrough to ask for its extents, and deletes the handle.        *)
(***************************************************************************)
EXTENDS NvmeDevice

CONSTANT Slots

VARIABLES
    State,      \* of each handle, "Deleted" if there is none
    Fd,         \* a descriptor, a slot, or -1
    step,       \* what the thread that has it open does next
    freeSlots,
    leaked      \* descriptors given up by CreateFileHandle

handleVars == <<State, Fd, step, freeSlots, leaked>>

HandleInit ==
    /\ State = [f \in Files |-> "Deleted"] /\ Fd = [f \in Files |-> -1]
    /\ step = [f \in Files |-> "none"]
    /\ freeSlots = Slots /\ leaked = {}

\* open(2) in CreateFileHandle, with O_DIRECT or else without.
OpenNew(f) ==
    /\ State[f] = "Deleted" /\ step[f] = "none"
    /\ OpenFd(f)
    /\ Fd' = [Fd EXCEPT ![f] = LowestFree]
    /\ step' = [step EXCEPT ![f] = "create"]
    /\ UNCHANGED <<State, freeSlots, leaked>>

\* The rest of CreateFileHandle: a file that cannot be examined, or is of the
\* wrong type for O_DIRECT, is given up without being closed.
CreateFileHandle(f, suitable) ==
    /\ step[f] = "create"
    /\ IF suitable
         THEN /\ State' = [State EXCEPT ![f] = "Opened"]
              /\ step' = [step EXCEPT ![f] = "mount"]
              /\ UNCHANGED <<Fd, leaked>>
         ELSE /\ leaked' = leaked \cup {Fd[f]}
              /\ Fd' = [Fd EXCEPT ![f] = -1]
              /\ step' = [step EXCEPT ![f] = "none"]
              /\ UNCHANGED State
    /\ UNCHANGED <<freeSlots, fdVars>>

\* Close() does something only to a handle that is open, whose Fd is a descriptor.
IsOpen(f) == State[f] = "Opened"

CloseFile(f) == IF IsOpen(f) THEN CloseFd(Fd[f], f) ELSE UNCHANGED fdVars

\* OpenContainer closes the file until it is read.
OpenContainer(f) ==
    /\ step[f] = "mount"
    /\ CloseFile(f)
    /\ State' = [State EXCEPT ![f] = "Closed"] /\ Fd' = [Fd EXCEPT ![f] = -1]
    /\ step' = [step EXCEPT ![f] = "none"]
    /\ UNCHANGED <<freeSlots, leaked>>

\* The service thread has no file open: it opens one at a time.
Idle == \A f \in Files : step[f] # "service"

\* Open(), for OpenFile or RegisterContainer.  If it fails the request does.
OpenFile(f, nvme) ==
    /\ State[f] = "Closed" /\ Idle
    /\ nvme => device \in {"new", "registered"} /\ ~FindContainer(f)
    /\ OpenFd(f)
    /\ Fd' = [Fd EXCEPT ![f] = LowestFree]
    /\ State' = [State EXCEPT ![f] = "Opened"]
    /\ step' = [step EXCEPT ![f] = "service"]
    /\ UNCHANGED <<freeSlots, leaked, deviceVars>>

\* RegisterFile: the descriptor is closed, and its place taken by the slot.
\* Mutant: the other way round, when Fd is the slot already.
ClosedAs_Slot(f, slot) == slot
ClosedAs(f, slot) == Fd[f]

RegisterFile(f, slot) ==
    /\ step[f] = "service" /\ slot \in freeSlots
    /\ CloseFd(ClosedAs(f, slot), f)
    /\ State' = [State EXCEPT ![f] = "Fixed"] /\ Fd' = [Fd EXCEPT ![f] = slot]
    /\ freeSlots' = freeSlots \ {slot}
    /\ step' = [step EXCEPT ![f] = "none"]
    /\ UNCHANGED leaked

\* FNvmeDevice::RegisterContainer; the file is closed whatever comes of it.
RegisterContainer(f, found) ==
    /\ step[f] = "service"
    /\ CloseFile(f)
    /\ AddContainer(f, found)
    /\ State' = [State EXCEPT ![f] = "Closed"] /\ Fd' = [Fd EXCEPT ![f] = -1]
    /\ step' = [step EXCEPT ![f] = "none"]
    /\ UNCHANGED <<freeSlots, leaked>>

\* UnregisterFile, and the destructor closes the file if it is open, which with
\* NVMe passthrough it is not.
UnregisterFile(f, nvme) ==
    /\ State[f] \in {"Closed", "Fixed"} /\ step[f] = "none"
    /\ Idle /\ device \in {"none", "registered"}
    /\ IF nvme THEN RemoveContainer(f) ELSE CloseFile(f) /\ UNCHANGED deviceVars
    /\ freeSlots' = IF State[f] = "Fixed" THEN freeSlots \cup {Fd[f]} ELSE freeSlots
    /\ State' = [State EXCEPT ![f] = "Deleted"] /\ Fd' = [Fd EXCEPT ![f] = -1]
    /\ UNCHANGED <<step, leaked>>

\* RegisterNvmeFile before and after the container's own registration.
DeviceStep ==
    /\ Idle
    /\ Identify \/ DestroyDevice \/ \E uevent \in Uevents : InitializeDevice(uevent)
    /\ UNCHANGED handleVars

HandleNext(nvme) ==
    \/ \E f \in Files :
         \/ (OpenNew(f) \/ OpenContainer(f)) /\ UNCHANGED deviceVars
         \/ \E suitable \in BOOLEAN : CreateFileHandle(f, suitable) /\ UNCHANGED deviceVars
         \/ OpenFile(f, nvme) \/ UnregisterFile(f, nvme)
         \/ ~nvme /\ \E slot \in Slots : RegisterFile(f, slot) /\ UNCHANGED deviceVars
         \/ nvme /\ \E found \in BOOLEAN : RegisterContainer(f, found)
    \/ nvme /\ DeviceStep
=============================================================================
