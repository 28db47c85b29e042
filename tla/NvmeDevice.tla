------------------------------ MODULE NvmeDevice ------------------------------
(***************************************************************************)
(* The character device of an NVMe namespace, which the service thread     *)
(* opens for the first container that lies on it and closes with the last. *)
(* While a device is new it is in a local of RegisterNvmeFile, and goes    *)
(* away again if anything fails.  The containers are on one device.        *)
(***************************************************************************)
EXTENDS Descriptors, Integers, Sequences, FiniteSetsExt

CONSTANTS
    Files,
    Uevents         \* sysfs about block devices that containers are on: sequences of
                    \* keys and values, a name being a sequence of words and numbers
ASSUME UeventsAssumption ==
    \A u \in Uevents : u \in Seq([key : STRING, value : Seq(STRING)])

VARIABLES
    DeviceFd,               \* -1 while the device is not open
    device,                 \* "none", "opened", "new", "rejected" or "registered"
    RegisteredContainers,
    ControllerDevice,       \* the name of the partition, <<>> without a device
    CharacterDevice         \* what was opened

deviceVars == <<DeviceFd, device, RegisteredContainers, ControllerDevice,
                CharacterDevice>>

NoCharacterDevice == [controller |-> "", namespace |-> ""]

DeviceInit ==
    /\ DeviceFd = -1 /\ device = "none" /\ RegisteredContainers = {}
    /\ ControllerDevice = <<>> /\ CharacterDevice = NoCharacterDevice

-----------------------------------------------------------------------------
(* The names of devices.  A name is split where digits begin and end.        *)

Numbers == {"0", "1", "2", "3"}

\* GetControllerDevice: what the first DEVNAME says, <<>> if it is missing.
GetControllerDevice(uevent) ==
    LET named == {i \in DOMAIN uevent : uevent[i].key = "DEVNAME"}
    IN  IF named = {} THEN <<>> ELSE uevent[Min(named)].value

\* The number that follows the word at i, "" if there is none.
NumberAfter(name, i) ==
    IF i + 1 \in DOMAIN name /\ name[i + 1] \in Numbers THEN name[i + 1] ELSE ""

\* Words with an n in them.
NWords == {"n", "nvme", "nbd"}

\* Where a word is that has the letter looked for.
FindLast(name, words) == Max({0} \cup {i \in DOMAIN name : name[i] \in words})
FindFirst(name, words) == Min({Len(name) + 1} \cup {i \in DOMAIN name : name[i] \in words})

\* GetCharacterDevice: /dev/ng<controller>n<namespace>, or "" for what is missing.
\* Only the word n has digits right after its n.
GetCharacterDevice(name) ==
    LET last == FindLast(name, NWords)
    IN  [controller |-> NumberAfter(name, FindFirst(name, {"nvme"})),
         namespace |-> IF last # 0 /\ name[last] = "n" THEN NumberAfter(name, last) ELSE ""]

\* GetLogicalBlockSizeValue: the disk whose queue has it, the name up to its last p.
HasPartition(name) == FindLast(name, {"p"}) # 0
DiskOf(name) == SubSeq(name, 1, FindLast(name, {"p"}) - 1)

\* What the name must be like for Initialize to get as far as open(2).
Recognised(name) ==
    LET char == GetCharacterDevice(name)
    IN  HasPartition(name) /\ char.controller # "" /\ char.namespace # ""

-----------------------------------------------------------------------------
\* FNvmeDevice::Initialize up to open(2).  If sysfs does not have the attributes of
\* a partition and the block size of its disk, nothing has happened.
InitializeDevice(uevent) ==
    LET name == GetControllerDevice(uevent)
    IN  /\ device = "none" /\ Recognised(name)
        /\ OpenFd("device")
        /\ DeviceFd' = LowestFree /\ device' = "opened"
        /\ ControllerDevice' = name /\ CharacterDevice' = GetCharacterDevice(name)
        /\ UNCHANGED RegisteredContainers

\* The namespace's number.
Identify ==
    /\ device = "opened" /\ device' = "new"
    /\ UNCHANGED <<DeviceFd, RegisteredContainers, ControllerDevice, CharacterDevice,
                   fdVars>>

NoDevice ==
    /\ DeviceFd' = -1 /\ device' = "none"
    /\ ControllerDevice' = <<>> /\ CharacterDevice' = NoCharacterDevice

\* The destructor, which the end of Create or of RegisterNvmeFile calls if the
\* device has no number, or its first container cannot be opened or mapped.
DestroyDevice ==
    /\ device \in {"opened", "new", "rejected"}
    /\ CloseFd(DeviceFd, "device")
    /\ NoDevice
    /\ UNCHANGED RegisteredContainers

FindContainer(f) == f \in RegisteredContainers

\* The end of RegisterContainer, whether or not FIEMAP gave the extents.
AddContainer(f, found) ==
    /\ RegisteredContainers' = IF found THEN RegisteredContainers \cup {f}
                                         ELSE RegisteredContainers
    /\ device' = IF found THEN "registered"
                 ELSE IF device = "new" THEN "rejected" ELSE device
    /\ UNCHANGED <<DeviceFd, ControllerDevice, CharacterDevice>>

\* UnregisterNvmeFile.
ShouldRemove(f) == RegisteredContainers \ {f} = {}

RemoveContainer(f) ==
    /\ RegisteredContainers' = RegisteredContainers \ {f}
    /\ IF device = "registered" /\ ShouldRemove(f)
         THEN CloseFd(DeviceFd, "device") /\ NoDevice
         ELSE UNCHANGED <<DeviceFd, device, ControllerDevice, CharacterDevice, fdVars>>
=============================================================================
