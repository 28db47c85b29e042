----------------------------- MODULE Descriptors -----------------------------
(***************************************************************************)
(* The process's table of file descriptors, which everything that opens    *)
(* files shares: a descriptor is a number, close() takes any number, and a *)
(* number that is closed is given to whoever opens a file next.            *)
(***************************************************************************)
EXTENDS Naturals

CONSTANTS MaxFd, None   \* RLIMIT_NOFILE less one; not the owner of anything
ASSUME FdsAssumption == MaxFd \in Nat /\ MaxFd >= 3

Fds == 0 .. MaxFd

VARIABLES
    fds,                \* who opened the file behind each descriptor
    closedForOthers     \* whose descriptors were closed by somebody else

fdVars == <<fds, closedForOthers>>

\* Standard input, output and error are the process's.
FdInit ==
    /\ fds = [d \in Fds |-> IF d < 3 THEN "process" ELSE None]
    /\ closedForOthers = {}

FreeFds == {d \in Fds : fds[d] = None}
LowestFree == CHOOSE d \in FreeFds : \A e \in FreeFds : d <= e

OpenFd(owner) ==
    /\ FreeFds # {}
    /\ fds' = [fds EXCEPT ![LowestFree] = owner]
    /\ UNCHANGED closedForOthers

CloseFd(d, owner) ==
    /\ fds' = [fds EXCEPT ![d] = None]
    /\ closedForOthers' = closedForOthers \cup ({fds[d]} \ {owner, None})
=============================================================================
