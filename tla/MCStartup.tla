------------------------------ MODULE MCStartup ------------------------------
EXTENDS Startup, TLC

CONSTANTS f1, f2

\* What the kernels brought, in this order.
Since == <<{"SQPOLL", "IOPOLL"}, {"SINGLE_MMAP"}, {"NODROP"}, {"R_DISABLED"}, {"RSRC_TAGS"}, {"SUBMIT_ALL"},
           {"COOP_TASKRUN", "SQE128", "CQE32"}, {"SINGLE_ISSUER"}, {"DEFER_TASKRUN"},
           {"NO_SQARRAY", "REG_REG_RING"}>>
MCKernels == {UNION {Since[i] : i \in 1 .. n} : n \in 0 .. Len(Since)}

MCQueueDepth == -1

\* A namespace's partition, the namespace itself, other disks, no name at all.
Uevent(name) == <<[key |-> "MINOR", value |-> <<"3">>], [key |-> "DEVNAME", value |-> name]>>
MCUevents == {Uevent(<<"nvme", "0", "n", "1", "p", "2">>), Uevent(<<"nvme", "0", "n", "1">>),
              Uevent(<<"nbd", "0", "p", "1">>), Uevent(<<"dm-", "0">>), <<>>}

\* No definition of the specification tells one file from another.
Symmetry == Permutations(Files)
=============================================================================
