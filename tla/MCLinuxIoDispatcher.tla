------------------------- MODULE MCLinuxIoDispatcher -------------------------
EXTENDS LinuxIoDispatcher, TLC

CONSTANTS r1, r2, r3, f1, f2, b1, b2, b3

\* The second read is of the second container, where an instance has one.
MCFileOf == [r \in Requests |-> IF r = r2 /\ f2 \in Files THEN f2 ELSE f1]
\* No definition of the specification tells one buffer from another.
Symmetry == Permutations(Buffers)
=============================================================================
