-------------------------- MODULE MCNvmePassthrough --------------------------
EXTENDS NvmePassthrough, TLC

CONSTANTS r1, r2, b1, b2, f1, f2, d1, d2, t1, t2

Extent(l, p, n) == [LogicalOffset |-> l, PhysicalOffset |-> p, Length |-> n]

\* f1 lies in three pieces out of order, f2 in two.
MCFileExtents ==
    [f \in Files |-> IF f = f2 THEN <<Extent(0, 4, 2), Extent(2, 8, 2)>>
                     ELSE <<Extent(0, 8, 4), Extent(4, 2, 2), Extent(6, 14, 2)>>]
MCDeviceOf == [f \in Files |-> IF f = f2 THEN d2 ELSE d1]

Rd(f, offset, size) == [file |-> f, Offset |-> offset, Size |-> size]
\* From inside an extent into the next, from where an extent ends, past the last
\* extent, and out of it.
MCReads == {Rd(f1, 3, 2), Rd(f2, 3, 1), Rd(f2, 4, 1), Rd(f2, 3, 2)}
\* Past the last extent, and not on a block boundary.
MCReadsPastEnd == {Rd(f1, 3, 2), Rd(f2, 5, 1)}

\* No definition of the specification tells one buffer or request from another.
Symmetry == Permutations(Buffers) \cup Permutations(Requests)
=============================================================================
