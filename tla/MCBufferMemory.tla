--------------------------- MODULE MCBufferMemory ---------------------------
EXTENDS BufferMemory, TLC

CONSTANTS b1, b2, b3

\* No definition of the specification tells one buffer from another.
Symmetry == Permutations(Buffers)

\* One on a block, and one as far behind the start of any block as there is room for;
\* as large as a buffer.
SomeReads == [Offset : {0, 3}, Size : {BufferSize}]
=============================================================================
