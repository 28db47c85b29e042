-------------------------- MODULE BufferMemoryProofs --------------------------
(***************************************************************************)
(* For any number of buffers, block sizes and growths of the block size,   *)
(* memory of read buffers is released once and never while in use, and two *)
(* buffers never stand for the same block.                                 *)
(***************************************************************************)
EXTENDS BufferMemory, FiniteSetTheorems, TLAPS

-----------------------------------------------------------------------------
(* The inductive invariant                                                   *)

\* The buffer in the service thread's hands is no read's, and from "register" on
\* it has moved to its new memory.
InHand ==
    /\ AcquiredBuffer # None => use[AcquiredBuffer] = "acquired"
    /\ pc \in {"register", "release", "issue"} => NewBuffer[AcquiredBuffer] = None

\* Nothing is in use before the engine's memory is exchanged.
BeforeFinalize ==
    IF pc = "finalize"
      THEN /\ \A b \in Buffers : use[b] = "free" /\ NewBuffer[b] = None
           /\ DirectIOPendingReleases = {} /\ RegisteredBuffers = {}
      ELSE DirectIOBuffer > 0

\* Alignments only grow: what is to be released is older than what is current.
Growth ==
    /\ pc = "grow" => blockSize > DirectIOBuffer
    /\ pc \in {"switch", "register", "release", "issue"} => blockSize <= DirectIOBuffer
    /\ \A r \in DirectIOPendingReleases : r.Memory < DirectIOBuffer

\* A buffer is in the current allocation, or in an older one and to move there.
Placement ==
    \A b \in Buffers :
        IF NewBuffer[b] = None THEN Memory[b].alloc = DirectIOBuffer
        ELSE NewBuffer[b].alloc = DirectIOBuffer /\ Memory[b].alloc < DirectIOBuffer

\* No two buffers are, or are going to be, in one place.
Distinct ==
    \A b, c \in Buffers : b # c => Memory[b] # Memory[c] /\ Placed(b) # Placed(c)

\* Old memory with a buffer in use in it is on the list, for that buffer.  The one
\* that has just been acquired is about to leave.
Leaving(b) == b = AcquiredBuffer /\ pc \in {"grow", "switch"}
Tracked ==
    \A b \in Buffers :
        use[b] # "free" /\ ~Leaving(b) /\ Memory[b].alloc # DirectIOBuffer =>
            \E r \in DirectIOPendingReleases :
                r.Memory = Memory[b].alloc /\ b \in r.References

\* A read goes to the memory that its buffer had when it was prepared, and has.
TargetIsMemory ==
    \A b \in Buffers :
        use[b] \in {"prepared", "inflight"} => target[b].address = Memory[b]

\* The registered buffer `number` holds the block at `address`.
Holds(number, address) ==
    \E c \in RegisteredBuffers :
        c.number = number /\ c.alloc = address.alloc /\ address.index \in c.indices

\* Registered is an aligned allocation, the current one but for a moment, in which
\* nothing is prepared; every buffer has the number of the one it is or will be in.
Registered ==
    RegisterBuffers /\ pc # "finalize" =>
      /\ \E a \in Alignments : a > 0 /\ RegisteredBuffers = Chunks(a)
      /\ \A b \in Buffers :
            IF pc = "register" THEN use[b] # "prepared" ELSE Holds(BufferIndex[b], Placed(b))
      /\ \A b \in Buffers : use[b] \in {"prepared", "inflight"} =>
            Holds(target[b].number, target[b].address)

\* But for the buffers that a read without a start extent has left out of place, Memory
\* is at the start of its block while a read is under way, and otherwise as far behind
\* it as FixupOffset says, unless the buffer is to move to another block first.
InPlace ==
    \A b \in Buffers \ missed :
        IF use[b] \in {"prepared", "inflight", "done"} THEN moved[b] = 0
        ELSE NewBuffer[b] = None => moved[b] = FixupOffset[b]

IInv ==
    /\ TypeOK /\ InHand /\ BeforeFinalize /\ Growth /\ Placement /\ Distinct
    /\ MemoryAccounted /\ Tracked /\ TargetIsMemory /\ Registered
    /\ InPlace /\ ReadsInBlock

-----------------------------------------------------------------------------
(* Constants and registered buffers                                          *)

USE DEF EngineMemory, bufferVars, allocVars, flagVars, registeredVars

LEMMA Constants ==
    /\ IsFiniteSet(Buffers) /\ None \notin Buffers /\ None \notin Addresses
    /\ Alignments \subseteq Nat /\ BlockSizes \subseteq Alignments
    /\ GIODefaultBufferAlignment \in Alignments /\ GIODefaultBufferAlignment > 0
    /\ BufferSize \in Nat \ {0} /\ MaxBufferSize \in Nat
    /\ NumAllocatedBuffers \in Nat
BY BufferConstants, FS_CardinalityType DEF Alignments, NumAllocatedBuffers

LEMMA AlignmentTypes ==
    ASSUME TypeOK
    PROVE  /\ DirectIOBuffer \in Nat /\ blockSize \in Nat
           /\ \A r \in DirectIOPendingReleases : r.Memory \in Nat
           /\ \A b \in Buffers : Memory[b].alloc \in Nat
           /\ pc \notin {"finalize", "next"} => AcquiredBuffer \in Buffers
<1>1. Alignments \cup {EngineMemory} \subseteq Nat /\ BlockSizes \cup {0} \subseteq Nat
  BY Constants
<1>2. DirectIOBuffer \in Nat /\ blockSize \in Nat
  BY <1>1 DEF TypeOK
<1>3. \A r \in DirectIOPendingReleases : r.Memory \in Nat
  BY <1>1 DEF TypeOK
<1>4. \A b \in Buffers : Memory[b].alloc \in Nat
  BY <1>1 DEF TypeOK, Addresses
<1>5. pc \notin {"finalize", "next"} => AcquiredBuffer \in Buffers
  BY DEF TypeOK
<1>6. QED
  BY <1>2, <1>3, <1>4, <1>5

\* A block of an aligned allocation is not empty, and as many as one registered
\* buffer holds is at least one.
LEMMA PerAllocPositive ==
    ASSUME NEW a \in Alignments, a > 0
    PROVE  /\ ActualBufferSize(a) \in Nat \ {0}
           /\ PerAlloc(a) \in Nat \ {0}
           /\ PerAlloc(a) * ActualBufferSize(a) <= MaxBufferSize
<1> DEFINE n == (BufferSize + 2 * a + a - 1) \div a
<1>1. a \in Nat \ {0} /\ BufferSize \in Nat \ {0} /\ MaxBufferSize \in Nat
  BY Constants
<1>2. n \in Nat \ {0}
  BY <1>1, SMT
<1>3. ActualBufferSize(a) = n * a
  BY <1>1 DEF ActualBufferSize, AlignUp
<1>4. ActualBufferSize(a) \in Nat \ {0}
  BY <1>1, <1>2, <1>3
<1>5. ActualBufferSize(a) <= MaxBufferSize
  BY ABufferFits
<1>6. \A s \in Nat \ {0}, m \in Nat : s <= m => m \div s \in Nat \ {0} /\ (m \div s) * s <= m
  OBVIOUS
<1>7. QED
  BY <1>1, <1>4, <1>5, <1>6 DEF PerAlloc

LEMMA ChunkOfType ==
    ASSUME NEW a \in Alignments, a > 0, NEW i \in Indices
    PROVE  ChunkOf(a, i) \in Nat
<1>1. i \in Nat
  BY Constants DEF Indices
<1>2. QED
  BY <1>1, PerAllocPositive DEF ChunkOf

\* A registered buffer is no larger than the kernel allows.
LEMMA ChunkCapacity ==
    ASSUME NEW a \in Alignments, a > 0, NEW c \in Chunks(a)
    PROVE  Cardinality(c.indices) * ActualBufferSize(c.alloc) <= MaxBufferSize
<1> DEFINE n == NumAllocatedBuffers
           s == ActualBufferSize(a)
           p == PerAlloc(a)
<1>1. PICK i \in Indices :
        c = [number |-> ChunkOf(a, i), alloc |-> a,
             indices |-> {j \in Indices : ChunkOf(a, j) = ChunkOf(a, i)}]
  BY DEF Chunks
<1>2. /\ s \in Nat \ {0} /\ p \in Nat \ {0} /\ p * s <= MaxBufferSize
      /\ n \in Nat /\ MaxBufferSize \in Nat
  BY Constants, PerAllocPositive
<1>3. c.alloc = a /\ c.indices = {j \in Indices : ChunkOf(a, j) = ChunkOf(a, i)}
  BY <1>1
<1>4. \A k, m, z \in Nat : k <= m => k * z <= m * z
  OBVIOUS
<1>5. CASE s * n <= MaxBufferSize
  <2>1. IsFiniteSet(Indices) /\ Cardinality(Indices) = n
    <3>1. n - 1 \in Int /\ 0 \in Int
      BY <1>2
    <3>2. IsFiniteSet(0 .. n - 1)
          /\ Cardinality(0 .. n - 1) = IF 0 > n - 1 THEN 0 ELSE n - 1 - 0 + 1
      BY <3>1, FS_Interval
    <3>3. QED
      BY <1>2, <3>2 DEF Indices
  <2>2. c.indices \in SUBSET Indices
    BY <1>3
  <2>3. Cardinality(c.indices) \in Nat /\ Cardinality(c.indices) <= n
    BY <2>1, <2>2, FS_Subset, FS_CardinalityType
  <2> HIDE DEF n, s
  <2>4. Cardinality(c.indices) * s <= n * s /\ n * s = s * n
    BY <1>2, <1>4, <2>3
  <2>5. Cardinality(c.indices) * s \in Nat /\ n * s \in Nat
    BY <1>2, <2>3
  <2>6. Cardinality(c.indices) * s <= MaxBufferSize
    BY <1>2, <1>5, <2>4, <2>5
  <2>7. QED
    BY <1>3, <2>6 DEF s
<1>6. CASE ~(s * n <= MaxBufferSize)
  <2> DEFINE k == ChunkOf(a, i)
             low == k * p
  <2>1. k \in Nat /\ low \in Nat
    BY <1>2, ChunkOfType
  <2>2. \A j \in Indices : j \in Nat /\ ChunkOf(a, j) = j \div p
    BY <1>2, <1>6 DEF ChunkOf, Indices
  <2>3. \A j, q, y \in Nat : q # 0 /\ j \div q = y => y * q <= j /\ j <= y * q + q - 1
    OBVIOUS
  <2>4. c.indices \in SUBSET (low .. low + p - 1)
    <3> SUFFICES ASSUME NEW j \in c.indices PROVE j \in low .. low + p - 1
      OBVIOUS
    <3>1. j \in Nat /\ j \div p = k
      BY <1>3, <2>2
    <3> HIDE DEF k, p
    <3>2. QED
      BY <1>2, <2>1, <2>3, <3>1
  <2>5. IsFiniteSet(low .. low + p - 1) /\ Cardinality(low .. low + p - 1) = p
    <3> HIDE DEF low, p
    <3>1. low \in Int /\ low + p - 1 \in Int /\ low <= low + p - 1
      BY <1>2, <2>1
    <3>2. \A x, y \in Int : IsFiniteSet(x .. y)
            /\ Cardinality(x .. y) = IF x > y THEN 0 ELSE y - x + 1
      BY FS_Interval
    <3> DEFINE high == low + p - 1
    <3>3. high - low + 1 = p
      BY <1>2, <2>1
    <3> HIDE DEF high
    <3>4. IsFiniteSet(low .. high) /\ Cardinality(low .. high) = high - low + 1
      BY <3>1, <3>2 DEF high
    <3>5. QED
      BY <3>3, <3>4 DEF high
  <2>6. Cardinality(c.indices) \in Nat /\ Cardinality(c.indices) <= p
    BY <2>4, <2>5, FS_Subset, FS_CardinalityType
  <2> HIDE DEF p, s
  <2>7. Cardinality(c.indices) * s <= p * s
    BY <1>2, <1>4, <2>6
  <2>8. Cardinality(c.indices) * s \in Nat /\ p * s \in Nat
    BY <1>2, <2>6
  <2>9. Cardinality(c.indices) * s <= MaxBufferSize
    BY <1>2, <2>7, <2>8
  <2>10. QED
    BY <1>3, <2>9 DEF s
<1>7. QED
  BY <1>5, <1>6

\* Every block of a registered allocation is found in a registered buffer.
LEMMA NumberAtType ==
    ASSUME NEW a \in Alignments, a > 0, RegisteredBuffers' = Chunks(a),
           NEW address \in Addresses, address.alloc = a
    PROVE  /\ NumberAt(address) \in Nat
           /\ \E c \in Chunks(a) : /\ c.number = NumberAt(address) /\ c.alloc = a
                                   /\ address.index \in c.indices
<1> DEFINE Has(c) == c.alloc = address.alloc /\ address.index \in c.indices
<1>1. address.index \in Indices
  BY DEF Addresses
<1>2. \E c \in Chunks(a) : Has(c)
  <2> DEFINE d == [number |-> ChunkOf(a, address.index), alloc |-> a,
                   indices |-> {j \in Indices : ChunkOf(a, j) = ChunkOf(a, address.index)}]
  <2>1. d \in Chunks(a)
    BY <1>1 DEF Chunks
  <2>2. Has(d)
    BY <1>1
  <2>3. QED
    BY <2>1, <2>2
<1> DEFINE e == CHOOSE c \in RegisteredBuffers' : Has(c)
<1>3. e \in Chunks(a) /\ Has(e)
  BY <1>2
<1>4. NumberAt(address) = e.number
  BY <1>2 DEF NumberAt
<1> HIDE DEF e
<1>5. e.number \in Nat
  BY <1>3, ChunkOfType DEF Chunks
<1>6. QED
  BY <1>3, <1>4, <1>5

-----------------------------------------------------------------------------
(* Sizes of reads                                                            *)

\* A read starts less than a unit of alignment behind the block it starts in.
LEMMA MisalignmentType ==
    ASSUME TypeOK, NEW rd \in Reads
    PROVE  /\ rd.Offset \in Nat /\ rd.Size \in 1 .. BufferSize
           /\ Misalignment(rd) \in Nat
           /\ blockSize = 0 => Misalignment(rd) = 0
           /\ blockSize # 0 => Misalignment(rd) < blockSize
<1>1. rd.Offset \in Nat /\ rd.Size \in 1 .. BufferSize /\ blockSize \in Nat
  BY BufferConstants, AlignmentTypes
<1>2. \A n \in Nat, m \in Nat \ {0} : n % m \in Nat /\ n % m < m
  OBVIOUS
<1>3. QED
  BY <1>1, <1>2 DEF Misalignment

\* AlignUp is the least multiple that is no smaller.
LEMMA AlignUpProperties ==
    ASSUME NEW n \in Nat, NEW a \in Nat \ {0}
    PROVE  /\ AlignUp(n, a) \in Nat /\ n <= AlignUp(n, a) /\ AlignUp(n, a) < n + a
           /\ \A m \in Nat : AlignUp(n + m * a, a) = AlignUp(n, a) + m * a
<1> DEFINE q == (n + a - 1) \div a
<1>1. \A x, y \in Nat : y # 0 => x \div y \in Nat /\ (x \div y) * y <= x /\ x < (x \div y) * y + y
  OBVIOUS
<1>2. n + a - 1 \in Nat
  OBVIOUS
<1>3. q \in Nat /\ q * a <= n + a - 1 /\ n + a - 1 < q * a + a
  BY <1>1, <1>2
<1>4. AlignUp(n, a) = q * a
  BY DEF AlignUp
<1> HIDE DEF q
<1>5. q * a \in Nat
  BY <1>3
<1>6. AlignUp(n, a) \in Nat /\ n <= AlignUp(n, a) /\ AlignUp(n, a) < n + a
  BY <1>3, <1>4, <1>5
<1>7. ASSUME NEW m \in Nat PROVE AlignUp(n + m * a, a) = AlignUp(n, a) + m * a
  <2> DEFINE x == n + m * a + a - 1
             p == x \div a
  <2>1. m * a \in Nat /\ x \in Nat
    OBVIOUS
  <2>2. p \in Nat /\ p * a <= x /\ x < p * a + a
    BY <1>1, <2>1
  <2>3. AlignUp(n + m * a, a) = p * a
    BY DEF AlignUp
  <2>4. (q + m) * a = q * a + m * a
    BY <1>3
  <2> HIDE DEF p
  <2>5. (q + m) * a <= x /\ x < (q + m) * a + a
    BY <1>3, <1>5, <2>1, <2>4
  <2>6. p = q + m
    <3>1. \A k, l \in Nat : k < l => k * a + a <= l * a
      <4>1. TAKE k, l \in Nat
      <4>2. HAVE k < l
      <4>3. PICK d \in Nat : l = k + 1 + d
        <5>1. l - k - 1 \in Nat /\ l = k + 1 + (l - k - 1)
          BY <4>2
        <5>2. QED
          BY <5>1
      <4>4. l * a = k * a + a + d * a /\ d * a \in Nat /\ k * a \in Nat
        BY <4>3
      <4>5. QED
        BY <4>4
    <3>2. p * a \in Nat /\ (q + m) * a \in Nat /\ q + m \in Nat
      BY <1>3, <2>2
    <3> DEFINE r == q + m
    <3>3. r \in Nat /\ r * a \in Nat /\ r * a <= x /\ x < r * a + a
      BY <2>5, <3>2
    <3> HIDE DEF r, x
    <3>4. ~(p < r)
      BY <2>1, <2>2, <3>1, <3>2, <3>3
    <3>5. ~(r < p)
      BY <2>1, <2>2, <3>1, <3>2, <3>3
    <3>6. p = r
      BY <2>2, <3>3, <3>4, <3>5
    <3>7. QED
      BY <3>6 DEF r
  <2>7. QED
    BY <1>4, <2>3, <2>4, <2>6
<1>8. QED
  BY <1>6, <1>7

\* A larger number is not rounded up to a smaller one.
LEMMA AlignUpMonotone ==
    ASSUME NEW n \in Nat, NEW m \in Nat, n <= m, NEW a \in Nat \ {0}
    PROVE  AlignUp(n, a) <= AlignUp(m, a)
<1>1. \A x, y, z \in Nat : z # 0 /\ x <= y => x \div z <= y \div z
  OBVIOUS
<1>2. \A k, l \in Nat : k <= l => k * a <= l * a
  OBVIOUS
<1> DEFINE k == (n + a - 1) \div a
           l == (m + a - 1) \div a
<1>3. k \in Nat /\ l \in Nat /\ k <= l
  <2>1. n + a - 1 \in Nat /\ m + a - 1 \in Nat /\ n + a - 1 <= m + a - 1
    OBVIOUS
  <2>2. QED
    BY <1>1, <2>1
<1>4. AlignUp(n, a) = k * a /\ AlignUp(m, a) = l * a
  BY DEF AlignUp
<1> HIDE DEF k, l
<1>5. QED
  BY <1>2, <1>3, <1>4

\* A read, rounded up to its blocks and begun as far into its buffer as it is behind its
\* block, fits in a buffer of its own or a larger alignment: that is what the two units
\* of the alignment are for.
LEMMA AlignedSizeFits ==
    ASSUME TypeOK, NEW rd \in Reads
    PROVE  /\ AlignedSize(rd) \in Nat
           /\ \A a \in Alignments : a > 0 /\ blockSize <= a =>
                Misalignment(rd) + AlignedSize(rd) <= ActualBufferSize(a)
<1> DEFINE f == Misalignment(rd)
           s == rd.Size
           B == BufferSize
           bs == blockSize
<1>1. /\ f \in Nat /\ s \in Nat /\ B \in Nat /\ s <= B /\ bs \in Nat
      /\ bs = 0 => f = 0
      /\ bs # 0 => f < bs
  <2>1. s \in 1 .. B /\ B \in Nat \ {0} /\ bs \in Nat
    BY MisalignmentType, Constants, AlignmentTypes
  <2>2. QED
    BY <2>1, MisalignmentType
<1>2. \A a \in Alignments : a > 0 =>
        /\ a \in Nat \ {0}
        /\ ActualBufferSize(a) = AlignUp(B + 2 * a, a)
        /\ ActualBufferSize(a) \in Nat /\ B + 2 * a <= ActualBufferSize(a)
        /\ ActualBufferSize(a) = AlignUp(B, a) + 2 * a
  <2> TAKE a \in Alignments
  <2> HAVE a > 0
  <2>1. a \in Nat \ {0} /\ B + 2 * a \in Nat
    BY <1>1, Constants
  <2>2. ActualBufferSize(a) = AlignUp(B + 2 * a, a)
    BY <2>1 DEF ActualBufferSize
  <2>3. QED
    BY <1>1, <2>1, <2>2, AlignUpProperties
<1>3. CASE bs = 0
  <2>1. AlignedSize(rd) = s
    BY <1>3 DEF AlignedSize
  <2>2. ASSUME NEW a \in Alignments, a > 0 PROVE f + s <= ActualBufferSize(a)
    BY <1>1, <1>2, <1>3, <2>2
  <2>3. QED
    BY <1>1, <2>1, <2>2
<1>4. CASE bs # 0
  <2> DEFINE z == AlignUp(f + s, bs)
  <2>1. AlignedSize(rd) = z
    BY <1>4 DEF AlignedSize
  <2>2. f + s \in Nat /\ bs \in Nat \ {0}
    BY <1>1, <1>4
  <2>3. z \in Nat /\ z < f + s + bs
    BY <2>2, AlignUpProperties
  <2>4. z <= AlignUp(B, bs) + bs
    <3>1. f + s <= B + 1 * bs /\ B + 1 * bs \in Nat
      BY <1>1, <1>4
    <3>2. AlignUp(B + 1 * bs, bs) = AlignUp(B, bs) + 1 * bs
      BY <1>1, <2>2, AlignUpProperties
    <3>3. z <= AlignUp(B + 1 * bs, bs)
      BY <2>2, <3>1, AlignUpMonotone
    <3>4. QED
      BY <1>1, <3>2, <3>3
  <2>5. AlignUp(B, bs) \in Nat
    BY <1>1, <2>2, AlignUpProperties
  <2> HIDE DEF z
  <2>6. ASSUME NEW a \in Alignments, a > 0, bs <= a
        PROVE  f + z <= ActualBufferSize(a)
    <3>1. CASE a = bs
      <4>1. ActualBufferSize(a) = AlignUp(B, bs) + 2 * bs
        BY <1>2, <2>6, <3>1
      <4>2. QED
        BY <1>1, <1>4, <2>3, <2>4, <2>5, <4>1
    <3>2. CASE a # bs
      <4>1. bs \in Alignments
        BY <1>4, Constants DEF TypeOK
      <4>2. a \in Nat /\ bs < a
        BY <1>1, <1>2, <2>6, <3>2
      <4>3. 2 * bs <= a
        BY <2>6, <4>1, <4>2, PowersOfTwo
      <4>4. ActualBufferSize(a) \in Nat /\ B + 2 * a <= ActualBufferSize(a)
        BY <1>2, <2>6
      <4>5. QED
        BY <1>1, <1>4, <2>3, <4>2, <4>3, <4>4
    <3>3. QED
      BY <3>1, <3>2
  <2>7. QED
    BY <2>1, <2>3, <2>6
<1>5. QED
  BY <1>3, <1>4


-----------------------------------------------------------------------------
(* Initial states                                                            *)

LEMMA InitIInv == Init => IInv
<1> SUFFICES ASSUME Init PROVE IInv
  OBVIOUS
<1> USE DEF Init
<1>1. PICK order \in [Buffers -> Indices] :
        /\ \A b, c \in Buffers : order[b] = order[c] => b = c
        /\ Memory = [b \in Buffers |-> [alloc |-> EngineMemory, index |-> order[b]]]
  OBVIOUS
<1>2. TypeOK
  BY <1>1, Constants DEF TypeOK, Addresses, Alignments
<1>3. InHand /\ BeforeFinalize /\ Growth /\ Tracked /\ TargetIsMemory
  BY DEF InHand, BeforeFinalize, Growth, Tracked, TargetIsMemory
<1>4. Placement
  BY <1>1 DEF Placement
<1>5. Distinct
  BY <1>1 DEF Distinct, Placed
<1>6. MemoryAccounted
  BY DEF MemoryAccounted, Pending
<1>7. Registered /\ InPlace /\ ReadsInBlock
  BY DEF Registered, InPlace, ReadsInBlock
<1>8. QED
  BY <1>2, <1>3, <1>4, <1>5, <1>6, <1>7 DEF IInv

-----------------------------------------------------------------------------
(* Steps.  Those of the engine, the kernel and of submission change only how *)
(* a buffer is used, and where Memory is in its block.                       *)

UseStep ==
    \/ \E b \in Buffers : FreeBuffer(b) \/ Complete(b) \/ ProcessCompletionEvent(b)
    \/ SubmitRequest

LEMMA UseStepFrame ==
    ASSUME TypeOK, UseStep
    PROVE  /\ UNCHANGED <<Memory, NewBuffer, allocVars, registeredVars, pc,
                          AcquiredBuffer, blockSize>>
           /\ use' \in [Buffers -> {"free", "inflight", "done", "held"}
                                     \cup {use[b] : b \in Buffers}]
           /\ \A b \in Buffers :
                /\ use'[b] # "free" => use[b] # "free"
                /\ use[b] = "acquired" <=> use'[b] = "acquired"
                /\ use'[b] \in {"prepared", "inflight"} =>
                      use[b] \in {"prepared", "inflight"} /\ target'[b] = target[b]
BY DEF UseStep, FreeBuffer, Complete, ProcessCompletionEvent, SubmitRequest, TypeOK

\* The steps that end with what is done for one request.
IssueStep ==
    \/ \E rd \in Reads : IssueRequest(rd) \/ RefuseRequest(Misalignment(rd))
    \/ RefuseRequest(0) \/ ReadFromCache

\* They give the acquired buffer away, and touch no other.
LEMMA IssueFrame ==
    ASSUME TypeOK, IssueStep
    PROVE  /\ pc = "issue" /\ pc' = "next" /\ AcquiredBuffer \in Buffers
           /\ AcquiredBuffer' = None /\ blockSize' = 0
           /\ UNCHANGED <<Memory, NewBuffer, allocVars, registeredVars>>
           /\ use' \in [Buffers -> {"held", "prepared"} \cup {use[b] : b \in Buffers}]
           /\ use'[AcquiredBuffer] \in {"held", "prepared"}
           /\ \A b \in Buffers \ {AcquiredBuffer} :
                /\ use'[b] = use[b] /\ target'[b] = target[b]
                /\ moved'[b] = moved[b] /\ FixupOffset'[b] = FixupOffset[b]
                /\ b \in missed' <=> b \in missed
           /\ use'[AcquiredBuffer] = "prepared" =>
                /\ target'[AcquiredBuffer].address = Memory[AcquiredBuffer]
                /\ target'[AcquiredBuffer].number = BufferIndex[AcquiredBuffer]
<1> DEFINE A == AcquiredBuffer
<1>1. PICK u \in {"held", "prepared"} : Leave(u)
  BY DEF IssueStep, IssueRequest, RefuseRequest, ReadFromCache
<1>2. pc = "issue" /\ A \in Buffers
  BY <1>1, AlignmentTypes DEF Leave
<1>3. /\ pc' = "next" /\ AcquiredBuffer' = None /\ blockSize' = 0
      /\ UNCHANGED <<Memory, NewBuffer, allocVars, registeredVars>>
      /\ use' = [use EXCEPT ![A] = u]
  BY <1>1 DEF Leave
<1>4. /\ use' \in [Buffers -> {"held", "prepared"} \cup {use[b] : b \in Buffers}]
      /\ use'[A] = u /\ \A b \in Buffers \ {A} : use'[b] = use[b]
  BY <1>2, <1>3 DEF TypeOK
<1>5. \A b \in Buffers \ {A} :
        /\ target'[b] = target[b]
        /\ moved'[b] = moved[b] /\ FixupOffset'[b] = FixupOffset[b]
        /\ b \in missed' <=> b \in missed
  BY DEF IssueStep, IssueRequest, RefuseRequest, ReadFromCache, TakeBack, TypeOK
<1>6. ASSUME u = "prepared"
      PROVE  target'[A].address = Memory[A] /\ target'[A].number = BufferIndex[A]
  <2>1. PICK rd \in Reads : IssueRequest(rd)
    BY <1>1, <1>2, <1>4, <1>6
       DEF IssueStep, RefuseRequest, ReadFromCache, Leave, TypeOK
  <2>2. QED
    BY <1>2, <2>1 DEF IssueRequest, TypeOK
<1>7. QED
  BY <1>2, <1>3, <1>4, <1>5, <1>6

LEMMA TypeStep == IInv /\ [Next]_vars => TypeOK'
<1> SUFFICES ASSUME IInv, [Next]_vars PROVE TypeOK'
  OBVIOUS
<1>0. TypeOK
  BY DEF IInv
<1>1. CASE \E index \in [Buffers -> Indices] : Finalize(index)
  <2>1. PICK index \in [Buffers -> Indices] : Finalize(index)
    BY <1>1
  <2> USE DEF Finalize
  <2>2. Memory' \in [Buffers -> Addresses]
    BY <2>1, Constants DEF Addresses
  <2>3. BufferIndex' \in [Buffers -> Nat]
    <3>1. CASE RegisterBuffers
      <4>1. RegisteredBuffers' = Chunks(GIODefaultBufferAlignment)
        BY <2>1, <3>1
      <4>2. \A b \in Buffers : NumberAt(Memory'[b]) \in Nat
        BY <2>1, <2>2, <4>1, Constants, NumberAtType
      <4>3. BufferIndex' = [b \in Buffers |-> NumberAt(Memory'[b])]
        BY <2>1, <3>1
      <4>4. QED
        BY <4>2, <4>3
    <3>2. CASE ~RegisterBuffers
      BY <1>0, <2>1, <3>2 DEF TypeOK
    <3>3. QED
      BY <3>1, <3>2
  <2>4. QED
    BY <1>0, <2>1, <2>2, <2>3, Constants DEF TypeOK
<1>2. CASE \E index \in [Buffers -> Indices] : Reallocate(index)
  <2>1. PICK index \in [Buffers -> Indices] : Reallocate(index)
    BY <1>2
  <2> USE DEF Reallocate
  <2>2. AcquiredBuffer \in Buffers /\ blockSize \in Alignments
    <3>1. blockSize > DirectIOBuffer /\ DirectIOBuffer \in Nat /\ blockSize \in Nat
      BY <1>0, <2>1, AlignmentTypes DEF IInv, Growth
    <3>2. QED
      BY <1>0, <2>1, <3>1, Constants DEF TypeOK
  <2>3. Memory' \in [Buffers -> Addresses] /\ NewBuffer' \in [Buffers -> Addresses \cup {None}]
    BY <1>0, <2>1, <2>2 DEF TypeOK, Addresses, BlockAt
  <2>4. use' \in [Buffers -> {"free", "acquired", "prepared", "inflight", "done", "held"}]
    BY <1>0, <2>1 DEF TypeOK
  <2>5. FixupOffset' \in [Buffers -> Nat] /\ moved' \in [Buffers -> Int]
        /\ missed' \subseteq Buffers
    BY <1>0, <2>1 DEF TypeOK
  <2>6. DirectIOPendingReleases' \subseteq
          [References : SUBSET Buffers, Memory : Alignments \cup {EngineMemory}]
    BY <1>0, <2>1 DEF TypeOK, Active
  <2>7. live' \subseteq Alignments \cup {EngineMemory}
    BY <1>0, <2>1, <2>2 DEF TypeOK
  <2>8. QED
    BY <1>0, <2>1, <2>2, <2>3, <2>4, <2>5, <2>6, <2>7 DEF TypeOK
<1>3. CASE UseStep
  <2>1. use' \in [Buffers -> {"free", "acquired", "prepared", "inflight", "done", "held"}]
    BY <1>0, <1>3, UseStepFrame DEF TypeOK
  <2>2. /\ moved' \in [Buffers -> Int] /\ FixupOffset' \in [Buffers -> Nat]
        /\ missed' \subseteq Buffers
        /\ target' \in [Buffers -> [address : Addresses, number : Int, first : Int,
                                    length : Nat] \cup {None}]
    BY <1>0, <1>3 DEF UseStep, FreeBuffer, Complete, ProcessCompletionEvent,
                      SubmitRequest, TypeOK
  <2>3. QED
    BY <1>0, <1>3, <2>1, <2>2, UseStepFrame DEF TypeOK
<1>4. CASE \E b \in Buffers, bs \in BlockSizes : AllocateMemory(b, bs)
  BY <1>0, <1>4, Constants DEF AllocateMemory, TypeOK
<1>5. CASE UpdateRegisteredBuffers
  <2> USE DEF UpdateRegisteredBuffers
  <2>1. DirectIOBuffer \in Alignments /\ DirectIOBuffer > 0
    BY <1>0, <1>5, Constants DEF IInv, BeforeFinalize, TypeOK
  <2>2. \A b \in Buffers : Placed(b) \in Addresses /\ Placed(b).alloc = DirectIOBuffer
    BY <1>0, Constants DEF IInv, Placement, Placed, TypeOK
  <2>3. \A b \in Buffers : NumberAt(Placed(b)) \in Nat
    BY <1>5, <2>1, <2>2, NumberAtType
  <2>4. BufferIndex' \in [Buffers -> Nat]
    BY <1>5, <2>3
  <2>5. QED
    BY <1>0, <1>5, <2>4 DEF TypeOK
<1>6. CASE SwitchBuffer
  <2>1. AcquiredBuffer \in Buffers
    BY <1>0, <1>6 DEF SwitchBuffer, TypeOK
  <2>2. CASE NewBuffer[AcquiredBuffer] # None
    BY <1>0, <1>6, <2>1, <2>2 DEF SwitchBuffer, FixupAfterSwitch, TypeOK
  <2>3. CASE NewBuffer[AcquiredBuffer] = None
    BY <1>0, <1>6, <2>1, <2>3 DEF SwitchBuffer, TypeOK
  <2>4. QED
    BY <2>2, <2>3
<1>7. CASE ReleaseMemory
  <2>1. DirectIOPendingReleases' \subseteq
          [References : SUBSET Buffers, Memory : Alignments \cup {EngineMemory}]
    BY <1>0, <1>7 DEF ReleaseMemory, StillReferred, Left, TypeOK
  <2>2. QED
    BY <1>0, <1>7, <2>1 DEF ReleaseMemory, TypeOK
<1>8. CASE IssueStep
  <2> DEFINE A == AcquiredBuffer
  <2>1. A \in Buffers
    BY <1>0, <1>8, IssueFrame
  <2>2. use' \in [Buffers -> {"free", "acquired", "prepared", "inflight", "done", "held"}]
    BY <1>0, <1>8, IssueFrame DEF TypeOK
  <2>3. /\ moved' \in [Buffers -> Int] /\ FixupOffset' \in [Buffers -> Nat]
        /\ missed' \subseteq Buffers
    BY <1>0, <1>8, <2>1, MisalignmentType
       DEF IssueStep, IssueRequest, RefuseRequest, ReadFromCache, TakeBack, TypeOK
  <2>4. target' \in [Buffers -> [address : Addresses, number : Int, first : Int,
                                 length : Nat] \cup {None}]
    <3>1. CASE \E rd \in Reads : IssueRequest(rd)
      <4>1. PICK rd \in Reads : IssueRequest(rd)
        BY <3>1
      <4> DEFINE f == moved'[A] + (IF NvmeDirect THEN 0 ELSE Misalignment(rd))
      <4>2. f \in Int
        BY <1>0, <2>1, <2>3, MisalignmentType
      <4>3. AlignedSize(rd) \in Nat
        BY <1>0, AlignedSizeFits
      <4>4. Memory[A] \in Addresses /\ BufferIndex[A] \in Int
        BY <1>0, <2>1 DEF TypeOK
      <4>5. target' = [target EXCEPT ![A] = [address |-> Memory[A], number |-> BufferIndex[A],
                                             first |-> f, length |-> AlignedSize(rd)]]
        BY <4>1 DEF IssueRequest
      <4> HIDE DEF f
      <4>6. QED
        BY <1>0, <2>1, <4>2, <4>3, <4>4, <4>5 DEF TypeOK
    <3>2. CASE target' = target
      BY <1>0, <3>2 DEF TypeOK
    <3>3. QED
      BY <1>8, <3>1, <3>2 DEF IssueStep, RefuseRequest, ReadFromCache
  <2>5. QED
    BY <1>0, <1>8, <2>2, <2>3, <2>4, IssueFrame DEF TypeOK
<1>9. CASE UNCHANGED vars
  BY <1>0, <1>9 DEF vars, TypeOK
<1>10. QED
  BY <1>1, <1>2, <1>3, <1>4, <1>5, <1>6, <1>7, <1>8, <1>9 DEF Next, UseStep, IssueStep

\* What the steps of the service thread do to the parts of IInv about places.
LEMMA ControlStep == IInv /\ [Next]_vars => (InHand /\ BeforeFinalize /\ Growth)'
<1> SUFFICES ASSUME IInv, [Next]_vars PROVE (InHand /\ BeforeFinalize /\ Growth)'
  OBVIOUS
<1>0. TypeOK /\ InHand /\ BeforeFinalize /\ Growth
  BY DEF IInv
<1> USE DEF InHand, BeforeFinalize, Growth
<1>1. CASE \E index \in [Buffers -> Indices] : Finalize(index)
  BY <1>0, <1>1, Constants DEF Finalize, TypeOK
<1>2. CASE \E index \in [Buffers -> Indices] : Reallocate(index)
  <2>1. PICK index \in [Buffers -> Indices] : Reallocate(index)
    BY <1>2
  <2> USE DEF Reallocate
  <2>2. AcquiredBuffer \in Buffers /\ blockSize \in Nat /\ DirectIOBuffer \in Nat
    BY <1>0, <2>1, AlignmentTypes
  <2>3. blockSize > DirectIOBuffer /\ DirectIOBuffer' = blockSize
    BY <1>0, <2>1
  <2>4. use'[AcquiredBuffer] = "acquired" /\ NewBuffer'[AcquiredBuffer] = None
    BY <1>0, <2>1, <2>2, Constants
  <2>5. \A r \in DirectIOPendingReleases' : r.Memory < DirectIOBuffer'
    <3> TAKE r \in DirectIOPendingReleases'
    <3>1. CASE r \in DirectIOPendingReleases
      <4>1. r.Memory \in Nat
        BY <1>0, <3>1, AlignmentTypes
      <4>2. QED
        BY <1>0, <2>2, <2>3, <3>1, <4>1
    <3>2. CASE r.Memory = DirectIOBuffer
      BY <2>2, <2>3, <3>2
    <3>3. QED
      BY <2>1, <3>1, <3>2
  <2>6. QED
    BY <1>0, <2>1, <2>2, <2>3, <2>4, <2>5
<1>3. CASE UseStep
  <2>1. \A b \in Buffers : use[b] = "acquired" <=> use'[b] = "acquired"
    BY <1>0, <1>3, UseStepFrame
  <2>2. pc = "finalize" => \A b \in Buffers : use'[b] = "free"
    <3>1. ASSUME pc = "finalize", NEW b \in Buffers PROVE use'[b] = "free"
      BY <1>0, <1>3, <3>1, UseStepFrame
    <3>2. QED
      BY <3>1
  <2>3. QED
    BY <1>0, <1>3, <2>1, <2>2, UseStepFrame DEF TypeOK
<1>4. CASE \E b \in Buffers, bs \in BlockSizes : AllocateMemory(b, bs)
  <2>1. PICK b \in Buffers, bs \in BlockSizes : AllocateMemory(b, bs)
    BY <1>4
  <2> USE DEF AllocateMemory
  <2>2. /\ pc = "next" /\ pc' = IF bs > DirectIOBuffer THEN "grow" ELSE "switch"
        /\ blockSize' = bs /\ AcquiredBuffer' = b /\ UNCHANGED allocVars
    BY <2>1 DEF MustGrow
  <2>3. bs \in Nat /\ DirectIOBuffer \in Nat /\ DirectIOBuffer > 0
    BY <1>0, <2>1, Constants, AlignmentTypes
  <2>4. use'[b] = "acquired"
    BY <1>0, <2>1 DEF TypeOK
  <2>5. QED
    BY <1>0, <2>2, <2>3, <2>4
<1>5. CASE UpdateRegisteredBuffers
  BY <1>0, <1>5 DEF UpdateRegisteredBuffers, TypeOK
<1>6. CASE SwitchBuffer
  <2>1. AcquiredBuffer \in Buffers
    BY <1>0, <1>6 DEF SwitchBuffer, TypeOK
  <2>2. NewBuffer'[AcquiredBuffer] = None
    BY <1>0, <1>6, <2>1 DEF SwitchBuffer, TypeOK
  <2>3. QED
    BY <1>0, <1>6, <2>1, <2>2 DEF SwitchBuffer
<1>7. CASE ReleaseMemory
  <2>1. \A r \in DirectIOPendingReleases' : r.Memory < DirectIOBuffer
    BY <1>0, <1>7 DEF ReleaseMemory, StillReferred
  <2>2. QED
    BY <1>0, <1>7, <2>1 DEF ReleaseMemory
<1>8. CASE IssueStep
  BY <1>0, <1>8, IssueFrame, Constants
<1>9. CASE UNCHANGED vars
  BY <1>0, <1>9 DEF vars
<1>10. QED
  BY <1>1, <1>2, <1>3, <1>4, <1>5, <1>6, <1>7, <1>8, <1>9 DEF Next, UseStep, IssueStep

\* Only three steps move a buffer or say where it is to go.
PlaceStep ==
    \/ \E index \in [Buffers -> Indices] : Finalize(index) \/ Reallocate(index)
    \/ SwitchBuffer

LEMMA PlaceFrame ==
    ASSUME TypeOK, [Next]_vars, ~PlaceStep
    PROVE  UNCHANGED <<Memory, NewBuffer, DirectIOBuffer>>
BY UseStepFrame, IssueFrame DEF Next, UseStep, IssueStep, PlaceStep, AllocateMemory,
     UpdateRegisteredBuffers, ReleaseMemory, vars

LEMMA PlacementStep == IInv /\ [Next]_vars => (Placement /\ Distinct)'
<1> SUFFICES ASSUME IInv, [Next]_vars PROVE (Placement /\ Distinct)'
  OBVIOUS
<1>0. TypeOK /\ BeforeFinalize /\ Growth /\ Placement /\ Distinct
  BY DEF IInv
<1>1. CASE \E index \in [Buffers -> Indices] : Finalize(index)
  <2>1. PICK index \in [Buffers -> Indices] : Finalize(index)
    BY <1>1
  <2>2. \A b, c \in Buffers : b # c => index[b] # index[c]
    BY <2>1 DEF Finalize, InOrder
  <2>3. /\ \A b \in Buffers : NewBuffer'[b] = None
        /\ DirectIOBuffer' = GIODefaultBufferAlignment
        /\ Memory' = [b \in Buffers |->
                        [alloc |-> GIODefaultBufferAlignment, index |-> index[b]]]
    BY <1>0, <2>1 DEF Finalize, BeforeFinalize
  <2>4. QED
    BY <2>2, <2>3 DEF Placement, Distinct, Placed
<1>2. CASE \E index \in [Buffers -> Indices] : Reallocate(index)
  <2>1. PICK index \in [Buffers -> Indices] : Reallocate(index)
    BY <1>2
  <2> DEFINE A == AcquiredBuffer
             New(b) == [alloc |-> blockSize, index |-> index[b]]
  <2>2. A \in Buffers /\ blockSize \in Alignments /\ blockSize \in Nat
        /\ DirectIOBuffer \in Nat /\ blockSize > DirectIOBuffer
    <3>1. A \in Buffers /\ blockSize \in Nat /\ DirectIOBuffer \in Nat
      BY <1>0, <2>1, AlignmentTypes DEF Reallocate
    <3>2. blockSize > DirectIOBuffer
      BY <1>0, <2>1 DEF Growth, Reallocate
    <3>3. blockSize \in Alignments
      BY <1>0, <3>1, <3>2, Constants DEF TypeOK
    <3>4. QED
      BY <3>1, <3>2, <3>3
  <2>3. \A b \in Buffers : New(b) \in Addresses /\ New(b) # None
    BY <2>2, Constants DEF Addresses
  <2>4. /\ DirectIOBuffer' = blockSize
        /\ \A b \in Buffers : b # A => Memory'[b] = Memory[b]
        /\ \A b \in Buffers : b # A => NewBuffer'[b] = New(b)
        /\ Memory'[A] = New(A) /\ NewBuffer'[A] = None
    BY <1>0, <2>1, <2>2 DEF Reallocate, TypeOK, BlockAt
  <2>5. \A b \in Buffers : Memory[b].alloc \in Nat /\ Memory[b].alloc <= DirectIOBuffer
    BY <1>0, <2>2, AlignmentTypes DEF Placement
  <2>6. \A b, c \in Buffers : b # c => index[b] # index[c]
    BY <2>1 DEF Reallocate, InOrder
  <2>7. Placement'
    <3> SUFFICES ASSUME NEW b \in Buffers
                 PROVE  IF NewBuffer'[b] = None THEN Memory'[b].alloc = DirectIOBuffer'
                        ELSE /\ NewBuffer'[b].alloc = DirectIOBuffer'
                             /\ Memory'[b].alloc < DirectIOBuffer'
      BY DEF Placement
    <3>1. CASE b = A
      BY <2>4, <3>1
    <3>2. CASE b # A
      <4>1. NewBuffer'[b] = New(b) /\ NewBuffer'[b] # None /\ Memory'[b] = Memory[b]
        BY <2>3, <2>4, <3>2
      <4>2. Memory[b].alloc < blockSize
        BY <2>2, <2>5
      <4>3. QED
        BY <2>4, <4>1, <4>2
    <3>3. QED
      BY <3>1, <3>2
  <2>8. \A b \in Buffers : (Placed(b))' = New(b)
    BY <2>2, <2>3, <2>4 DEF Placed
  <2>9. \A b, c \in Buffers : b # c => Memory'[b] # Memory'[c]
    <3> SUFFICES ASSUME NEW b \in Buffers, NEW c \in Buffers, b # c
                 PROVE  Memory'[b] # Memory'[c]
      OBVIOUS
    <3>1. CASE b # A /\ c # A
      BY <1>0, <2>4, <3>1 DEF Distinct
    <3>2. CASE b = A
      <4>1. Memory'[b].alloc = blockSize /\ Memory'[c] = Memory[c]
        BY <2>2, <2>4, <3>2
      <4>2. Memory[c].alloc # blockSize
        BY <2>2, <2>5
      <4>3. QED
        BY <4>1, <4>2
    <3>3. CASE c = A
      <4>1. Memory'[c].alloc = blockSize /\ Memory'[b] = Memory[b]
        BY <2>2, <2>4, <3>3
      <4>2. Memory[b].alloc # blockSize
        BY <2>2, <2>5
      <4>3. QED
        BY <4>1, <4>2
    <3>4. QED
      BY <3>1, <3>2, <3>3
  <2>10. Distinct'
    BY <2>6, <2>8, <2>9 DEF Distinct
  <2>11. QED
    BY <2>7, <2>10
<1>3. CASE SwitchBuffer
  <2> DEFINE A == AcquiredBuffer
  <2>1. A \in Buffers
    BY <1>0, <1>3 DEF SwitchBuffer, TypeOK
  <2>2. DirectIOBuffer' = DirectIOBuffer /\ DirectIOBuffer \in Nat
    BY <1>0, <1>3, Constants DEF SwitchBuffer, TypeOK
  <2>3. CASE NewBuffer[A] # None
    <3>1. /\ \A b \in Buffers : b # A => /\ Memory'[b] = Memory[b]
                                         /\ NewBuffer'[b] = NewBuffer[b]
          /\ Memory'[A] = NewBuffer[A] /\ NewBuffer'[A] = None
      BY <1>0, <1>3, <2>1, <2>3 DEF SwitchBuffer, TypeOK
    <3>2. Placement'
      BY <1>0, <2>1, <2>2, <2>3, <3>1 DEF Placement
    <3>3. \A b \in Buffers : (Placed(b))' = Placed(b)
      BY <2>1, <2>3, <3>1 DEF Placed
    <3>4. \A b \in Buffers : b # A => Memory[b] # NewBuffer[A]
      <4> SUFFICES ASSUME NEW b \in Buffers, b # A PROVE Memory[b] # NewBuffer[A]
        OBVIOUS
      <4>1. Placed(b) # Placed(A) /\ Placed(A) = NewBuffer[A]
        BY <1>0, <2>1, <2>3 DEF Distinct, Placed
      <4>2. CASE NewBuffer[b] = None
        BY <4>1, <4>2 DEF Placed
      <4>3. CASE NewBuffer[b] # None
        <5>1. Memory[b].alloc < DirectIOBuffer /\ NewBuffer[A].alloc = DirectIOBuffer
          BY <1>0, <2>1, <2>3, <4>3 DEF Placement
        <5>2. QED
          BY <2>2, <5>1
      <4>4. QED
        BY <4>2, <4>3
    <3>5. Distinct'
      BY <1>0, <2>1, <3>1, <3>3, <3>4 DEF Distinct
    <3>6. QED
      BY <3>2, <3>5
  <2>4. CASE NewBuffer[A] = None
    BY <1>0, <1>3, <2>4 DEF SwitchBuffer, Placement, Distinct, Placed, allocVars
  <2>5. QED
    BY <2>3, <2>4
<1>4. CASE ~PlaceStep
  BY <1>0, <1>4, PlaceFrame DEF Placement, Distinct, Placed
<1>5. QED
  BY <1>1, <1>2, <1>3, <1>4 DEF PlaceStep

\* Only three steps allocate or free memory.
LEMMA AllocFrame ==
    ASSUME TypeOK, [Next]_vars, ~ReleaseMemory,
           ~ \E index \in [Buffers -> Indices] : Finalize(index) \/ Reallocate(index)
    PROVE  UNCHANGED allocVars
BY UseStepFrame, IssueFrame DEF Next, UseStep, IssueStep, AllocateMemory,
     UpdateRegisteredBuffers, SwitchBuffer, vars

LEMMA AccountStep == IInv /\ [Next]_vars => MemoryAccounted'
<1> SUFFICES ASSUME IInv, [Next]_vars PROVE MemoryAccounted'
  OBVIOUS
<1>0. TypeOK /\ BeforeFinalize /\ Growth /\ MemoryAccounted
  BY DEF IInv
<1>1. CASE \E index \in [Buffers -> Indices] : Finalize(index)
  BY <1>0, <1>1 DEF Finalize, BeforeFinalize, MemoryAccounted, Pending
<1>2. CASE \E index \in [Buffers -> Indices] : Reallocate(index)
  <2>1. PICK index \in [Buffers -> Indices] : Reallocate(index)
    BY <1>2
  <2> DEFINE refs == Active \ {AcquiredBuffer}
             new == [References |-> refs, Memory |-> DirectIOBuffer]
  <2>2. /\ blockSize \in Nat /\ DirectIOBuffer \in Nat /\ blockSize > DirectIOBuffer
        /\ DirectIOBuffer' = blockSize
    BY <1>0, <2>1, AlignmentTypes DEF Growth, Reallocate
  <2>3. \A m \in Pending : m \in Nat /\ m < DirectIOBuffer
    BY <1>0, AlignmentTypes DEF Growth, Pending
  <2>4. CASE refs = {}
    <3>1. DirectIOPendingReleases' = DirectIOPendingReleases
      BY <2>1, <2>4 DEF Reallocate
    <3>2. Pending' = Pending
      BY <3>1 DEF Pending
    <3>3. live' = {blockSize} \cup Pending
      BY <1>0, <2>1, <2>4 DEF Reallocate, MemoryAccounted
    <3>4. blockSize \notin Pending
      BY <2>2, <2>3
    <3>5. QED
      BY <1>0, <2>2, <3>1, <3>2, <3>3, <3>4 DEF MemoryAccounted
  <2>5. CASE refs # {}
    <3>1. DirectIOPendingReleases' = DirectIOPendingReleases \cup {new}
      BY <2>1, <2>5 DEF Reallocate
    <3>2. Pending' = Pending \cup {DirectIOBuffer}
      <4>1. new.Memory = DirectIOBuffer
        OBVIOUS
      <4> HIDE DEF new
      <4>2. \A m : m \in Pending' <=> m \in Pending \/ m = DirectIOBuffer
        BY <3>1, <4>1 DEF Pending
      <4>3. QED
        BY <4>2
    <3>3. live' = {blockSize} \cup Pending'
      BY <1>0, <2>1, <2>5, <3>2 DEF Reallocate, MemoryAccounted
    <3>4. blockSize \notin Pending'
      BY <2>2, <2>3, <3>2
    <3>5. \A r \in DirectIOPendingReleases : r.Memory # new.Memory
      BY <2>2, <2>3 DEF Pending
    <3>6. \A r, s \in DirectIOPendingReleases' : r.Memory = s.Memory => r = s
      BY <1>0, <3>1, <3>5 DEF MemoryAccounted
    <3>7. \A r \in DirectIOPendingReleases' : r.References # {}
      BY <1>0, <2>5, <3>1 DEF MemoryAccounted
    <3>8. QED
      BY <2>2, <3>3, <3>4, <3>6, <3>7 DEF MemoryAccounted
  <2>6. QED
    BY <2>4, <2>5
<1>3. CASE ReleaseMemory
  <2> DEFINE R == DirectIOPendingReleases
             kept(r) == [References |-> Left(r), Memory |-> r.Memory]
  <2>1. /\ R' = {kept(r) : r \in StillReferred} /\ StillReferred \subseteq R
        /\ live' = live \ {r.Memory : r \in R \ StillReferred}
        /\ DirectIOBuffer' = DirectIOBuffer
    BY <1>3 DEF ReleaseMemory, StillReferred
  <2>2. Pending' = {r.Memory : r \in StillReferred}
    <3>1. \A r : kept(r).Memory = r.Memory
      OBVIOUS
    <3> HIDE DEF kept
    <3>2. \A m : m \in Pending' <=> \E r \in StillReferred : m = r.Memory
      BY <2>1, <3>1 DEF Pending
    <3>3. QED
      BY <3>2
  <2>3. \A r, s \in R : r.Memory = s.Memory => r = s
    BY <1>0 DEF MemoryAccounted
  <2>4. live' = {DirectIOBuffer} \cup Pending'
    <3>1. live = {DirectIOBuffer} \cup {r.Memory : r \in R}
      BY <1>0 DEF MemoryAccounted, Pending
    <3>2. DirectIOBuffer \notin {r.Memory : r \in R}
      BY <1>0 DEF MemoryAccounted, Pending
    <3>3. \A m : m \in live' <=> m \in {DirectIOBuffer} \cup Pending'
      BY <2>1, <2>2, <2>3, <3>1, <3>2
    <3>4. QED
      BY <3>3
  <2>5. DirectIOBuffer \notin Pending'
    BY <1>0, <2>1, <2>2 DEF MemoryAccounted, Pending
  <2>6. \A r, s \in R' : r.Memory = s.Memory => r = s
    BY <2>1, <2>3
  <2>7. \A r \in R' : r.References # {}
    BY <2>1 DEF StillReferred
  <2>8. QED
    BY <2>1, <2>4, <2>5, <2>6, <2>7 DEF MemoryAccounted
<1>4. CASE UNCHANGED allocVars
  BY <1>0, <1>4 DEF MemoryAccounted, Pending
<1>5. QED
  BY <1>0, <1>1, <1>2, <1>3, <1>4, AllocFrame

LEMMA TrackedStep == IInv /\ [Next]_vars => Tracked'
<1> SUFFICES ASSUME IInv, [Next]_vars PROVE Tracked'
  OBVIOUS
<1>0. /\ TypeOK /\ InHand /\ BeforeFinalize /\ Growth /\ Placement /\ Tracked
  BY DEF IInv
<1> SUFFICES ASSUME NEW b \in Buffers, use'[b] # "free", ~(Leaving(b))',
                    Memory'[b].alloc # DirectIOBuffer'
             PROVE  \E r \in DirectIOPendingReleases' :
                       r.Memory = Memory'[b].alloc /\ b \in r.References
  BY DEF Tracked
<1> DEFINE Keeps == \E r \in DirectIOPendingReleases :
                       r.Memory = Memory[b].alloc /\ b \in r.References
<1>1. CASE \E index \in [Buffers -> Indices] : Finalize(index)
  BY <1>0, <1>1 DEF Finalize, BeforeFinalize
<1>2. CASE \E index \in [Buffers -> Indices] : Reallocate(index)
  <2>1. PICK index \in [Buffers -> Indices] : Reallocate(index)
    BY <1>2
  <2> DEFINE refs == Active \ {AcquiredBuffer}
             new == [References |-> refs, Memory |-> DirectIOBuffer]
  <2>2. b # AcquiredBuffer /\ Memory'[b] = Memory[b] /\ use[b] # "free"
    BY <1>0, <2>1 DEF Reallocate, TypeOK
  <2>3. b \in refs
    BY <2>2 DEF Active
  <2>4. DirectIOPendingReleases' = DirectIOPendingReleases \cup {new}
    BY <2>1, <2>3 DEF Reallocate
  <2>5. CASE Memory[b].alloc = DirectIOBuffer
    <3>1. new \in DirectIOPendingReleases' /\ new.Memory = Memory'[b].alloc
          /\ b \in new.References
      BY <2>2, <2>3, <2>4, <2>5
    <3>2. QED
      BY <3>1
  <2>6. CASE Memory[b].alloc # DirectIOBuffer
    <3>1. Keeps
      BY <1>0, <2>2, <2>6 DEF Tracked, Leaving
    <3>2. QED
      BY <2>2, <2>4, <3>1
  <2>7. QED
    BY <2>5, <2>6
<1>3. CASE ReleaseMemory
  <2>1. /\ pc = "release" /\ Memory' = Memory /\ use' = use /\ AcquiredBuffer' = AcquiredBuffer
        /\ DirectIOBuffer' = DirectIOBuffer
        /\ DirectIOPendingReleases' =
             {[References |-> Left(r), Memory |-> r.Memory] : r \in StillReferred}
    BY <1>3 DEF ReleaseMemory
  <2>2. Keeps
    BY <1>0, <2>1 DEF Tracked, Leaving
  <2>3. b # AcquiredBuffer
    BY <1>0, <2>1 DEF InHand, Placement
  <2>4. PICK r \in DirectIOPendingReleases : r.Memory = Memory[b].alloc /\ b \in r.References
    BY <2>2
  <2>5. b \in Left(r) /\ r \in StillReferred
    BY <2>3, <2>4 DEF Left, StillReferred
  <2> DEFINE k == [References |-> Left(r), Memory |-> r.Memory]
  <2>6. k \in DirectIOPendingReleases' /\ k.Memory = Memory'[b].alloc /\ b \in k.References
    BY <2>1, <2>4, <2>5
  <2>7. QED
    BY <2>6
<1>4. CASE SwitchBuffer
  <2>1. /\ b # AcquiredBuffer => Memory'[b] = Memory[b]
        /\ UNCHANGED <<use, DirectIOBuffer, DirectIOPendingReleases, AcquiredBuffer>>
    BY <1>0, <1>4 DEF SwitchBuffer, TypeOK
  <2>2. CASE b = AcquiredBuffer
    <3>1. Memory'[b].alloc = DirectIOBuffer
      BY <1>0, <1>4, <2>2 DEF SwitchBuffer, Placement, TypeOK
    <3>2. QED
      BY <2>1, <3>1
  <2>3. CASE b # AcquiredBuffer
    BY <1>0, <2>1, <2>3 DEF Tracked, Leaving
  <2>4. QED
    BY <2>2, <2>3
<1>5. CASE \E c \in Buffers, bs \in BlockSizes : AllocateMemory(c, bs)
  <2>1. PICK c \in Buffers, bs \in BlockSizes : AllocateMemory(c, bs)
    BY <1>5
  <2>2. b # c
    BY <2>1 DEF AllocateMemory, Leaving
  <2>3. use'[b] = use[b] /\ ~Leaving(b)
    BY <1>0, <2>1, <2>2 DEF AllocateMemory, Leaving, TypeOK
  <2>4. UNCHANGED <<Memory, DirectIOBuffer, DirectIOPendingReleases>>
    BY <2>1 DEF AllocateMemory
  <2>5. QED
    BY <1>0, <2>3, <2>4 DEF Tracked
<1>6. CASE UseStep
  BY <1>0, <1>6, UseStepFrame DEF Tracked, Leaving
<1>7. CASE UpdateRegisteredBuffers
  BY <1>0, <1>7 DEF UpdateRegisteredBuffers, Tracked, Leaving
<1>8. CASE IssueStep
  <2>1. pc = "issue" /\ UNCHANGED <<Memory, DirectIOBuffer, DirectIOPendingReleases>>
    BY <1>0, <1>8, IssueFrame
  <2>2. use[b] # "free"
    BY <1>0, <1>8, IssueFrame, Constants DEF InHand
  <2>3. QED
    BY <1>0, <2>1, <2>2 DEF Tracked, Leaving
<1>9. CASE UNCHANGED vars
  BY <1>0, <1>9 DEF vars, Tracked, Leaving
<1>10. QED
  BY <1>1, <1>2, <1>3, <1>4, <1>5, <1>6, <1>7, <1>8, <1>9 DEF Next, UseStep, IssueStep

LEMMA TargetStep == IInv /\ [Next]_vars => TargetIsMemory'
<1> SUFFICES ASSUME IInv, [Next]_vars PROVE TargetIsMemory'
  OBVIOUS
<1>0. TypeOK /\ InHand /\ BeforeFinalize /\ TargetIsMemory
  BY DEF IInv
<1> SUFFICES ASSUME NEW b \in Buffers, use'[b] \in {"prepared", "inflight"}
             PROVE  target'[b].address = Memory'[b]
  BY DEF TargetIsMemory
<1>1. CASE \E index \in [Buffers -> Indices] : Finalize(index)
  BY <1>0, <1>1 DEF Finalize, BeforeFinalize
<1>2. CASE \E index \in [Buffers -> Indices] : Reallocate(index)
  <2>1. PICK index \in [Buffers -> Indices] : Reallocate(index)
    BY <1>2
  <2>2. use[b] \in {"prepared", "inflight"} /\ target' = target
    BY <1>0, <2>1 DEF Reallocate, TypeOK
  <2>3. b # AcquiredBuffer
    BY <1>0, <2>1, <2>2, Constants DEF InHand, TypeOK
  <2>4. Memory'[b] = Memory[b]
    BY <1>0, <2>1, <2>3 DEF Reallocate, TypeOK
  <2>5. QED
    BY <1>0, <2>2, <2>4 DEF TargetIsMemory
<1>3. CASE SwitchBuffer
  <2>1. use' = use /\ target' = target
    BY <1>3 DEF SwitchBuffer
  <2>2. b # AcquiredBuffer
    BY <1>0, <2>1, Constants DEF InHand
  <2>3. Memory'[b] = Memory[b]
    BY <1>0, <1>3, <2>2 DEF SwitchBuffer, TypeOK
  <2>4. QED
    BY <1>0, <2>1, <2>3 DEF TargetIsMemory
<1>4. CASE \E c \in Buffers, bs \in BlockSizes : AllocateMemory(c, bs)
  BY <1>0, <1>4 DEF AllocateMemory, TargetIsMemory, TypeOK
<1>5. CASE UseStep
  BY <1>0, <1>5, UseStepFrame DEF TargetIsMemory
<1>6. CASE UpdateRegisteredBuffers \/ ReleaseMemory
  BY <1>0, <1>6 DEF UpdateRegisteredBuffers, ReleaseMemory, TargetIsMemory
<1>7. CASE IssueStep
  BY <1>0, <1>7, IssueFrame DEF TargetIsMemory
<1>8. CASE UNCHANGED vars
  BY <1>0, <1>8 DEF vars, TargetIsMemory
<1>9. QED
  BY <1>1, <1>2, <1>3, <1>4, <1>5, <1>6, <1>7, <1>8 DEF Next, UseStep, IssueStep

LEMMA RegisteredStep == IInv /\ [Next]_vars => Registered'
<1> SUFFICES ASSUME IInv, [Next]_vars, RegisterBuffers', pc' # "finalize"
             PROVE  /\ \E a \in Alignments : a > 0 /\ RegisteredBuffers' = Chunks(a)
                    /\ \A b \in Buffers :
                         IF pc' = "register" THEN use'[b] # "prepared"
                         ELSE Holds(BufferIndex[b], Placed(b))'
                    /\ \A b \in Buffers : use'[b] \in {"prepared", "inflight"} =>
                         Holds(target[b].number, target[b].address)'
  BY DEF Registered
<1>0. /\ TypeOK /\ InHand /\ BeforeFinalize /\ Placement /\ Registered
  BY DEF IInv
<1>1. CASE \E index \in [Buffers -> Indices] : Finalize(index)
  <2>1. PICK index \in [Buffers -> Indices] : Finalize(index)
    BY <1>1
  <2> DEFINE G == GIODefaultBufferAlignment
  <2>2. RegisterBuffers /\ RegisteredBuffers' = Chunks(G) /\ G \in Alignments /\ G > 0
    BY <2>1, Constants DEF Finalize
  <2>3. \A b \in Buffers : Memory'[b] \in Addresses /\ Memory'[b].alloc = G
    BY <2>1, Constants DEF Finalize, Addresses
  <2>4. \A b \in Buffers : BufferIndex'[b] = NumberAt(Memory'[b])
    BY <2>1, <2>2 DEF Finalize
  <2>5. \A b \in Buffers : (Placed(b))' = Memory'[b]
    BY <1>0, <2>1 DEF Finalize, BeforeFinalize, Placed
  <2>6. \A b \in Buffers : Holds(BufferIndex[b], Placed(b))'
    <3> SUFFICES ASSUME NEW b \in Buffers
                 PROVE  \E c \in RegisteredBuffers' :
                          /\ c.number = BufferIndex'[b] /\ c.alloc = (Placed(b))'.alloc
                          /\ (Placed(b))'.index \in c.indices
      BY DEF Holds
    <3>1. \E c \in Chunks(G) : /\ c.number = NumberAt(Memory'[b]) /\ c.alloc = G
                               /\ Memory'[b].index \in c.indices
      BY <2>2, <2>3, NumberAtType
    <3>2. QED
      BY <2>2, <2>3, <2>4, <2>5, <3>1
  <2>7. pc' = "next" /\ \A b \in Buffers : use'[b] = "free"
    BY <1>0, <2>1 DEF Finalize, BeforeFinalize
  <2>8. QED
    BY <2>2, <2>6, <2>7
<1>2. CASE \E index \in [Buffers -> Indices] : Reallocate(index)
  <2>1. PICK index \in [Buffers -> Indices] : Reallocate(index)
    BY <1>2
  <2>2. /\ pc = "grow" /\ pc' = "register" /\ RegisterBuffers
        /\ UNCHANGED <<RegisteredBuffers, BufferIndex, target>>
        /\ use' = [b \in Buffers |-> IF use[b] = "prepared" THEN "inflight" ELSE use[b]]
    BY <2>1 DEF Reallocate
  <2>3. \A b \in Buffers : use'[b] # "prepared"
    BY <2>2
  <2>4. \A b \in Buffers : use'[b] \in {"prepared", "inflight"} =>
          use[b] \in {"prepared", "inflight"}
    BY <2>2
  <2>5. QED
    BY <1>0, <2>2, <2>3, <2>4 DEF Registered, Holds
<1>3. CASE UpdateRegisteredBuffers
  <2> DEFINE G == DirectIOBuffer
  <2>1. /\ pc = "register" /\ pc' = "release" /\ Drained
        /\ RegisterBuffers /\ RegisteredBuffers' = Chunks(G)
        /\ BufferIndex' = [b \in Buffers |-> NumberAt(Placed(b))]
        /\ UNCHANGED <<use, Memory, NewBuffer, target>>
    BY <1>3 DEF UpdateRegisteredBuffers
  <2>2. G \in Alignments /\ G > 0
    BY <1>0, <2>1, Constants DEF BeforeFinalize, TypeOK
  <2>3. \A b \in Buffers : Placed(b) \in Addresses /\ Placed(b).alloc = G
    BY <1>0, Constants DEF Placement, Placed, TypeOK
  <2>4. \A b \in Buffers : (Placed(b))' = Placed(b)
    BY <2>1 DEF Placed
  <2>5. \A b \in Buffers : Holds(BufferIndex[b], Placed(b))'
    <3> SUFFICES ASSUME NEW b \in Buffers
                 PROVE  \E c \in RegisteredBuffers' :
                          /\ c.number = BufferIndex'[b] /\ c.alloc = (Placed(b))'.alloc
                          /\ (Placed(b))'.index \in c.indices
      BY DEF Holds
    <3>1. \E c \in Chunks(G) : /\ c.number = NumberAt(Placed(b)) /\ c.alloc = G
                               /\ Placed(b).index \in c.indices
      BY <2>1, <2>2, <2>3, NumberAtType
    <3>2. BufferIndex'[b] = NumberAt(Placed(b))
      BY <2>1
    <3>3. QED
      BY <2>1, <2>3, <2>4, <3>1, <3>2
  <2>6. \A b \in Buffers : use'[b] \notin {"prepared", "inflight"}
    BY <1>0, <2>1 DEF Registered, Drained
  <2>7. QED
    BY <2>1, <2>2, <2>5, <2>6
<1>4. CASE SwitchBuffer
  <2>1. /\ pc = "switch" /\ pc' = "release" /\ RegisterBuffers
        /\ UNCHANGED <<use, target, RegisteredBuffers, BufferIndex>>
    BY <1>4 DEF SwitchBuffer
  <2>2. \A b \in Buffers : (Placed(b))' = Placed(b)
    <3>1. CASE NewBuffer[AcquiredBuffer] # None
      BY <1>0, <1>4, <3>1 DEF SwitchBuffer, Placed, TypeOK
    <3>2. CASE NewBuffer[AcquiredBuffer] = None
      BY <1>4, <3>2 DEF SwitchBuffer, Placed
    <3>3. QED
      BY <3>1, <3>2
  <2>3. \A b \in Buffers : Holds(BufferIndex[b], Placed(b))'
    BY <1>0, <2>1, <2>2 DEF Registered, Holds
  <2>4. QED
    BY <1>0, <2>1, <2>3 DEF Registered, Holds
<1>5. CASE IssueStep
  <2> DEFINE A == AcquiredBuffer
  <2>1. /\ pc = "issue" /\ pc' = "next" /\ RegisterBuffers
        /\ UNCHANGED <<Memory, NewBuffer, RegisteredBuffers, BufferIndex>>
    BY <1>0, <1>5, IssueFrame
  <2>2. \A b \in Buffers : Holds(BufferIndex[b], Placed(b))'
    BY <1>0, <2>1 DEF Registered, Holds, Placed
  <2>3. ASSUME NEW b \in Buffers, use'[b] \in {"prepared", "inflight"}
        PROVE  Holds(target[b].number, target[b].address)'
    <3>1. CASE b = A
      <4>1. target'[b].address = Memory[b] /\ target'[b].number = BufferIndex[b]
        BY <1>0, <1>5, <2>3, <3>1, IssueFrame
      <4>2. Placed(b) = Memory[b]
        BY <1>0, <2>1, <3>1 DEF InHand, Placed
      <4>3. Holds(BufferIndex[b], Memory[b])
        BY <1>0, <2>1, <4>2 DEF Registered
      <4>4. QED
        BY <2>1, <4>1, <4>3 DEF Holds
    <3>2. CASE b # A
      <4>1. use'[b] = use[b] /\ target'[b] = target[b]
        BY <1>0, <1>5, <3>2, IssueFrame
      <4>2. QED
        BY <1>0, <2>1, <2>3, <4>1 DEF Registered, Holds
    <3>3. QED
      BY <3>1, <3>2
  <2>4. QED
    BY <1>0, <2>1, <2>2, <2>3 DEF Registered
<1>6. CASE UseStep
  <2>1. /\ UNCHANGED <<Memory, NewBuffer, registeredVars, pc>>
        /\ \A b \in Buffers : use'[b] \in {"prepared", "inflight"} =>
              use[b] \in {"prepared", "inflight"} /\ target'[b] = target[b]
    BY <1>0, <1>6, UseStepFrame
  <2>2. \A b \in Buffers : pc = "register" => use'[b] # "prepared"
    BY <1>0, <1>6, <2>1 DEF UseStep, FreeBuffer, Complete, ProcessCompletionEvent,
                            SubmitRequest, Registered, TypeOK
  <2>3. QED
    BY <1>0, <2>1, <2>2 DEF Registered, Holds, Placed
<1>7. CASE \E c \in Buffers, bs \in BlockSizes : AllocateMemory(c, bs)
  <2>1. /\ pc = "next" /\ pc' \in {"grow", "switch"}
        /\ UNCHANGED <<Memory, NewBuffer, target, registeredVars>>
        /\ \A b \in Buffers : use'[b] \in {"prepared", "inflight"} =>
              use[b] \in {"prepared", "inflight"}
    BY <1>0, <1>7 DEF AllocateMemory, TypeOK
  <2>2. QED
    BY <1>0, <2>1 DEF Registered, Holds, Placed
<1>8. CASE ReleaseMemory
  BY <1>0, <1>8 DEF ReleaseMemory, Registered, Holds, Placed
<1>9. CASE UNCHANGED vars
  BY <1>0, <1>9 DEF vars, Registered, Holds, Placed
<1>10. QED
  BY <1>1, <1>2, <1>3, <1>4, <1>5, <1>6, <1>7, <1>8, <1>9 DEF Next, UseStep, IssueStep

\* What a step must do to keep InPlace, for a buffer that is none of its business.
SamePlace(b) ==
    /\ b \in missed' <=> b \in missed
    /\ use'[b] \in {"prepared", "inflight", "done"} <=>
         use[b] \in {"prepared", "inflight", "done"}
    /\ moved'[b] = moved[b]
    /\ \/ NewBuffer'[b] # None
       \/ NewBuffer'[b] = NewBuffer[b] /\ FixupOffset'[b] = FixupOffset[b]

\* Memory is taken back by what it was moved by, and both start again with a new block.
LEMMA InPlaceStep == IInv /\ [Next]_vars => InPlace'
<1> SUFFICES ASSUME IInv, [Next]_vars PROVE InPlace'
  OBVIOUS
<1>0. TypeOK /\ InHand /\ InPlace
  BY DEF IInv
<1> DEFINE A == AcquiredBuffer
           Here(b) == IF use[b] \in {"prepared", "inflight", "done"} THEN moved[b] = 0
                      ELSE NewBuffer[b] = None => moved[b] = FixupOffset[b]
<1>a. \A b \in Buffers : b \notin missed => Here(b)
  BY <1>0 DEF InPlace
<1>b. SUFFICES ASSUME NEW b \in Buffers, b \notin missed' PROVE Here(b)'
  BY DEF InPlace
<1>c. SamePlace(b) => Here(b)'
  BY <1>a, <1>b DEF SamePlace
<1>1. CASE \E index \in [Buffers -> Indices] : Finalize(index)
  BY <1>0, <1>1, <1>c DEF Finalize, SamePlace
<1>2. CASE \E index \in [Buffers -> Indices] : Reallocate(index)
  <2>1. PICK index \in [Buffers -> Indices] : Reallocate(index)
    BY <1>2
  <2>2. A \in Buffers /\ blockSize \in Alignments
    <3>1. A \in Buffers /\ blockSize \in Nat /\ DirectIOBuffer \in Nat
      BY <1>0, <2>1, AlignmentTypes DEF Reallocate
    <3>2. blockSize > DirectIOBuffer
      BY <2>1 DEF IInv, Growth, Reallocate
    <3>3. QED
      BY <1>0, <3>1, <3>2, Constants DEF TypeOK
  <2>3. CASE b = A
    <3>1. moved'[b] = 0 /\ FixupOffset'[b] = 0
      BY <1>0, <2>1, <2>3 DEF Reallocate, TypeOK
    <3>2. QED
      BY <3>1
  <2>4. CASE b # A
    <3>1. NewBuffer'[b] # None
      <4>1. [alloc |-> blockSize, index |-> index[b]] \in Addresses
        BY <2>2 DEF Addresses
      <4>2. NewBuffer'[b] = [alloc |-> blockSize, index |-> index[b]]
        BY <2>1, <2>4 DEF Reallocate, BlockAt
      <4>3. QED
        BY <4>1, <4>2, Constants
    <3>2. moved'[b] = moved[b] /\ (b \in missed' <=> b \in missed)
      BY <1>0, <2>1, <2>4 DEF Reallocate, TypeOK
    <3>3. use'[b] \in {"prepared", "inflight", "done"} <=>
            use[b] \in {"prepared", "inflight", "done"}
      BY <2>1 DEF Reallocate
    <3>4. QED
      BY <3>1, <3>2, <3>3, <1>c DEF SamePlace
  <2>5. QED
    BY <2>3, <2>4
<1>3. CASE SwitchBuffer
  <2>1. A \in Buffers /\ use' = use /\ use[A] = "acquired"
    BY <1>0, <1>3, Constants DEF SwitchBuffer, InHand, TypeOK
  <2>2. CASE NewBuffer[A] # None /\ b = A
    <3>1. moved'[b] = 0 /\ FixupOffset'[b] = 0
      BY <1>0, <1>3, <2>1, <2>2 DEF SwitchBuffer, FixupAfterSwitch, TypeOK
    <3>2. QED
      BY <3>1
  <2>3. CASE ~(NewBuffer[A] # None /\ b = A)
    BY <1>0, <1>3, <2>1, <2>3, <1>c DEF SwitchBuffer, SamePlace, TypeOK
  <2>4. QED
    BY <2>2, <2>3
<1>4. CASE \E c \in Buffers, bs \in BlockSizes : AllocateMemory(c, bs)
  BY <1>0, <1>4, <1>c DEF AllocateMemory, SamePlace, TypeOK
<1>5. CASE \E c \in Buffers : FreeBuffer(c) \/ Complete(c)
  BY <1>0, <1>5, <1>c DEF FreeBuffer, Complete, SamePlace, TypeOK
<1>6. CASE SubmitRequest
  BY <1>0, <1>6, <1>c DEF SubmitRequest, SamePlace, TypeOK
<1>7. CASE \E c \in Buffers : ProcessCompletionEvent(c)
  <2>1. PICK c \in Buffers : ProcessCompletionEvent(c)
    BY <1>7
  <2>2. CASE b = c
    <3>1. use[c] = "done" /\ c \notin missed /\ FixupOffset[c] \in Nat
      BY <1>0, <1>b, <2>1, <2>2 DEF ProcessCompletionEvent, TypeOK
    <3>2. moved[c] = 0
      BY <1>a, <3>1
    <3>3. use'[c] = "held" /\ moved'[c] = FixupOffset'[c]
      BY <1>0, <2>1, <3>1, <3>2 DEF ProcessCompletionEvent, TypeOK
    <3>4. QED
      BY <2>2, <3>3
  <2>3. CASE b # c
    BY <1>0, <2>1, <2>3, <1>c DEF ProcessCompletionEvent, SamePlace, TypeOK
  <2>4. QED
    BY <2>2, <2>3
<1>8. CASE UpdateRegisteredBuffers \/ ReleaseMemory
  BY <1>8, <1>c DEF UpdateRegisteredBuffers, ReleaseMemory, SamePlace
<1>9. CASE IssueStep
  <2>1. /\ A \in Buffers /\ use[A] = "acquired" /\ NewBuffer[A] = None
        /\ NewBuffer' = NewBuffer
    BY <1>0, <1>9, IssueFrame, Constants DEF InHand
  <2>2. CASE b # A
    BY <1>0, <1>9, <2>1, <2>2, <1>c, IssueFrame DEF SamePlace
  <2>3. CASE b = A
    <3>1. A \notin missed
      BY <1>9, <1>b, <2>3 DEF IssueStep, IssueRequest, RefuseRequest, ReadFromCache
    <3>2. moved[A] = FixupOffset[A] /\ FixupOffset[A] \in Nat
      BY <1>0, <1>a, <2>1, <3>1 DEF TypeOK
    <3>3. CASE \E rd \in Reads : IssueRequest(rd)
      <4>1. moved'[A] = 0
        BY <1>0, <2>1, <3>2, <3>3 DEF IssueRequest, TakeBack, TypeOK
      <4>2. use'[A] = "prepared"
        BY <1>0, <2>1, <3>3 DEF IssueRequest, Leave, TypeOK
      <4>3. QED
        BY <2>3, <4>1, <4>2
    <3>4. CASE \E distance \in Nat : RefuseRequest(distance)
      <4>1. moved'[A] = 0
        BY <1>0, <2>1, <3>2, <3>4 DEF RefuseRequest, TakeBack, TypeOK
      <4>2. FixupOffset'[A] = 0
        BY <1>0, <1>b, <2>1, <2>3, <3>4 DEF RefuseRequest, TakeBack, TypeOK
      <4>3. QED
        BY <2>3, <4>1, <4>2
    <3>5. CASE ReadFromCache
      <4>1. moved' = moved /\ FixupOffset' = FixupOffset /\ use'[A] = "held"
        BY <1>0, <2>1, <3>5 DEF ReadFromCache, Leave, TypeOK
      <4>2. QED
        BY <2>3, <3>2, <4>1
    <3>6. QED
      BY <1>0, <1>9, <3>3, <3>4, <3>5, MisalignmentType DEF IssueStep
  <2>4. QED
    BY <2>2, <2>3
<1>10. CASE UNCHANGED vars
  BY <1>10, <1>c DEF vars, SamePlace
<1>11. QED
  BY <1>1, <1>2, <1>3, <1>4, <1>5, <1>6, <1>7, <1>8, <1>9, <1>10 DEF Next, IssueStep

\* A read is prepared at the start of its block, which has room for two units of
\* alignment more than the read asks for; afterwards nothing moves what it was given.
LEMMA ReadsInBlockStep == IInv /\ [Next]_vars => ReadsInBlock'
<1> SUFFICES ASSUME IInv, [Next]_vars PROVE ReadsInBlock'
  OBVIOUS
<1>0. /\ TypeOK /\ InHand /\ BeforeFinalize /\ Growth /\ Placement /\ InPlace
      /\ ReadsInBlock
  BY DEF IInv
<1>a. SUFFICES ASSUME NEW b \in Buffers, use'[b] \in {"prepared", "inflight"}, b \notin missed'
               PROVE  /\ target'[b].first >= 0
                      /\ target'[b].first + target'[b].length
                           <= ActualBufferSize(target'[b].address.alloc)
  BY DEF ReadsInBlock
<1> DEFINE A == AcquiredBuffer
           Same == /\ use[b] \in {"prepared", "inflight"} /\ target'[b] = target[b]
                   /\ b \notin missed
<1>b. SUFFICES ASSUME ~Same PROVE \E rd \in Reads : IssueRequest(rd) /\ b = A
  <2>1. CASE Same
    BY <1>0, <2>1 DEF ReadsInBlock
  <2>2. CASE \E rd \in Reads : IssueRequest(rd) /\ b = A
    <3>1. PICK rd \in Reads : IssueRequest(rd)
      BY <2>2
    <3> DEFINE f == Misalignment(rd)
               z == AlignedSize(rd)
               a == DirectIOBuffer
    <3>2. /\ pc = "issue" /\ A \in Buffers /\ use[A] = "acquired" /\ NewBuffer[A] = None
          /\ A \notin missed
      BY <1>0, <1>a, <2>2, <3>1, AlignmentTypes, Constants
         DEF IssueRequest, Leave, InHand
    <3>3. moved[A] = FixupOffset[A] /\ FixupOffset[A] \in Nat
      BY <1>0, <3>2 DEF InPlace, TypeOK
    <3>4. moved'[A] = 0
      BY <1>0, <3>1, <3>2, <3>3 DEF IssueRequest, TakeBack, TypeOK
    <3>5. /\ target'[A].first = moved'[A] + (IF NvmeDirect THEN 0 ELSE f)
          /\ target'[A].length = z /\ target'[A].address = Memory[A]
      BY <1>0, <3>1, <3>2 DEF IssueRequest, TypeOK
    <3>6. Memory[A].alloc = a /\ blockSize <= a /\ a > 0
      BY <1>0, <3>2 DEF Placement, Growth, BeforeFinalize
    <3>7. a \in Alignments /\ a \in Nat
      BY <1>0, <3>6, AlignmentTypes DEF TypeOK
    <3>8. f \in Nat /\ z \in Nat /\ f + z <= ActualBufferSize(a)
      BY <1>0, <3>6, <3>7, MisalignmentType, AlignedSizeFits
    <3>9. ActualBufferSize(a) \in Nat
      BY <3>6, <3>7, PerAllocPositive
    <3> HIDE DEF f, z, a
    <3>10. target'[A].first \in {0, f}
      BY <3>4, <3>5, <3>8
    <3>11. QED
      BY <2>2, <3>5, <3>6, <3>8, <3>9, <3>10
  <2>3. QED
    BY <1>b, <2>1, <2>2
<1>1. CASE \E index \in [Buffers -> Indices] : Finalize(index)
  BY <1>0, <1>1, <1>a DEF Finalize, BeforeFinalize
<1>2. CASE \E index \in [Buffers -> Indices] : Reallocate(index)
  <2>1. use'[b] # "acquired" /\ use[b] \in {"prepared", "inflight"} /\ target' = target
    BY <1>0, <1>2, <1>a DEF Reallocate, TypeOK
  <2>2. A \in Buffers /\ use[A] = "acquired"
    BY <1>0, <1>2, AlignmentTypes, Constants DEF Reallocate, InHand
  <2>3. b \notin missed
    BY <1>2, <1>a, <2>1, <2>2 DEF Reallocate
  <2>4. QED
    BY <1>b, <2>1, <2>3
<1>3. CASE SwitchBuffer
  <2>1. A \in Buffers /\ use[A] = "acquired" /\ use' = use /\ target' = target
    BY <1>0, <1>3, AlignmentTypes, Constants DEF SwitchBuffer, InHand
  <2>2. b \notin missed
    BY <1>3, <1>a, <2>1 DEF SwitchBuffer
  <2>3. QED
    BY <1>a, <1>b, <2>1, <2>2
<1>4. CASE \E c \in Buffers, bs \in BlockSizes : AllocateMemory(c, bs)
  BY <1>0, <1>4, <1>a, <1>b DEF AllocateMemory, TypeOK
<1>5. CASE UseStep
  <2>1. missed' = missed
    BY <1>5 DEF UseStep, FreeBuffer, Complete, ProcessCompletionEvent, SubmitRequest
  <2>2. QED
    BY <1>0, <1>5, <1>a, <1>b, <2>1, UseStepFrame
<1>6. CASE UpdateRegisteredBuffers \/ ReleaseMemory
  BY <1>6, <1>a, <1>b DEF UpdateRegisteredBuffers, ReleaseMemory
<1>7. CASE IssueStep
  <2>1. b = A
    BY <1>0, <1>7, <1>a, <1>b, IssueFrame
  <2>2. use'[A] # "held"
    BY <1>a, <2>1
  <2>3. A \in Buffers
    BY <1>0, <1>7, IssueFrame
  <2>4. QED
    BY <1>0, <1>7, <2>1, <2>2, <2>3
       DEF IssueStep, RefuseRequest, ReadFromCache, Leave, TypeOK
<1>8. CASE UNCHANGED vars
  BY <1>8, <1>a, <1>b DEF vars
<1>9. QED
  BY <1>1, <1>2, <1>3, <1>4, <1>5, <1>6, <1>7, <1>8 DEF Next, UseStep, IssueStep

-----------------------------------------------------------------------------
(* What follows from the invariant                                           *)

LEMMA IInvStep == IInv /\ [Next]_vars => IInv'
BY TypeStep, ControlStep, PlacementStep, AccountStep, TrackedStep, TargetStep,
   RegisteredStep, InPlaceStep, ReadsInBlockStep DEF IInv

LEMMA IInvAlways == Spec => []IInv
BY InitIInv, IInvStep, PTL DEF Spec

LEMMA IInvImpliesNoUseAfterFree == IInv => NoUseAfterFree
<1> SUFFICES ASSUME IInv PROVE NoUseAfterFree
  OBVIOUS
<1>0. TypeOK /\ InHand /\ Placement /\ MemoryAccounted /\ Tracked /\ TargetIsMemory
  BY DEF IInv
<1>1. \A b \in Buffers : use[b] # "free" /\ ~Leaving(b) => Memory[b].alloc \in live
  BY <1>0 DEF Tracked, MemoryAccounted, Pending
<1>2. \A b \in Buffers : use[b] \in {"prepared", "inflight", "done", "held"} => ~Leaving(b)
  BY <1>0, Constants DEF InHand, Leaving
<1>3. pc \in {"release", "issue"} => Memory[AcquiredBuffer].alloc \in live
  BY <1>0 DEF InHand, Placement, MemoryAccounted, TypeOK
<1>4. QED
  BY <1>0, <1>1, <1>2, <1>3 DEF NoUseAfterFree, TargetIsMemory

LEMMA IInvImpliesBlockSizeHonoured == IInv => BlockSizeHonoured
<1> SUFFICES ASSUME IInv, pc \in {"release", "issue"}
             PROVE  Memory[AcquiredBuffer].alloc >= blockSize
  BY DEF BlockSizeHonoured
<1>1. AcquiredBuffer \in Buffers /\ DirectIOBuffer \in Nat /\ blockSize \in Nat
  BY AlignmentTypes DEF IInv
<1>2. Memory[AcquiredBuffer].alloc = DirectIOBuffer /\ blockSize <= DirectIOBuffer
  BY <1>1 DEF IInv, InHand, Placement, Growth
<1>3. QED
  BY <1>1, <1>2

LEMMA IInvImpliesFixedReadsInChunk == IInv => FixedReadsInChunk
<1> SUFFICES ASSUME IInv, RegisterBuffers
             PROVE  /\ \A c \in RegisteredBuffers :
                         Cardinality(c.indices) * ActualBufferSize(c.alloc) <= MaxBufferSize
                    /\ \A b \in Buffers : use[b] \in {"prepared", "inflight"} =>
                         Holds(target[b].number, target[b].address)
  BY DEF FixedReadsInChunk, Holds
<1>1. CASE pc = "finalize"
  BY <1>1 DEF IInv, BeforeFinalize
<1>2. CASE pc # "finalize"
  BY <1>2, ChunkCapacity DEF IInv, Registered
<1>3. QED
  BY <1>1, <1>2

\* Every variable keeps its type, and every buffer has a registered buffer's number
\* once there are any.
THEOREM BufferTypeCorrect == Spec => []TypeOK
BY IInvAlways, PTL DEF IInv

\* UpdateMemory frees each allocation once, with the last buffer that refers to it,
\* and keeps no other.
THEOREM MemoryIsAccounted == Spec => []MemoryAccounted
BY IInvAlways, PTL DEF IInv

\* No memory is freed that the kernel may still write to or the engine reads.
THEOREM MemoryNotFreedInUse == Spec => []NoUseAfterFree
BY IInvAlways, IInvImpliesNoUseAfterFree, PTL

\* Buffers in use do not share memory, through any number of reallocations.
THEOREM BlocksStayDisjoint == Spec => []BlocksDisjoint
<1>1. IInv => BlocksDisjoint
  BY DEF IInv, Distinct, BlocksDisjoint
<1>2. QED
  BY <1>1, IInvAlways, PTL

\* No read is given memory outside the block of its buffer, through any reads before it
\* and any growth of the alignment, unless a read without a start extent has left the
\* buffer out of place.
THEOREM ReadsStayInBlock == Spec => []ReadsInBlock
BY IInvAlways, PTL DEF IInv

\* A fixed read names the registered buffer that its memory is in, and no registered
\* buffer is larger than the kernel allows, for any sizes.
THEOREM FixedReadsStayInChunk == Spec => []FixedReadsInChunk
BY IInvAlways, IInvImpliesFixedReadsInChunk, PTL

\* The block that a read gets is of at least the alignment that its file asks for.
THEOREM AlignmentIsHonoured == Spec => []BlockSizeHonoured
BY IInvAlways, IInvImpliesBlockSizeHonoured, PTL
=============================================================================
