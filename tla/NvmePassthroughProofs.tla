------------------------ MODULE NvmePassthroughProofs ------------------------
(***************************************************************************)
(* NVMe passthrough, for any requests, buffers, containers, devices and    *)
(* layouts of files: the extents of a container are read completely,       *)
(* trackers count the commands of their read, the table of devices is      *)
(* consistent, a mapped read ends in no check(), and what is handed over   *)
(* as good is the data asked for.                                          *)
(***************************************************************************)
EXTENDS NvmePassthrough, SequenceLemmas, WellFoundedInduction

-----------------------------------------------------------------------------
(* Blocks and numbers of them                                                *)

\* What the remainder and the quotient of a division are.
LEMMA Division ==
    ASSUME NEW n \in Int, NEW a \in Nat \ {0}
    PROVE  /\ n % a \in 0 .. a - 1 /\ n \div a \in Int
           /\ n = a * (n \div a) + (n % a)
<1>1. n % a \in 0 .. a - 1
  OBVIOUS
<1>2. n \div a \in Int
  OBVIOUS
<1>3. n = a * (n \div a) + (n % a)
  OBVIOUS
<1>4. QED BY <1>1, <1>2, <1>3

\* A quotient and a remainder in range are those of their sum.
LEMMA DivisionUnique ==
    ASSUME NEW a \in Nat \ {0}, NEW q \in Int, NEW k \in 0 .. a - 1
    PROVE  /\ (a * q + k) \div a = q
           /\ (a * q + k) % a = k
<1> DEFINE n == a * q + k
           d == n \div a
           m == n % a
<1>1. n \in Int /\ d \in Int /\ m \in 0 .. a - 1 /\ n = a * d + m
  BY Division
<1>2. n = a * q + k
  OBVIOUS
<1> HIDE DEF n, d, m
<1>3. a * (q - d) = m - k
  BY <1>1, <1>2
<1>4. ~(q - d >= 1)
  <2>1. ASSUME NEW x \in Int, x >= 1 PROVE a * x >= a
    BY <2>1
  <2>2. QED BY <1>1, <1>3, <2>1
<1>5. ~(d - q >= 1)
  <2>1. ASSUME NEW x \in Int, x >= 1 PROVE a * x >= a
    BY <2>1
  <2>2. a * (d - q) = k - m
    BY <1>1, <1>3
  <2>3. QED BY <1>1, <2>2, <2>1
<1>6. d = q
  BY <1>1, <1>4, <1>5
<1>7. m = k
  BY <1>1, <1>2, <1>6
<1>. QED BY <1>6, <1>7 DEF d, m, n

\* AlignDown and Align return the block boundaries next to a number.
LEMMA AlignProperties ==
    ASSUME NEW n \in Nat
    PROVE  /\ AlignDown(n, BlockSize) \in Nat /\ Align(n, BlockSize) \in Nat
           /\ AlignDown(n, BlockSize) % BlockSize = 0 /\ Align(n, BlockSize) % BlockSize = 0
           /\ AlignDown(n, BlockSize) <= n /\ n < AlignDown(n, BlockSize) + BlockSize
           /\ n <= Align(n, BlockSize) /\ Align(n, BlockSize) < n + BlockSize
<1>1. BlockSize \in Nat \ {0}
  BY ExtentConstants
<1>2. ASSUME NEW m \in Nat
      PROVE  /\ AlignDown(m, BlockSize) \in Nat /\ AlignDown(m, BlockSize) <= m
             /\ m < AlignDown(m, BlockSize) + BlockSize
             /\ AlignDown(m, BlockSize) % BlockSize = 0
  <2> DEFINE q == m \div BlockSize
             k == m % BlockSize
  <2>1. k \in 0 .. BlockSize - 1 /\ q \in Int /\ m = BlockSize * q + k
    BY <1>1, Division
  <2>2. AlignDown(m, BlockSize) = BlockSize * q + 0
    BY <1>1, <2>1 DEF AlignDown
  <2>3. (BlockSize * q + 0) % BlockSize = 0
    BY <1>1, <2>1, DivisionUnique
  <2>5. k <= m
    BY <1>1
  <2>4. AlignDown(m, BlockSize) = m - k
    BY DEF AlignDown
  <2> HIDE DEF q, k
  <2>. QED  BY <1>1, <2>1, <2>2, <2>3, <2>4, <2>5
<1>3. n + BlockSize - 1 \in Nat
  BY <1>1
<1> DEFINE m == n + BlockSize - 1
<1>4. Align(n, BlockSize) = AlignDown(m, BlockSize)
  BY DEF Align
<1>5. /\ AlignDown(m, BlockSize) \in Nat /\ AlignDown(m, BlockSize) <= m
      /\ m < AlignDown(m, BlockSize) + BlockSize
      /\ AlignDown(m, BlockSize) % BlockSize = 0
  BY <1>2, <1>3
<1> HIDE DEF m
<1>6. n <= Align(n, BlockSize) /\ Align(n, BlockSize) < n + BlockSize
  BY <1>1, <1>4, <1>5 DEF m
<1>7. Align(n, BlockSize) \in Nat /\ Align(n, BlockSize) % BlockSize = 0
  BY <1>4, <1>5
<1>8. AlignDown(n, BlockSize) % BlockSize = 0
  BY <1>2
<1>9. /\ AlignDown(n, BlockSize) \in Nat /\ AlignDown(n, BlockSize) <= n
      /\ n < AlignDown(n, BlockSize) + BlockSize
  BY <1>2
<1>. QED  BY <1>6, <1>7, <1>8, <1>9

\* Every set of natural numbers has a least member.
LEMMA LeastIsOne ==
    ASSUME NEW S, S \subseteq Nat, S # {}
    PROVE  \E d \in S : \A e \in S : d <= e
<1> DEFINE R == {pair \in Nat \X Nat : pair[1] < pair[2]}
<1>1. IsWellFoundedOn(R, Nat)
  <2>1. IsWellFoundedOn(OpToRel(<, Nat), Nat)
    BY NatLessThanWellFounded, Zenon
  <2>2. OpToRel(<, Nat) = R
    BY Zenon DEF OpToRel
  <2>3. QED  BY <2>1, <2>2, Zenon
<1> HIDE DEF R
<1>2. PICK d \in S : \A e \in S : ~(<<e, d>> \in R)
  BY <1>1, WFMin
<1>3. ASSUME NEW e \in S PROVE d <= e
  <2>1. ~(<<e, d>> \in R) /\ e \in Nat /\ d \in Nat
    BY <1>2
  <2>2. <<e, d>> \in Nat \X Nat /\ <<e, d>>[1] = e /\ <<e, d>>[2] = d
    BY <2>1
  <2>3. ~(e < d)
    BY <2>1, <2>2 DEF R
  <2>4. QED  BY <2>1, <2>3
<1>4. QED  BY <1>3

-----------------------------------------------------------------------------
(* The walk over the extents                                                 *)

-----------------------------------------------------------------------------
(* The walk over the extents of a file                                       *)

Extent == [LogicalOffset : Nat, PhysicalOffset : Nat, Length : Nat \ {0}]

\* The extents of a layout and their order, as the provers need them.
LEMMA LayoutFacts ==
    ASSUME NEW file, Layout(file)
    PROVE  /\ file \in Seq(Extent) /\ Len(file) \in Nat /\ DOMAIN file = 1 .. Len(file)
           /\ \A i \in 1 .. Len(file) :
                /\ file[i] \in Extent
                /\ file[i].LogicalOffset \in Nat /\ file[i].PhysicalOffset \in Nat
                /\ file[i].Length \in Nat \ {0} /\ ExtentEnd(file[i]) \in Nat
                /\ file[i].LogicalOffset < ExtentEnd(file[i])
           /\ \A i, j \in 1 .. Len(file) : i < j =>
                /\ ExtentEnd(file[i]) <= file[j].LogicalOffset
                /\ ExtentEnd(file[i]) < ExtentEnd(file[j]) /\ file[i] # file[j]
<1>1. file \in Seq(Extent) /\ Len(file) \in Nat /\ DOMAIN file = 1 .. Len(file)
  BY DEF Layout, Extent
<1>2. \A i \in 1 .. Len(file) : file[i] \in Extent
  BY <1>1
<1>3. \A e \in Extent : /\ e.LogicalOffset \in Nat /\ e.PhysicalOffset \in Nat
                        /\ e.Length \in Nat \ {0} /\ ExtentEnd(e) \in Nat
                        /\ e.LogicalOffset < ExtentEnd(e)
  BY DEF Extent, ExtentEnd
<1>4. ASSUME NEW i \in 1 .. Len(file), NEW j \in 1 .. Len(file), i < j
      PROVE  ExtentEnd(file[i]) <= file[j].LogicalOffset
  BY <1>1, <1>4 DEF Layout
<1>5. ASSUME NEW i \in 1 .. Len(file), NEW j \in 1 .. Len(file), i < j
      PROVE  ExtentEnd(file[i]) < ExtentEnd(file[j]) /\ file[i] # file[j]
  <2>1. /\ ExtentEnd(file[i]) \in Nat /\ ExtentEnd(file[j]) \in Nat
        /\ file[j].LogicalOffset \in Nat /\ file[j].LogicalOffset < ExtentEnd(file[j])
    BY <1>2, <1>3
  <2>2. ExtentEnd(file[i]) <= file[j].LogicalOffset
    BY <1>4, <1>5
  <2>3. QED  BY <2>1, <2>2
<1>6. QED  BY <1>1, <1>2, <1>3, <1>4, <1>5

\* Where the walk is when it has the first k extents.
OffsetAfter(file, k) == IF k = 0 THEN 0 ELSE ExtentEnd(file[k])

\* A call that starts where the first k extents end returns the ones after them.
LEMMA FiemapFrom ==
    ASSUME NEW file, Layout(file), NEW k \in 0 .. Len(file)
    PROVE  Fiemap(file, OffsetAfter(file, k)) =
             SubSeq(file, k + 1, IF k + MaxExtents < Len(file) THEN k + MaxExtents
                                                             ELSE Len(file))
<1> DEFINE before == {i \in DOMAIN file : ExtentEnd(file[i]) <= OffsetAfter(file, k)}
<1>1. Len(file) \in Nat /\ DOMAIN file = 1 .. Len(file)
  BY LayoutFacts
<1>2. before = 1 .. k
  <2>1. CASE k = 0
    <3>1. \A i \in 1 .. Len(file) : ~(ExtentEnd(file[i]) <= 0)
      <4>1. TAKE i \in 1 .. Len(file)
      <4>2. /\ file[i].LogicalOffset \in Nat /\ ExtentEnd(file[i]) \in Nat
            /\ file[i].LogicalOffset < ExtentEnd(file[i])
        BY LayoutFacts
      <4>3. QED  BY <4>2
    <3>2. QED  BY <1>1, <2>1, <3>1 DEF OffsetAfter
  <2>2. CASE k # 0
    <3>1. k \in 1 .. Len(file) /\ OffsetAfter(file, k) = ExtentEnd(file[k])
      BY <1>1, <2>2 DEF OffsetAfter
    <3>2. ASSUME NEW i \in 1 .. Len(file)
          PROVE  ExtentEnd(file[i]) <= ExtentEnd(file[k]) <=> i <= k
      <4>1. ExtentEnd(file[i]) \in Nat /\ ExtentEnd(file[k]) \in Nat
        BY <3>1, LayoutFacts
      <4>2. i < k => ExtentEnd(file[i]) < ExtentEnd(file[k])
        BY <3>1, LayoutFacts
      <4>3. k < i => ExtentEnd(file[k]) < ExtentEnd(file[i])
        BY <3>1, LayoutFacts
      <4>4. QED  BY <1>1, <3>1, <4>1, <4>2, <4>3
    <3>3. QED  BY <1>1, <3>1, <3>2
  <2>3. QED  BY <2>1, <2>2
<1>3. Cardinality(before) = k
  <2>1. 1 \in Int /\ k \in Int /\ k >= 0
    BY <1>1
  <2>2. Cardinality(1 .. k) = IF 1 > k THEN 0 ELSE k - 1 + 1
    BY <2>1, FS_Interval
  <2> HIDE DEF before
  <2>3. QED  BY <1>2, <2>1, <2>2
<1>4. QED  BY <1>3 DEF Fiemap

\* What the walk has after n calls: the first extents, MaxExtents per call.
Reached(file, n) == IF n * MaxExtents < Len(file) THEN n * MaxExtents ELSE Len(file)
WalkAfter(file, n) ==
    [PhysicalExtents |-> SubSeq(file, 1, Reached(file, n)),
     LogicalOffset |-> OffsetAfter(file, Reached(file, n))]

\* The fields of WalkAfter.
LEMMA WalkAfterFields ==
    ASSUME NEW file, NEW n
    PROVE  /\ WalkAfter(file, n).PhysicalExtents = SubSeq(file, 1, Reached(file, n))
           /\ WalkAfter(file, n).LogicalOffset = OffsetAfter(file, Reached(file, n))
<1> DEFINE e == SubSeq(file, 1, Reached(file, n))
           o == OffsetAfter(file, Reached(file, n))
<1>1. WalkAfter(file, n) = [PhysicalExtents |-> e, LogicalOffset |-> o]
  BY DEF WalkAfter
<1> HIDE DEF e, o
<1>2. WalkAfter(file, n).PhysicalExtents = e /\ WalkAfter(file, n).LogicalOffset = o
  BY <1>1
<1>3. QED  BY <1>2 DEF e, o

\* One turn of the loop, as WalkExtents has it.
Turn(file, n, w) ==
    IF n = 0 THEN [PhysicalExtents |-> <<>>, LogicalOffset |-> 0]
    ELSE LET last == w[n - 1]
             batch == Fiemap(file, last.LogicalOffset)
         IN  IF LastExtentFound(last.PhysicalExtents, file) \/ batch = <<>> THEN last
             ELSE [PhysicalExtents |-> last.PhysicalExtents \o batch,
                   LogicalOffset |-> NextStart(batch)]

\* A prefix and the part after it are a longer prefix.
LEMMA SubSeqJoin ==
    ASSUME NEW S, NEW s \in Seq(S), NEW m \in 0 .. Len(s), NEW k \in 0 .. m
    PROVE  /\ SubSeq(s, 1, k) \o SubSeq(s, k + 1, m) = SubSeq(s, 1, m)
           /\ Len(SubSeq(s, k + 1, m)) = m - k
           /\ \A j \in 1 .. m - k : SubSeq(s, k + 1, m)[j] = s[k + j]
           /\ SubSeq(s, k + 1, m) \in Seq(S)
<1>1. Len(s) \in Nat /\ \A i \in 1 .. Len(s) : s[i] \in S
  BY LenProperties, ElementOfSeq
<1>2. /\ SubSeq(s, 1, k) \in Seq(S) /\ Len(SubSeq(s, 1, k)) = k
      /\ \A j \in 1 .. k : SubSeq(s, 1, k)[j] = s[j]
  BY <1>1, TakeProperties
<1>3. /\ SubSeq(s, 1, m) \in Seq(S) /\ Len(SubSeq(s, 1, m)) = m
      /\ \A j \in 1 .. m : SubSeq(s, 1, m)[j] = s[j]
  BY <1>1, TakeProperties
<1>4. /\ SubSeq(s, k + 1, m) \in Seq(S) /\ Len(SubSeq(s, k + 1, m)) = m - k
      /\ \A j \in 1 .. m - k : SubSeq(s, k + 1, m)[j] = s[k + j]
  <2>1. \A j \in k + 1 .. m : s[j] \in S
    BY <1>1
  <2>2. k + 1 \in Nat /\ m \in Nat
    BY <1>1
  <2>3. SubSeq(s, k + 1, m) \in Seq(S)
    BY <2>1, <2>2, SubSeqProperties
  <2>4. Len(SubSeq(s, k + 1, m)) = m - k
    BY <1>1, <2>1, <2>2, SubSeqProperties
  <2>5. \A j \in 1 .. m - k : SubSeq(s, k + 1, m)[j] = s[k + j]
    BY <1>1, <2>1, <2>2, <2>4, SubSeqProperties
  <2>6. QED  BY <2>3, <2>4, <2>5
<1> DEFINE a == SubSeq(s, 1, k)
           b == SubSeq(s, k + 1, m)
           c == SubSeq(s, 1, m)
<1> HIDE DEF a, b, c
<1>0. k \in Nat /\ m \in Nat /\ k <= m
  BY <1>1
<1>5. /\ a \in Seq(S) /\ Len(a) = k /\ \A j \in 1 .. k : a[j] = s[j]
      /\ b \in Seq(S) /\ Len(b) = m - k /\ \A j \in 1 .. m - k : b[j] = s[k + j]
      /\ c \in Seq(S) /\ Len(c) = m /\ \A j \in 1 .. m : c[j] = s[j]
  BY <1>2, <1>3, <1>4 DEF a, b, c
<1>6. /\ a \o b \in Seq(S) /\ Len(a \o b) = Len(a) + Len(b)
      /\ \A i \in 1 .. Len(a) + Len(b) :
           (a \o b)[i] = IF i <= Len(a) THEN a[i] ELSE b[i - Len(a)]
  BY <1>5, ConcatProperties
<1>7. Len(a) + Len(b) = m
  BY <1>0, <1>5
<1>8. \A j \in 1 .. m : (a \o b)[j] = c[j]
  <2>1. TAKE j \in 1 .. m
  <2>2. (a \o b)[j] = IF j <= k THEN a[j] ELSE b[j - k]
    BY <1>5, <1>6, <1>7
  <2>3. CASE j <= k
    BY <1>0, <1>5, <2>2, <2>3
  <2>4. CASE ~(j <= k)
    <3>1. (a \o b)[j] = b[j - k] /\ j - k \in 1 .. m - k /\ k + (j - k) = j
      BY <1>0, <2>2, <2>4
    <3>2. b[j - k] = s[k + (j - k)]
      BY <1>5, <3>1
    <3>3. QED  BY <1>5, <3>1, <3>2
  <2>5. QED  BY <2>3, <2>4
<1>9. a \o b = c
  BY <1>5, <1>6, <1>7, <1>8, SeqEqual
<1>10. QED  BY <1>4, <1>9 DEF a, b, c

\* A turn leads from what is reached after n - 1 calls to what is after n.
LEMMA TurnReaches ==
    ASSUME NEW file, Layout(file), NEW w, NEW n \in Nat,
           n # 0 => w[n - 1] = WalkAfter(file, n - 1)
    PROVE  Turn(file, n, w) = WalkAfter(file, n)
<1> DEFINE L == Len(file)
           m == Reached(file, n)
<1>1. /\ file \in Seq(Extent) /\ L \in Nat /\ DOMAIN file = 1 .. L
      /\ MaxExtents \in Nat \ {0}
  BY LayoutFacts, ExtentConstants
<1>2. CASE n = 0
  <2>1. Reached(file, 0) = 0
    BY <1>1 DEF Reached
  <2>2. SubSeq(file, 1, 0) = <<>>
    BY <1>1, SubSeqEmpty
  <2>3. Turn(file, n, w) = [PhysicalExtents |-> <<>>, LogicalOffset |-> 0]
    BY <1>2 DEF Turn
  <2>4. QED  BY <1>2, <2>1, <2>2, <2>3 DEF WalkAfter, OffsetAfter
<1>3. CASE n # 0
  <2> DEFINE k == Reached(file, n - 1)
             x == (n - 1) * MaxExtents
  <2>1. /\ n - 1 \in Nat /\ x \in Nat /\ n * MaxExtents = x + MaxExtents
    BY <1>1, <1>3
  <2>2. /\ k = IF x < L THEN x ELSE L
        /\ m = IF x + MaxExtents < L THEN x + MaxExtents ELSE L
    BY <2>1 DEF Reached
  <2> DEFINE last == w[n - 1]
             batch == Fiemap(file, last.LogicalOffset)
  <2>3. last = WalkAfter(file, n - 1)
    BY <1>3
  <2>4. last.PhysicalExtents = SubSeq(file, 1, k) /\ last.LogicalOffset = OffsetAfter(file, k)
    BY <2>3, WalkAfterFields
  <2>5. WalkAfter(file, n) =
          [PhysicalExtents |-> SubSeq(file, 1, m), LogicalOffset |-> OffsetAfter(file, m)]
    BY DEF WalkAfter
  <2>6. k \in Nat /\ m \in Nat /\ k <= m /\ m <= L
    <3> HIDE DEF x, k, m, L
    <3>1. QED  BY <1>1, <2>1, <2>2
  <2>7. batch = SubSeq(file, k + 1, IF k + MaxExtents < L THEN k + MaxExtents ELSE L)
    <3>1. k \in 0 .. Len(file)
      <4> HIDE DEF k
      <4>1. QED  BY <1>1, <2>6
    <3>2. QED  BY <2>4, <3>1, FiemapFrom
  <2>8. Turn(file, n, w) = IF LastExtentFound(SubSeq(file, 1, k), file) \/ batch = <<>>
          THEN last
          ELSE [PhysicalExtents |-> SubSeq(file, 1, k) \o batch,
                LogicalOffset |-> NextStart(batch)]
    BY <1>3, <2>4 DEF Turn
  <2> HIDE DEF x, k, m, L, batch, last
  <2>0. L = Len(file) /\ L \in Nat
    BY <1>1 DEF L
  <2>9. CASE k = L
    <3>1. m = L
      BY <1>1, <2>6, <2>9
    <3>2. batch = <<>>
      <4>1. ~(k + MaxExtents < L) /\ L \in Int /\ k + 1 \in Int /\ L < k + 1
        BY <1>1, <2>9
      <4>2. batch = SubSeq(file, k + 1, L)
        BY <2>7, <4>1
      <4>3. QED  BY <4>1, <4>2, SubSeqEmpty
    <3>3. Turn(file, n, w) = last
      BY <2>8, <3>2
    <3>4. last = WalkAfter(file, n)
      BY <2>3, <2>9, <3>1 DEF WalkAfter, k, m
    <3>5. QED  BY <3>3, <3>4
  <2>10. CASE k # L
    <3>1. k = x /\ k < m /\ m = IF k + MaxExtents < L THEN k + MaxExtents ELSE L
      BY <1>1, <2>1, <2>2, <2>10
    <3>2. m \in 0 .. Len(file) /\ k \in 0 .. m /\ m - k \in 1 .. m - k /\ k + (m - k) = m
      BY <2>0, <2>6, <3>1
    <3>3. /\ SubSeq(file, 1, k) \o batch = SubSeq(file, 1, m)
          /\ Len(batch) = m - k /\ batch[m - k] = file[m]
      <4>1. batch = SubSeq(file, k + 1, m)
        BY <2>7, <3>1
      <4>2. /\ SubSeq(file, 1, k) \o SubSeq(file, k + 1, m) = SubSeq(file, 1, m)
            /\ Len(SubSeq(file, k + 1, m)) = m - k
            /\ \A j \in 1 .. m - k : SubSeq(file, k + 1, m)[j] = file[k + j]
        <5>1. file \in Seq(Extent)
          BY <1>1
        <5> HIDE DEF k, m
        <5>2. QED  BY <3>2, <5>1, SubSeqJoin
      <4>3. QED  BY <3>2, <4>1, <4>2
    <3>4. batch # <<>> /\ m # 0
      <4>1. Len(batch) # 0 /\ m # 0
        BY <2>6, <3>1, <3>3
      <4>2. QED  BY <4>1
    <3>5. ~LastExtentFound(SubSeq(file, 1, k), file)
      <4>1. ASSUME LastExtentFound(SubSeq(file, 1, k), file) PROVE FALSE
        <5>1. k \in 0 .. Len(file)
          BY <1>1, <2>6 DEF L
        <5>2. Len(SubSeq(file, 1, k)) = k /\ \A j \in 1 .. k : SubSeq(file, 1, k)[j] = file[j]
          BY <1>1, <5>1, TakeProperties
        <5>3. k # 0
          BY <1>1, <4>1, <5>1, SubSeqEmpty DEF LastExtentFound
        <5>4. file[k] = file[L]
          <6>1. k \in 1 .. k
            BY <2>6, <5>3
          <6>2. QED  BY <4>1, <5>2, <6>1 DEF LastExtentFound, L
        <5>5. k \in 1 .. Len(file) /\ L \in 1 .. Len(file) /\ k < L
          BY <2>0, <2>6, <2>10, <5>3
        <5>6. QED  BY <5>4, <5>5, LayoutFacts
      <4>2. QED  BY <4>1
    <3>6. NextStart(batch) = OffsetAfter(file, m)
      BY <3>3, <3>4 DEF NextStart, OffsetAfter
    <3>7. QED  BY <2>5, <2>8, <3>3, <3>4, <3>5, <3>6
  <2>11. QED  BY <2>9, <2>10
<1>4. QED  BY <1>2, <1>3

\* The walk returns the map of the file, in however many calls.
LEMMA ExtentsRead ==
    ASSUME NEW file, Layout(file)
    PROVE  WalkExtents(file) = file
<1> DEFINE IsWalk(w) == w = [n \in Nat |-> Turn(file, n, w)]
           g == [n \in Nat |-> WalkAfter(file, n)]
           w == CHOOSE v : IsWalk(v)
<1>1. /\ file \in Seq(Extent) /\ Len(file) \in Nat /\ MaxExtents \in Nat \ {0}
  BY LayoutFacts, ExtentConstants
<1>2. IsWalk(g)
  <2>1. \A n \in Nat : Turn(file, n, g) = WalkAfter(file, n)
    <3>1. TAKE n \in Nat
    <3>2. n # 0 => g[n - 1] = WalkAfter(file, n - 1)
      <4>1. n # 0 => n - 1 \in Nat
        OBVIOUS
      <4>2. QED  BY <4>1
    <3> HIDE DEF g
    <3>3. QED  BY <3>2, TurnReaches
  <2>2. QED  BY <2>1
<1>3. IsWalk(w)
  <2> HIDE DEF IsWalk
  <2>1. QED  BY <1>2
<1>4. \A n \in Nat : w[n] = Turn(file, n, w)
  <2> HIDE DEF w
  <2>1. QED  BY <1>3
<1> HIDE DEF w
<1>5. \A n \in Nat : w[n] = WalkAfter(file, n)
  <2> DEFINE wrong == {n \in Nat : w[n] # WalkAfter(file, n)}
  <2>1. ASSUME wrong # {} PROVE FALSE
    <3>1. PICK n \in wrong : \A e \in wrong : n <= e
      BY <2>1, LeastIsOne
    <3>2. n \in Nat /\ w[n] # WalkAfter(file, n)
      OBVIOUS
    <3>3. n # 0 => w[n - 1] = WalkAfter(file, n - 1)
      <4>1. SUFFICES ASSUME n # 0 PROVE n - 1 \notin wrong /\ n - 1 \in Nat
        OBVIOUS
      <4>2. n - 1 \in Nat /\ ~(n <= n - 1)
        BY <3>2, <4>1
      <4>3. QED  BY <3>1, <4>2
    <3>4. w[n] = WalkAfter(file, n)
      BY <1>4, <3>2, <3>3, TurnReaches
    <3>5. QED  BY <3>2, <3>4
  <2>2. QED  BY <2>1
<1>6. WalkExtents(file) = w[Len(file)].PhysicalExtents
  BY DEF WalkExtents, w, IsWalk, Turn
<1>7. WalkExtents(file) = SubSeq(file, 1, Reached(file, Len(file)))
  <2>1. w[Len(file)] = WalkAfter(file, Len(file))
    BY <1>1, <1>5
  <2>2. QED  BY <1>6, <2>1, WalkAfterFields
<1>8. Reached(file, Len(file)) = Len(file)
  <2>1. \A k \in Nat : k * MaxExtents >= k
    BY <1>1
  <2>2. QED  BY <1>1, <2>1 DEF Reached
<1>9. SubSeq(file, 1, Len(file)) = file
  BY <1>1
<1>10. QED  BY <1>7, <1>8, <1>9

-----------------------------------------------------------------------------
(* The part of a read in an extent                                           *)

\* A number of whole blocks is BlockSize times their count.
LEMMA Whole ==
    ASSUME NEW n \in Int, n % BlockSize = 0
    PROVE  /\ n \div BlockSize \in Int /\ n = BlockSize * (n \div BlockSize)
           /\ n > 0 => n \div BlockSize >= 1
           /\ n >= 0 => n \div BlockSize \in Nat
<1>1. BlockSize \in Nat \ {0}
  BY ExtentConstants
<1> DEFINE q == n \div BlockSize
<1>2. q \in Int /\ n = BlockSize * q + (n % BlockSize)
  BY <1>1, Division
<1> HIDE DEF q
<1>3. n = BlockSize * q
  BY <1>1, <1>2
<1>4. ASSUME n > 0 PROVE q >= 1
  <2>1. ASSUME q <= 0 PROVE BlockSize * q <= 0
    BY <1>1, <1>2, <2>1
  <2>2. QED  BY <1>2, <1>3, <1>4, <2>1
<1>5. ASSUME n >= 0 PROVE q \in Nat
  <2>1. ASSUME q < 0 PROVE BlockSize * q < 0
    BY <1>1, <1>2, <2>1
  <2>2. QED  BY <1>2, <1>3, <1>5, <2>1
<1>6. QED  BY <1>2, <1>3, <1>4, <1>5 DEF q

\* Sums and differences of whole blocks are whole blocks.
LEMMA WholeSums ==
    ASSUME NEW m \in Int, NEW n \in Int, m % BlockSize = 0, n % BlockSize = 0
    PROVE  /\ (m + n) % BlockSize = 0 /\ (m - n) % BlockSize = 0
           /\ m < n => m + BlockSize <= n
<1>1. BlockSize \in Nat \ {0}
  BY ExtentConstants
<1> DEFINE p == m \div BlockSize
           q == n \div BlockSize
<1>2. p \in Int /\ q \in Int /\ m = BlockSize * p /\ n = BlockSize * q
  BY Whole
<1> HIDE DEF p, q
<1>3. m + n = BlockSize * (p + q) + 0 /\ m - n = BlockSize * (p - q) + 0
  BY <1>1, <1>2
<1>4. \A d \in Int : (BlockSize * d + 0) % BlockSize = 0
  <2>1. 0 \in 0 .. BlockSize - 1
    BY <1>1
  <2>2. QED  BY <1>1, <2>1, DivisionUnique
<1>5. (m + n) % BlockSize = 0 /\ (m - n) % BlockSize = 0
  <2>1. p + q \in Int /\ p - q \in Int
    BY <1>2
  <2>2. QED  BY <1>3, <1>4, <2>1
<1>6. ASSUME m < n PROVE m + BlockSize <= n
  <2>1. \A d \in Int : d >= 1 => BlockSize * d >= BlockSize
    BY <1>1
  <2>2. \A d \in Int : d <= 0 => BlockSize * d <= 0
    BY <1>1
  <2>3. n - m = BlockSize * (q - p) /\ q - p \in Int
    BY <1>1, <1>2
  <2>4. q - p >= 1
    <3>1. CASE q - p <= 0
      BY <1>6, <2>2, <2>3, <3>1
    <3>2. QED  BY <1>2, <3>1
  <2>5. n - m >= BlockSize
    BY <2>1, <2>3, <2>4
  <2>6. QED  BY <1>1, <2>5
<1>7. QED  BY <1>5, <1>6

\* What a product of blocks is.
LEMMA BlocksProduct ==
    ASSUME NEW q \in Int
    PROVE  /\ BlockSize * q \in Int /\ (BlockSize * q) % BlockSize = 0
           /\ (BlockSize * q) \div BlockSize = q
           /\ q >= 1 => BlockSize * q >= BlockSize
           /\ q >= 0 => BlockSize * q >= 0
           /\ BlockSize * q > 0 => q >= 1
           /\ \A r \in Int : /\ q <= r => BlockSize * q <= BlockSize * r
                             /\ BlockSize * (q + r) = BlockSize * q + BlockSize * r
                             /\ BlockSize * (q - r) = BlockSize * q - BlockSize * r
<1>1. BlockSize \in Nat \ {0}
  BY ExtentConstants
<1>2. (BlockSize * q + 0) % BlockSize = 0 /\ (BlockSize * q + 0) \div BlockSize = q
  <2>1. 0 \in 0 .. BlockSize - 1
    BY <1>1
  <2>2. QED  BY <1>1, <2>1, DivisionUnique
<1>3. BlockSize * q \in Int /\ BlockSize * q + 0 = BlockSize * q
  BY <1>1
<1>4. q >= 1 => BlockSize * q >= BlockSize
  BY <1>1
<1>5. q >= 0 => BlockSize * q >= 0
  BY <1>1
<1>6. BlockSize * q > 0 => q >= 1
  <2>1. q <= 0 => BlockSize * q <= 0
    BY <1>1
  <2>2. QED  BY <1>3, <2>1
<1>7. ASSUME NEW r \in Int
      PROVE  /\ q <= r => BlockSize * q <= BlockSize * r
             /\ BlockSize * (q + r) = BlockSize * q + BlockSize * r
             /\ BlockSize * (q - r) = BlockSize * q - BlockSize * r
  <2>1. \A d \in Int : d >= 0 => BlockSize * d >= 0
    BY <1>1
  <2>2. /\ BlockSize * (q + r) = BlockSize * q + BlockSize * r
        /\ BlockSize * (q - r) = BlockSize * q - BlockSize * r
        /\ BlockSize * (r - q) = BlockSize * r - BlockSize * q
        /\ BlockSize * r \in Int
    BY <1>1
  <2>3. ASSUME q <= r PROVE BlockSize * q <= BlockSize * r
    <3>1. r - q >= 0 /\ r - q \in Int
      BY <2>3
    <3>2. BlockSize * (r - q) >= 0
      BY <2>1, <3>1
    <3>3. QED  BY <1>3, <2>2, <3>2
  <2>4. QED  BY <2>2, <2>3
<1>8. QED  BY <1>2, <1>3, <1>4, <1>5, <1>6, <1>7

-----------------------------------------------------------------------------
(* The range of a read                                                       *)

\* The blocks of a read start at or before it, hold it, and fit in a buffer.
LEMMA AlignedRead ==
    ASSUME NEW rd \in Reads
    PROVE  /\ rd.file \in Files /\ rd.Offset \in Nat /\ rd.Size \in Nat \ {0}
           /\ AlignedOffset(rd) \in Nat /\ AlignedOffset(rd) % BlockSize = 0
           /\ AlignedSize(rd) \in Nat \ {0} /\ AlignedSize(rd) % BlockSize = 0
           /\ AlignedSize(rd) \div BlockSize \in Nat \ {0}
           /\ AlignedSize(rd) = BlockSize * (AlignedSize(rd) \div BlockSize)
           /\ FixupOf(rd) \in 0 .. BlockSize - 1
           /\ FixupOf(rd) = rd.Offset - AlignedOffset(rd)
           /\ FixupOf(rd) + rd.Size <= AlignedSize(rd)
           /\ AlignedSize(rd) <= ActualBufferSize
<1>1. /\ rd.file \in Files /\ rd.Offset \in Nat /\ rd.Size \in Nat \ {0}
      /\ BufferSize \in Nat /\ rd.Size <= BufferSize /\ BlockSize \in Nat \ {0}
  BY ReadsFit, NvmeConstants, ExtentConstants
<1> DEFINE o == AlignDown(rd.Offset, BlockSize)
           e == Align(rd.Offset + rd.Size, BlockSize)
           a == Align(BufferSize + 2 * BlockSize, BlockSize)
<1>2. /\ o \in Nat /\ o % BlockSize = 0 /\ o <= rd.Offset /\ rd.Offset < o + BlockSize
  BY <1>1, AlignProperties
<1>3. /\ e \in Nat /\ e % BlockSize = 0 /\ rd.Offset + rd.Size <= e
      /\ e < rd.Offset + rd.Size + BlockSize
  <2>1. rd.Offset + rd.Size \in Nat
    BY <1>1
  <2>2. QED  BY <2>1, AlignProperties
<1>4. a \in Nat /\ BufferSize + 2 * BlockSize <= a
  <2>1. BufferSize + 2 * BlockSize \in Nat
    BY <1>1
  <2>2. QED  BY <2>1, AlignProperties
<1>5. AlignedOffset(rd) = o /\ AlignedSize(rd) = e - o /\ FixupOf(rd) = rd.Offset - o
  BY DEF AlignedOffset, AlignedSize, FixupOf
<1>6. ActualBufferSize = a
  BY DEF ActualBufferSize
<1> HIDE DEF o, e, a
<1>7. e - o \in Nat \ {0} /\ rd.Offset - o + rd.Size <= e - o /\ e - o <= a
  BY <1>1, <1>2, <1>3, <1>4
<1>8. rd.Offset - o \in 0 .. BlockSize - 1
  BY <1>1, <1>2
<1>9. (e - o) % BlockSize = 0
  BY <1>2, <1>3, WholeSums
<1>10. (e - o) \div BlockSize \in Nat \ {0} /\ e - o = BlockSize * ((e - o) \div BlockSize)
  <2>1. e - o \in Int /\ e - o > 0
    BY <1>7
  <2> DEFINE d == e - o
  <2>2. d \in Int /\ d > 0 /\ d % BlockSize = 0
    BY <1>9, <2>1
  <2> HIDE DEF d
  <2>3. d \div BlockSize \in Nat \ {0} /\ d = BlockSize * (d \div BlockSize)
    BY <2>2, Whole
  <2>4. QED  BY <2>3 DEF d
<1>11. QED  BY <1>1, <1>2, <1>5, <1>6, <1>7, <1>8, <1>9, <1>10

-----------------------------------------------------------------------------
(* Extents and the commands of a read                                        *)

\* An extent begins and ends on block boundaries, in the file and on the device.
LEMMA WholeExtents ==
    ASSUME NEW file, Layout(file), NEW i \in 1 .. Len(file)
    PROVE  /\ file[i].LogicalOffset % BlockSize = 0 /\ file[i].PhysicalOffset % BlockSize = 0
           /\ file[i].Length % BlockSize = 0 /\ ExtentEnd(file[i]) % BlockSize = 0
<1>1. DOMAIN file = 1 .. Len(file) /\ file[i].LogicalOffset \in Nat /\ file[i].Length \in Nat
  BY LayoutFacts
<1>2. /\ file[i].LogicalOffset % BlockSize = 0 /\ file[i].PhysicalOffset % BlockSize = 0
      /\ file[i].Length % BlockSize = 0
  BY <1>1 DEF Layout
<1>3. (file[i].LogicalOffset + file[i].Length) % BlockSize = 0
  BY <1>1, <1>2, WholeSums
<1>4. QED  BY <1>2, <1>3 DEF ExtentEnd

\* The start extent is the first that reaches behind the offset, if there is one.
LEMMA StartExtent ==
    ASSUME NEW file, Layout(file), NEW offset
    PROVE  LET k == FindStartExtent(file, offset)
           IN  /\ ~StartMissing(file, offset) =>
                    /\ k \in 1 .. Len(file) /\ Reaches(file[k], offset)
                    /\ \A j \in 1 .. k - 1 : ~Reaches(file[j], offset)
               /\ (\E i \in DOMAIN file : Reaches(file[i], offset))
                    => ~StartMissing(file, offset)
<1> DEFINE S == {i \in DOMAIN file : Reaches(file[i], offset)}
           k == FindStartExtent(file, offset)
<1>1. DOMAIN file = 1 .. Len(file) /\ Len(file) \in Nat
  BY LayoutFacts
<1>2. ASSUME S # {}
      PROVE  /\ k \in 1 .. Len(file) /\ Reaches(file[k], offset)
             /\ \A j \in 1 .. k - 1 : ~Reaches(file[j], offset)
             /\ ~StartMissing(file, offset)
  <2>1. S \subseteq Nat
    BY <1>1
  <2>2. PICK d \in S : \A e \in S : d <= e
    BY <1>2, <2>1, LeastIsOne
  <2>3. \A j \in 1 .. d - 1 : ~Reaches(file[j], offset)
    <3>1. d \in Nat /\ d <= Len(file)
      BY <1>1, <2>2
    <3>2. \A j \in 1 .. d - 1 : j \in DOMAIN file /\ ~(d <= j)
      BY <1>1, <3>1
    <3>3. QED  BY <2>2, <3>2
  <2>4. d \in DOMAIN file /\ Reaches(file[d], offset)
    BY <2>2
  <2>5. k = CHOOSE i \in DOMAIN file :
             Reaches(file[i], offset) /\ \A j \in 1 .. i - 1 : ~Reaches(file[j], offset)
    BY <2>4 DEF FindStartExtent
  <2> HIDE DEF k
  <2>6. /\ k \in DOMAIN file /\ Reaches(file[k], offset)
        /\ \A j \in 1 .. k - 1 : ~Reaches(file[j], offset)
    BY <2>3, <2>4, <2>5
  <2>7. ~StartMissing(file, offset)
    <3>1. k \in 1 .. Len(file)
      BY <1>1, <2>6
    <3>2. k # 0 /\ k # Len(file) + 1
      BY <1>1, <3>1
    <3>3. QED  BY <3>2 DEF StartMissing, k
  <2>8. QED  BY <1>1, <2>6, <2>7
<1>3. ASSUME S = {} PROVE StartMissing(file, offset)
  <2>1. ~\E i \in DOMAIN file : Reaches(file[i], offset)
    BY <1>3
  <2>2. k \in {0, Len(file) + 1}
    BY <2>1 DEF FindStartExtent
  <2>3. QED  BY <2>2 DEF StartMissing
<1> HIDE DEF k
<1>4. QED  BY <1>2, <1>3 DEF k

\* A part ends at the end of its extent, unless the read ends before, and has at
\* least one block.
LEMMA PartBlocks ==
    ASSUME NEW e, NEW first \in Int, NEW remaining \in Nat \ {0},
           ExtentEnd(e) \in Int, ExtentEnd(e) % BlockSize = 0, PartFrom(e, first) \in Int,
           PartFrom(e, first) % BlockSize = 0, PartFrom(e, first) < ExtentEnd(e)
    PROVE  LET num == NumLbs(e, first, remaining)
           IN  /\ num \in 1 .. remaining
               /\ BlockSize * num <= ExtentEnd(e) - PartFrom(e, first)
               /\ num # remaining => BlockSize * num = ExtentEnd(e) - PartFrom(e, first)
<1> DEFINE d == ExtentEnd(e) - PartFrom(e, first)
           a == d \div BlockSize
           num == NumLbs(e, first, remaining)
<1>1. d \in Int /\ d > 0 /\ d % BlockSize = 0
  <2>1. d \in Int /\ d > 0
    OBVIOUS
  <2>2. (ExtentEnd(e) - PartFrom(e, first)) % BlockSize = 0
    BY WholeSums
  <2>3. QED  BY <2>1, <2>2
<1>2. num = IF a < remaining THEN a ELSE remaining
  BY DEF NumLbs, BlocksFrom
<1> HIDE DEF d, num
<1>3. a \in Int /\ d = BlockSize * a /\ a >= 1
  BY <1>1, Whole
<1> HIDE DEF a
<1>4. num \in 1 .. remaining /\ num <= a /\ (num # remaining => num = a)
  BY <1>2, <1>3
<1>5. BlockSize * num <= BlockSize * a
  BY <1>3, <1>4, BlocksProduct
<1>6. QED  BY <1>3, <1>4, <1>5 DEF d, num

\* The byte of the partition that logical block StartLb begins with.
LEMMA PartBlock ==
    ASSUME NEW e, NEW first \in Int,
           e.LogicalOffset \in Int, e.LogicalOffset % BlockSize = 0,
           e.PhysicalOffset \in Int, e.PhysicalOffset % BlockSize = 0,
           PartFrom(e, first) \in Int, PartFrom(e, first) % BlockSize = 0
    PROVE  /\ StartLb(e, first) \in Int
           /\ BlockSize * StartLb(e, first) =
                PartFrom(e, first) - e.LogicalOffset + e.PhysicalOffset
                  + PartitionStart * SectorSize
<1> DEFINE x == PartFrom(e, first) - e.LogicalOffset + e.PhysicalOffset
           y == PartitionStart * SectorSize
           p == x \div BlockSize
           q == y \div BlockSize
<1>1. x \in Int /\ x % BlockSize = 0
  <2>1. (PartFrom(e, first) - e.LogicalOffset) % BlockSize = 0
    BY WholeSums
  <2>2. PartFrom(e, first) - e.LogicalOffset \in Int
    OBVIOUS
  <2>3. (PartFrom(e, first) - e.LogicalOffset + e.PhysicalOffset) % BlockSize = 0
    BY <2>1, <2>2, WholeSums
  <2>4. QED  BY <2>2, <2>3
<1>2. y \in Int /\ y % BlockSize = 0
  BY ExtentConstants, PartitionAligned
<1>3. StartLb(e, first) = p + q
  BY DEF StartLb, PartitionStartLBA
<1> HIDE DEF x, y
<1>4. p \in Int /\ q \in Int /\ x = BlockSize * p /\ y = BlockSize * q
  BY <1>1, <1>2, Whole
<1> HIDE DEF p, q
<1>5. BlockSize * (p + q) = x + y /\ p + q \in Int
  BY <1>4, BlocksProduct
<1>6. QED  BY <1>3, <1>5 DEF x, y

\* The extents are apart, so that at most one holds a byte.
LEMMA ByteInExtent ==
    ASSUME NEW file, Layout(file), NEW k \in 1 .. Len(file), NEW i \in Int,
           file[k].LogicalOffset <= i, i < ExtentEnd(file[k])
    PROVE  DeviceByte(file, i) =
             PartitionStart * SectorSize + file[k].PhysicalOffset + i - file[k].LogicalOffset
<1>1. DOMAIN file = 1 .. Len(file) /\ Len(file) \in Nat
  BY LayoutFacts
<1> DEFINE In(j) == i \in file[j].LogicalOffset .. ExtentEnd(file[j]) - 1
           c == CHOOSE j \in DOMAIN file : In(j)
<1>2. \A j \in 1 .. Len(file) : In(j) <=> file[j].LogicalOffset <= i /\ i < ExtentEnd(file[j])
  <2>1. TAKE j \in 1 .. Len(file)
  <2>2. file[j].LogicalOffset \in Nat /\ ExtentEnd(file[j]) \in Nat
    BY LayoutFacts
  <2>3. QED  BY <2>2
<1>3. k \in DOMAIN file /\ In(k)
  BY <1>1, <1>2
<1> HIDE DEF In
<1>4. c \in 1 .. Len(file) /\ In(c)
  BY <1>1, <1>3
<1> HIDE DEF c
<1>5. c = k
  <2>1. /\ file[c].LogicalOffset \in Nat /\ ExtentEnd(file[c]) \in Nat
        /\ file[k].LogicalOffset \in Nat /\ ExtentEnd(file[k]) \in Nat
    BY <1>4, LayoutFacts
  <2>2. c < k => ExtentEnd(file[c]) <= file[k].LogicalOffset
    BY <1>4, LayoutFacts
  <2>3. k < c => ExtentEnd(file[k]) <= file[c].LogicalOffset
    BY <1>4, LayoutFacts
  <2>4. file[c].LogicalOffset <= i /\ i < ExtentEnd(file[c])
    BY <1>2, <1>4
  <2>5. ~(c < k) /\ ~(k < c)
    BY <2>1, <2>2, <2>3, <2>4
  <2>6. QED  BY <1>1, <1>4, <2>5
<1>6. \E j \in DOMAIN file : i \in file[j].LogicalOffset .. ExtentEnd(file[j]) - 1
  BY <1>3 DEF In
<1>7. DeviceByte(file, i) =
        PartitionStart * SectorSize + file[c].PhysicalOffset + i - file[c].LogicalOffset
  BY <1>6 DEF DeviceByte, c, In
<1>8. QED  BY <1>5, <1>7

\* A byte that is not in a hole is in an extent.
LEMMA MappedByte ==
    ASSUME NEW file, Layout(file), NEW i \in Int, DeviceByte(file, i) # -1
    PROVE  \E k \in 1 .. Len(file) : file[k].LogicalOffset <= i /\ i < ExtentEnd(file[k])
<1>1. DOMAIN file = 1 .. Len(file)
  BY LayoutFacts
<1>2. PICK k \in DOMAIN file : i \in file[k].LogicalOffset .. ExtentEnd(file[k]) - 1
  BY DEF DeviceByte
<1>3. file[k].LogicalOffset \in Nat /\ ExtentEnd(file[k]) \in Nat
  BY <1>1, LayoutFacts
<1>4. file[k].LogicalOffset <= i /\ i < ExtentEnd(file[k])
  BY <1>2, <1>3
<1>5. QED  BY <1>1, <1>4

\* Where one extent ends and the next byte is mapped, the next extent begins.
LEMMA NextExtent ==
    ASSUME NEW file, Layout(file), NEW k \in 1 .. Len(file),
           DeviceByte(file, ExtentEnd(file[k])) # -1
    PROVE  k + 1 \in 1 .. Len(file) /\ file[k + 1].LogicalOffset = ExtentEnd(file[k])
<1> DEFINE at == ExtentEnd(file[k])
<1>1. Len(file) \in Nat /\ at \in Nat
  BY LayoutFacts
<1>2. PICK j \in 1 .. Len(file) : file[j].LogicalOffset <= at /\ at < ExtentEnd(file[j])
  BY <1>1, MappedByte
<1>3. /\ file[j].LogicalOffset \in Nat /\ ExtentEnd(file[j]) \in Nat
  BY LayoutFacts
<1>4. j > k
  <2>1. j < k => ExtentEnd(file[j]) < at
    BY LayoutFacts
  <2>2. ~(j < k) /\ j # k
    BY <1>1, <1>2, <1>3, <2>1
  <2>3. QED  BY <2>2
<1>5. k + 1 \in 1 .. Len(file)
  BY <1>1, <1>4
<1>6. at <= file[k + 1].LogicalOffset
  <2>1. k < k + 1
    OBVIOUS
  <2>2. QED  BY <1>5, <2>1, LayoutFacts
<1>7. file[k + 1].LogicalOffset \in Nat /\ file[k + 1].LogicalOffset < ExtentEnd(file[k + 1])
      /\ ExtentEnd(file[k + 1]) \in Nat
  BY <1>5, LayoutFacts
<1>8. file[k + 1].LogicalOffset <= at
  <2>1. CASE j = k + 1
    BY <1>2, <2>1
  <2>2. CASE j # k + 1
    <3>1. k + 1 < j
      BY <1>4, <2>2
    <3>2. ExtentEnd(file[k + 1]) <= file[j].LogicalOffset
      BY <1>5, <3>1, LayoutFacts
    <3>3. QED  BY <1>1, <1>2, <1>3, <1>7, <3>2
  <2>3. QED  BY <2>1, <2>2
<1>9. QED  BY <1>1, <1>5, <1>6, <1>7, <1>8

-----------------------------------------------------------------------------
(* The inductive invariant                                                   *)

Entries == [trk : Trackers, fd : Slots, buf : Buffers, addr : Int,
            num : Nat \ {0}, lb : Int]
Commands == [trk : Trackers, dev : Devices, buf : Buffers, addr : Int,
             num : Nat \ {0}, lb : Int]
Cqes == [trk : Trackers, ok : BOOLEAN]

\* The types of what TypeOK leaves out.
RingTypes ==
    /\ sq \in Seq(Entries)
    /\ inflight \subseteq Commands /\ IsFiniteSet(inflight)
    /\ finished \in Seq(Cqes) /\ cq \in Seq(Cqes)
    /\ content = [b \in Buffers |-> content[b]]

\* The read a command belongs to.
Owner(p) == tracker[p.trk].req
Tracked(r) == \E t \in Trackers : tracker[t].req = r

\* Where the service thread has an accepted request in its hands.
InHand == pc \in {"open", "alloc", "issue", "split", "fatal"}

ControlOK ==
    /\ pc \in {"start", "next", "process", "waitcqe", "wait", "submit"} \/ InHand
    /\ from \in {"request", "flush", "wait"}
    /\ InHand \/ pc = "submit" => NextRequest \in Requests
    /\ InHand => status[NextRequest] = "accepted"
    /\ pc \in {"open", "alloc"} => AcquiredBuffer \in Buffers /\ buffer[NextRequest] = None
    /\ pc \in {"issue", "split"} => buffer[NextRequest] \in Buffers
    /\ pc \in {"open", "alloc", "issue"} => ~Tracked(NextRequest)
    /\ pc = "split" => /\ split \in [trk : Trackers, start : Nat, extent : Nat,
                                     ptr : Int, remaining : Nat \ {0}]
                       /\ tracker[split.trk].req = NextRequest

\* A request with the service reads an open container, and one that is neither
\* idle nor queued may have a buffer, of its own.
RequestsOK ==
    /\ \A r \in Requests :
         /\ status[r] # "idle" => read[r] \in Reads
         /\ status[r] \in {"queued", "accepted"} => read[r].file \in containers
         /\ status[r] \in {"idle", "queued"} => buffer[r] = None
    /\ \A f \in containers : ~Contains(FilesToUnregister, f)

BuffersOK ==
    /\ \A r, q \in Requests : buffer[r] = buffer[q] /\ buffer[r] # None => r = q
    /\ \A r \in Requests : buffer[r] = AcquiredBuffer => buffer[r] = None

\* The container of a request that got past RegisterNvmeFile stays registered.
RegisteredOK ==
    \A r \in Requests :
       Tracked(r) \/ (pc \in {"alloc", "issue", "split"} /\ r = NextRequest) =>
         read[r].file \in RegisteredContainers[DeviceOf[read[r].file]]

SlotsOK ==
    /\ \A i, j \in DOMAIN FreeRegisteredFiles :
          FreeRegisteredFiles[i] = FreeRegisteredFiles[j] => i = j
    /\ \A s \in ToSet(sq) : s.fd = FixedFd[DeviceOf[read[Owner(s)].file]]
    /\ \A p \in inflight : p.dev = DeviceOf[read[Owner(p)].file]

\* A tracker that names a request has commands on their way, or is about to get
\* the first; any other is as new.
TrackersOK ==
    /\ \A t \in Trackers :
         IF tracker[t].req = None THEN tracker[t].RemainingRequests = 0
         ELSE /\ status[tracker[t].req] = "accepted" /\ buffer[tracker[t].req] \in Buffers
              /\ ~Contains(NvmeRequestPool, t)
              /\ t \in InUse \/ (pc = "split" /\ t = split.trk)
    /\ \A t, u \in Trackers :
         tracker[t].req = tracker[u].req /\ tracker[t].req # None => t = u
    /\ \A i, j \in DOMAIN NvmeRequestPool :
         NvmeRequestPool[i] = NvmeRequestPool[j] => i = j

CountsOK ==
    /\ NumPendingCompletions = Len(sq) + Cardinality(inflight) + Len(finished) + Len(cq)
    /\ \A t \in Trackers :
         tracker[t].RemainingRequests =
              Cardinality({i \in DOMAIN sq : sq[i].trk = t})
              + Cardinality({p \in inflight : p.trk = t})
              + Cardinality(EventsOf(t, finished \o cq))

\* The commands of one read move different parts of its buffer.
Apart(p, q) ==
    p.trk = q.trk => \/ p.addr + BlockSize * p.num <= q.addr
                     \/ q.addr + BlockSize * q.num <= p.addr
PartsApart ==
    /\ \A i, j \in DOMAIN sq : i # j => Apart(sq[i], sq[j])
    /\ \A p, q \in inflight : p # q => Apart(p, q)
    /\ \A s \in ToSet(sq), p \in inflight : Apart(s, p)
    /\ \A p \in Parts :
         /\ p.buf = buffer[Owner(p)]
         /\ pc = "split" /\ p.trk = split.trk => p.addr + BlockSize * p.num <= split.ptr

\* Where the loop over extents is in the file.
SplitOK ==
    pc = "split" =>
      LET rd == read[NextRequest]
          file == FileExtents[rd.file]
      IN  /\ split.start \in 1 .. split.extent /\ split.extent \in DOMAIN file
          /\ Reaches(file[split.start], AlignedOffset(rd))
          /\ split.ptr = moved[buffer[NextRequest]] + AlignedSize(rd)
                           - BlockSize * split.remaining
          /\ split.extent = split.start => split.ptr = moved[buffer[NextRequest]]
          /\ split.extent # split.start => split.ptr > moved[buffer[NextRequest]]
          /\ WhollyMapped(file, rd) =>
               LET at == AlignedOffset(rd) + AlignedSize(rd) - BlockSize * split.remaining
               IN  IF split.extent = split.start
                     THEN file[split.extent].LogicalOffset <= at
                     ELSE file[split.extent].LogicalOffset = at

IInv ==
    /\ TypeOK /\ RingTypes /\ ControlOK /\ RequestsOK /\ BuffersOK /\ RegisteredOK
    /\ DeviceTableConsistent /\ SlotsOK /\ TrackersOK /\ CountsOK /\ PartsApart
    /\ SplitOK /\ FatalOnlyIfUnmapped

-----------------------------------------------------------------------------
(* Counting the commands of a tracker                                        *)

-----------------------------------------------------------------------------
(* Counting commands                                                         *)

\* What stands for tracker `t` in a queue.
ByTrk(t) == {e \in Entries \cup Cqes : e.trk = t}
InFlight(t) == {p \in inflight : p.trk = t}

\* The places of a queue that stand for a tracker, counted as occurrences.
LEMMA CountIsOccurrences ==
    ASSUME NEW t, NEW s, s \in Seq(Entries) \/ s \in Seq(Cqes)
    PROVE  /\ Cardinality({i \in DOMAIN s : s[i].trk = t}) = Occurrences(s, ByTrk(t))
           /\ IsFiniteSet({i \in DOMAIN s : s[i].trk = t})
           /\ Occurrences(s, ByTrk(t)) \in Nat
           /\ Occurrences(s, ByTrk(t)) = 0 <=> \A i \in DOMAIN s : s[i].trk # t
<1>1. \A i \in DOMAIN s : s[i] \in Entries \cup Cqes
  <2>1. CASE s \in Seq(Entries)
    BY <2>1, ElementOfSeq, LenProperties
  <2>2. CASE s \in Seq(Cqes)
    BY <2>2, ElementOfSeq, LenProperties
  <2>3. QED  BY <2>1, <2>2
<1>2. \A i \in DOMAIN s : s[i] \in ByTrk(t) <=> s[i].trk = t
  BY <1>1 DEF ByTrk
<1>3. {i \in DOMAIN s : s[i].trk = t} = {i \in DOMAIN s : s[i] \in ByTrk(t)}
  BY <1>2
<1>4. /\ IsFiniteSet({i \in DOMAIN s : s[i] \in ByTrk(t)}) /\ Occurrences(s, ByTrk(t)) \in Nat
      /\ Occurrences(s, ByTrk(t)) = 0 <=> \A i \in DOMAIN s : s[i] \notin ByTrk(t)
  <2>1. CASE s \in Seq(Entries)
    BY <2>1, OccurrencesType
  <2>2. CASE s \in Seq(Cqes)
    BY <2>2, OccurrencesType
  <2>3. QED  BY <2>1, <2>2
<1>5. QED  BY <1>2, <1>3, <1>4 DEF Occurrences

\* The same of completions, and there are some exactly if the count is not 0.
LEMMA EventsIsOccurrences ==
    ASSUME NEW t, NEW s \in Seq(Cqes)
    PROVE  /\ Cardinality(EventsOf(t, s)) = Occurrences(s, ByTrk(t))
           /\ IsFiniteSet(EventsOf(t, s)) /\ Occurrences(s, ByTrk(t)) \in Nat
           /\ EventsOf(t, s) = {} <=> Occurrences(s, ByTrk(t)) = 0
  BY CountIsOccurrences DEF EventsOf

Outstanding(t) ==
    Occurrences(sq, ByTrk(t)) + Cardinality(InFlight(t))
      + Occurrences(finished, ByTrk(t)) + Occurrences(cq, ByTrk(t))

\* Outstanding is the sum TrackersCount has, and 0 for trackers not in use.
LEMMA OutstandingParts ==
    ASSUME RingTypes, NEW t
    PROVE  /\ Cardinality({i \in DOMAIN sq : sq[i].trk = t})
                + Cardinality({p \in inflight : p.trk = t})
                + Cardinality(EventsOf(t, finished \o cq)) = Outstanding(t)
           /\ Occurrences(sq, ByTrk(t)) \in Nat /\ Cardinality(InFlight(t)) \in Nat
           /\ Occurrences(finished, ByTrk(t)) \in Nat /\ Occurrences(cq, ByTrk(t)) \in Nat
           /\ Outstanding(t) \in Nat /\ (Outstanding(t) = 0 <=> t \notin InUse)
           /\ IsFiniteSet(InFlight(t))
<1>1. /\ sq \in Seq(Entries) /\ finished \in Seq(Cqes) /\ cq \in Seq(Cqes)
      /\ IsFiniteSet(inflight)
  BY DEF RingTypes
<1>2. /\ Cardinality({i \in DOMAIN sq : sq[i].trk = t}) = Occurrences(sq, ByTrk(t))
      /\ Occurrences(sq, ByTrk(t)) \in Nat
      /\ Occurrences(sq, ByTrk(t)) = 0 <=> \A i \in DOMAIN sq : sq[i].trk # t
  BY <1>1, CountIsOccurrences
<1>3. /\ Occurrences(cq, ByTrk(t)) \in Nat
      /\ Occurrences(cq, ByTrk(t)) = 0 <=> \A i \in DOMAIN cq : cq[i].trk # t
      /\ Occurrences(finished, ByTrk(t)) \in Nat
      /\ Occurrences(finished, ByTrk(t)) = 0 <=> \A i \in DOMAIN finished : finished[i].trk # t
  BY <1>1, CountIsOccurrences
<1>4. /\ IsFiniteSet(InFlight(t)) /\ Cardinality(InFlight(t)) \in Nat
      /\ Cardinality(InFlight(t)) = 0 <=> \A p \in inflight : p.trk # t
  <2>1. InFlight(t) \in SUBSET inflight
    BY DEF InFlight
  <2>2. IsFiniteSet(InFlight(t))
    BY <1>1, <2>1, FS_Subset
  <2>3. Cardinality(InFlight(t)) = 0 <=> InFlight(t) = {}
    BY <2>2, FS_EmptySet
  <2>4. QED  BY <2>2, <2>3, FS_CardinalityType DEF InFlight
<1>5. Cardinality(EventsOf(t, finished \o cq)) =
        Occurrences(finished, ByTrk(t)) + Occurrences(cq, ByTrk(t))
  <2>1. finished \o cq \in Seq(Cqes)
    BY <1>1, ConcatProperties
  <2>2. Cardinality(EventsOf(t, finished \o cq)) = Occurrences(finished \o cq, ByTrk(t))
    BY <2>1, EventsIsOccurrences
  <2>3. Occurrences(finished \o cq, ByTrk(t)) =
          Occurrences(finished, ByTrk(t)) + Occurrences(cq, ByTrk(t))
    BY <1>1, OccurrencesConcat
  <2>4. QED  BY <2>2, <2>3
<1>6. t \notin InUse <=> /\ \A i \in DOMAIN sq : sq[i].trk # t
                         /\ \A p \in inflight : p.trk # t
                         /\ \A i \in DOMAIN cq : cq[i].trk # t
                         /\ \A i \in DOMAIN finished : finished[i].trk # t
  <2>1. ToSet(cq \o finished) = ToSet(cq) \cup ToSet(finished)
    <3>1. /\ DOMAIN cq = 1 .. Len(cq) /\ DOMAIN finished = 1 .. Len(finished)
          /\ Len(cq) \in Nat /\ Len(finished) \in Nat
      BY <1>1, LenProperties
    <3>2. /\ Len(cq \o finished) = Len(cq) + Len(finished)
          /\ \A i \in 1 .. Len(cq) + Len(finished) : (cq \o finished)[i] =
               IF i <= Len(cq) THEN cq[i] ELSE finished[i - Len(cq)]
          /\ cq \o finished \in Seq(Cqes)
      BY <1>1, ConcatProperties
    <3> DEFINE s == cq \o finished
    <3>3. DOMAIN s = 1 .. Len(cq) + Len(finished)
      BY <3>2, LenProperties
    <3>4. \A i \in DOMAIN cq : i \in DOMAIN s /\ s[i] = cq[i]
      BY <3>1, <3>2, <3>3
    <3>5. \A i \in DOMAIN finished : i + Len(cq) \in DOMAIN s /\ s[i + Len(cq)] = finished[i]
      BY <3>1, <3>2, <3>3
    <3>6. \A i \in DOMAIN s : (i \in DOMAIN cq /\ s[i] = cq[i])
              \/ (i - Len(cq) \in DOMAIN finished /\ s[i] = finished[i - Len(cq)])
      BY <3>1, <3>2, <3>3
    <3> HIDE DEF s
    <3>7. ToSet(s) = ToSet(cq) \cup ToSet(finished)
      <4>1. \A e \in ToSet(s) : e \in ToSet(cq) \cup ToSet(finished)
        BY <3>6 DEF ToSet
      <4>2. \A e \in ToSet(cq) : e \in ToSet(s)
        BY <3>4 DEF ToSet
      <4>3. \A e \in ToSet(finished) : e \in ToSet(s)
        BY <3>5 DEF ToSet
      <4>4. QED  BY <4>1, <4>2, <4>3
    <3>8. QED  BY <3>7 DEF s
  <2>2. t \notin InUse <=> /\ \A e \in ToSet(sq) : e.trk # t
                           /\ \A p \in inflight : p.trk # t
                           /\ \A e \in ToSet(cq) : e.trk # t
                           /\ \A e \in ToSet(finished) : e.trk # t
    BY <2>1, Zenon DEF InUse
  <2>3. QED  BY <2>2, Zenon DEF ToSet
<1>7. /\ Cardinality({i \in DOMAIN sq : sq[i].trk = t})
           + Cardinality({p \in inflight : p.trk = t})
           + Cardinality(EventsOf(t, finished \o cq)) = Outstanding(t)
  <2>1. InFlight(t) = {p \in inflight : p.trk = t}
    BY DEF InFlight
  <2>2. QED  BY <1>2, <1>3, <1>4, <1>5, <2>1 DEF Outstanding
<1>8. Outstanding(t) \in Nat /\ (Outstanding(t) = 0 <=>
          /\ Occurrences(sq, ByTrk(t)) = 0 /\ Cardinality(InFlight(t)) = 0
          /\ Occurrences(finished, ByTrk(t)) = 0 /\ Occurrences(cq, ByTrk(t)) = 0)
  BY <1>2, <1>3, <1>4 DEF Outstanding
<1>9. Outstanding(t) = 0 <=> t \notin InUse
  BY <1>2, <1>3, <1>4, <1>6, <1>8
<1>10. QED  BY <1>2, <1>3, <1>4, <1>7, <1>8, <1>9

\* CountsOK in these terms.
LEMMA CountsForm ==
    ASSUME RingTypes
    PROVE  CountsOK <=>
             /\ NumPendingCompletions = Len(sq) + Cardinality(inflight) + Len(finished) + Len(cq)
             /\ \A t \in Trackers : tracker[t].RemainingRequests = Outstanding(t)
  BY OutstandingParts DEF CountsOK

\* The same of the next state.
LEMMA OutstandingOK ==
    RingTypes => \A t : Outstanding(t) \in Nat /\ (Outstanding(t) = 0 <=> t \notin InUse)
  BY OutstandingParts

\* The same of the next state.
LEMMA OutstandingNext ==
    RingTypes' => \A t : Outstanding(t)' \in Nat /\ (Outstanding(t)' = 0 <=> t \notin InUse')
<1>1. (RingTypes => \A t : Outstanding(t) \in Nat /\ (Outstanding(t) = 0 <=> t \notin InUse))'
  BY OutstandingOK, PTL
<1>2. QED  BY <1>1

\* CountsForm as an implication.
LEMMA CountsAre ==
    RingTypes => (CountsOK <=>
        /\ NumPendingCompletions = Len(sq) + Cardinality(inflight) + Len(finished) + Len(cq)
        /\ \A t \in Trackers : tracker[t].RemainingRequests = Outstanding(t))
  BY CountsForm

\* The same of the next state.
LEMMA CountsNext ==
    RingTypes' => (CountsOK' <=>
        /\ NumPendingCompletions' =
              Len(sq') + Cardinality(inflight') + Len(finished') + Len(cq')
        /\ \A t \in Trackers : tracker'[t].RemainingRequests = Outstanding(t)')
<1>1. (RingTypes => (CountsOK <=>
        /\ NumPendingCompletions = Len(sq) + Cardinality(inflight) + Len(finished) + Len(cq)
        /\ \A t \in Trackers : tracker[t].RemainingRequests = Outstanding(t)))'
  BY CountsAre, PTL
<1>2. QED  BY <1>1

\* A tracker with commands names the accepted request they belong to.
LEMMA InUseIsTracked ==
    ASSUME TypeOK, RingTypes, TrackersOK, CountsOK, NEW t \in InUse
    PROVE  /\ t \in Trackers /\ tracker[t].req \in Requests
           /\ status[tracker[t].req] = "accepted" /\ buffer[tracker[t].req] \in Buffers
<1>1. Outstanding(t) # 0 /\ Outstanding(t) \in Nat
  BY OutstandingParts
<1>2. t \in Trackers
  <2>1. sq \in Seq(Entries) /\ finished \in Seq(Cqes) /\ cq \in Seq(Cqes)
        /\ inflight \subseteq Commands
    BY DEF RingTypes
  <2>2. \A s \in ToSet(sq) : s.trk \in Trackers
    <3>1. \A s \in ToSet(sq) : s \in Entries
      BY <2>1, ElementOfSeq, LenProperties DEF ToSet
    <3>2. QED  BY <3>1 DEF Entries
  <2>3. \A s \in ToSet(cq \o finished) : s.trk \in Trackers
    <3>1. cq \o finished \in Seq(Cqes)
      BY <2>1, ConcatProperties
    <3>2. \A s \in ToSet(cq \o finished) : s \in Cqes
      BY <3>1, ElementOfSeq, LenProperties DEF ToSet
    <3>3. QED  BY <3>2 DEF Cqes
  <2>4. \A p \in inflight : p.trk \in Trackers
    BY <2>1 DEF Commands
  <2>5. QED  BY <2>2, <2>3, <2>4, Zenon DEF InUse
<1>3. tracker[t].RemainingRequests = Outstanding(t)
  BY <1>2, CountsForm
<1>4. tracker[t].req # None
  BY <1>1, <1>2, <1>3 DEF TrackersOK
<1>5. tracker[t].req \in Requests \cup {None}
  BY <1>2 DEF TypeOK
<1>6. QED  BY <1>2, <1>4, <1>5 DEF TrackersOK

-----------------------------------------------------------------------------
(* What a step leaves alone                                                  *)

\* A container is registered with the extents of its file.
LEMMA ExtentsOfFile ==
    ASSUME NEW f \in Files
    PROVE  Extents(f) = FileExtents[f] /\ Layout(FileExtents[f])
  BY ExtentsRead, FileLayouts DEF Extents

\* There is a tracker that is not in use, as every other one in use has a
\* request of its own and the next request has none.
LEMMA TrackerIsFree ==
    ASSUME TypeOK, RingTypes, ControlOK, TrackersOK, CountsOK, pc = "issue"
    PROVE  /\ Tracker \in Trackers /\ Tracker \notin InUse /\ tracker[Tracker].req = None
           /\ ~Contains(PoolLeft, Tracker)
<1>1. /\ tracker \in [Trackers -> [req : Requests \cup {None}, RemainingRequests : Int]]
      /\ NvmeRequestPool \in Seq(Trackers)
  BY DEF TypeOK
<1>2. NextRequest \in Requests /\ ~Tracked(NextRequest)
  BY DEF ControlOK, InHand
<1>3. \A t \in InUse : t \in Trackers /\ tracker[t].req \in Requests
  BY InUseIsTracked
<1>4. CASE NvmeRequestPool # <<>>
  <2> DEFINE s == NvmeRequestPool
             n == Len(s)
  <2>1. /\ Front(s) \in Seq(Trackers) /\ Len(Front(s)) = n - 1
        /\ \A j \in 1 .. n - 1 : Front(s)[j] = s[j]
        /\ Last(s) \in Trackers /\ n \in 1 .. n
    BY <1>1, <1>4, FrontLastProperties
  <2>2. Tracker = Last(s) /\ PoolLeft = Front(s) /\ Last(s) = s[n]
    BY <1>4 DEF Tracker, PoolLeft, Last
  <2>3. \A i, j \in DOMAIN s : s[i] = s[j] => i = j
    BY DEF TrackersOK
  <2> HIDE DEF s
  <2>4. DOMAIN s = 1 .. n /\ n \in Nat
    BY <1>1, LenProperties DEF s
  <2>5. Contains(s, Tracker)
    BY <2>1, <2>2 DEF Contains
  <2>6. tracker[Tracker].req = None
    BY <2>1, <2>2, <2>5 DEF TrackersOK, s
  <2>7. Tracker \notin InUse
    BY <1>3, <2>6, NvmeConstants
  <2>8. ~Contains(PoolLeft, Tracker)
    <3>1. ASSUME NEW j \in 1 .. n - 1, s[j] = s[n] PROVE FALSE
      <4>1. j \in DOMAIN s /\ n \in DOMAIN s /\ j # n
        BY <2>1, <2>4, <3>1
      <4>2. QED  BY <2>3, <3>1, <4>1
    <3>2. QED  BY <2>1, <2>2, <3>1 DEF Contains
  <2>9. QED  BY <2>1, <2>2, <2>6, <2>7, <2>8
<1>5. CASE NvmeRequestPool = <<>>
  <2>1. \E t \in Trackers : t \notin InUse
    <3>1. SUFFICES ASSUME \A t \in Trackers : t \in InUse PROVE FALSE
      OBVIOUS
    <3> DEFINE T == Requests \ {NextRequest}
               g == [t \in Trackers |-> tracker[t].req]
    <3>2. \A t \in Trackers : tracker[t].req \in T
      BY <1>2, <1>3, <3>1 DEF Tracked
    <3>3. \A t, u \in Trackers : tracker[t].req = tracker[u].req => t = u
      BY <1>3, <3>1, NvmeConstants DEF TrackersOK
    <3>4. g \in Injection(Trackers, T)
      <4>1. g \in [Trackers -> T]
        BY <3>2
      <4>2. \A t, u \in Trackers : g[t] = g[u] => t = u
        BY <3>3
      <4>3. QED  BY <4>1, <4>2 DEF Injection, IsInjective
    <3>5. IsFiniteSet(Requests)
      BY TrackersSuffice
    <3>6. IsFiniteSet(T) /\ Cardinality(T) = Cardinality(Requests) - 1
      BY <1>2, <3>5, FS_RemoveElement
    <3>7. IsFiniteSet(Trackers) /\ Cardinality(Trackers) <= Cardinality(T)
      BY <3>4, <3>6, FS_Injection
    <3>8. Cardinality(Requests) <= Cardinality(Trackers)
      BY <3>7, TrackersSuffice
    <3>9. Cardinality(Requests) \in Nat /\ Cardinality(Trackers) \in Nat
      BY <3>5, <3>7, FS_CardinalityType
    <3>10. QED  BY <3>6, <3>7, <3>8, <3>9
  <2>2. Tracker = CHOOSE t \in Trackers : t \notin InUse
    BY <1>5 DEF Tracker
  <2>3. Tracker \in Trackers /\ Tracker \notin InUse
    BY <2>1, <2>2
  <2>4. tracker[Tracker].req = None
    BY <2>3 DEF TrackersOK
  <2>5. ~Contains(PoolLeft, Tracker)
    BY <1>5 DEF PoolLeft, Contains
  <2>6. QED  BY <2>3, <2>4, <2>5
<1>6. QED  BY <1>4, <1>5

-----------------------------------------------------------------------------
(* What does not depend on the variables that a step leaves alone            *)

\* A step that leaves the rings alone keeps what is counted in them.
LEMMA RingSame ==
    ASSUME UNCHANGED <<sq, inflight, finished, cq>>
    PROVE  /\ InUse' = InUse /\ Parts' = Parts
           /\ \A t : Outstanding(t)' = Outstanding(t)
  BY DEF InUse, Parts, Outstanding, InFlight

\* It keeps their types.
LEMMA RingTypesSame ==
    ASSUME RingTypes, UNCHANGED <<sq, inflight, finished, cq>>,
           content' = [b \in Buffers |-> content'[b]]
    PROVE  RingTypes'
  BY DEF RingTypes

\* A step that leaves trackers, and the requests they name, alone keeps TrackersOK.
LEMMA TrackersSame ==
    ASSUME TypeOK, TrackersOK, UNCHANGED <<NvmeRequestPool, tracker>>,
           InUse \subseteq InUse', pc = "split" => UNCHANGED <<pc, split>>,
           \A r \in Requests : status[r] = "accepted" /\ Tracked(r) =>
              status'[r] = "accepted" /\ buffer'[r] = buffer[r]
    PROVE  TrackersOK'
  BY DEF TrackersOK, TypeOK, Tracked

\* One that leaves trackers and rings alone keeps CountsOK,
LEMMA CountsSame ==
    ASSUME RingTypes, RingTypes', CountsOK,
           UNCHANGED <<tracker, NumPendingCompletions, sq, inflight, finished, cq>>
    PROVE  CountsOK'
  BY CountsForm, RingSame DEF CountsOK, EventsOf

\* one that leaves the commands and their owners alone keeps PartsApart,
LEMMA PartsSame ==
    ASSUME TypeOK, RingTypes, TrackersOK, CountsOK, PartsApart,
           UNCHANGED <<sq, inflight>>, pc' = "split" => UNCHANGED <<pc, split>>,
           \A t \in InUse : tracker'[t].req = tracker[t].req
                            /\ buffer'[tracker[t].req] = buffer[tracker[t].req]
    PROVE  PartsApart'
<1>1. \A p \in Parts : p.trk \in InUse
  BY DEF Parts, InUse
<1>2. Parts' = Parts
  BY DEF Parts
<1>3. \A p \in Parts : Owner(p)' = Owner(p) /\ buffer'[Owner(p)] = buffer[Owner(p)]
  BY <1>1 DEF Owner
<1>4. \A p \in Parts : p.buf = buffer'[Owner(p)'] /\ (pc' = "split" /\ p.trk = split'.trk =>
                          p.addr + BlockSize * p.num <= split'.ptr)
  BY <1>3 DEF PartsApart
<1>5. QED  BY <1>2, <1>4 DEF PartsApart, Apart

\* one that does not touch the read in hand keeps SplitOK,
LEMMA SplitSame ==
    ASSUME SplitOK, pc' = "split" => UNCHANGED <<pc, split, NextRequest, read>>
                        /\ buffer'[NextRequest] = buffer[NextRequest]
                        /\ moved'[buffer[NextRequest]] = moved[buffer[NextRequest]]
    PROVE  SplitOK'
  BY DEF SplitOK

\* and one that does not end the process keeps FatalOnlyIfUnmapped.
LEMMA FatalSame ==
    ASSUME FatalOnlyIfUnmapped,
           pc' = "fatal" => UNCHANGED <<pc, NextRequest>> /\ read'[NextRequest] = read[NextRequest]
    PROVE  FatalOnlyIfUnmapped'
  BY DEF FatalOnlyIfUnmapped

-----------------------------------------------------------------------------
(* Submission                                                                *)

\* The command that the kernel makes of an entry.
Command(s) == [trk |-> s.trk, dev |-> ktable[s.fd], buf |-> s.buf,
               addr |-> s.addr, num |-> s.num, lb |-> s.lb]

\* What the entries and commands are made of.
LEMMA QueueElements ==
    ASSUME RingTypes
    PROVE  /\ ToSet(sq) \subseteq Entries /\ Parts \subseteq Entries \cup Commands
           /\ DOMAIN sq = 1 .. Len(sq) /\ Len(sq) \in Nat
           /\ \A i \in DOMAIN sq : sq[i] \in Entries /\ sq[i] \in ToSet(sq)
           /\ \A p \in Parts : /\ p.trk \in InUse /\ p.trk \in Trackers /\ p.addr \in Int
                               /\ p.num \in Nat \ {0} /\ p.lb \in Int /\ p.buf \in Buffers
<1>1. sq \in Seq(Entries) /\ inflight \subseteq Commands
  BY DEF RingTypes
<1>2. DOMAIN sq = 1 .. Len(sq) /\ Len(sq) \in Nat
  BY <1>1, LenProperties
<1>3. \A i \in DOMAIN sq : sq[i] \in Entries
  BY <1>1, <1>2, ElementOfSeq
<1>4. ToSet(sq) \subseteq Entries /\ \A i \in DOMAIN sq : sq[i] \in ToSet(sq)
  BY <1>3 DEF ToSet
<1>5. Parts \subseteq Entries \cup Commands
  BY <1>1, <1>4 DEF Parts
<1>6. \A p \in Parts : p.trk \in InUse
  BY DEF Parts, InUse
<1>7. \A p \in Entries : p.trk \in Trackers /\ p.addr \in Int
                         /\ p.num \in Nat \ {0} /\ p.lb \in Int /\ p.buf \in Buffers
  BY DEF Entries
<1>8. \A p \in Commands : p.trk \in Trackers /\ p.addr \in Int
                         /\ p.num \in Nat \ {0} /\ p.lb \in Int /\ p.buf \in Buffers
  BY DEF Commands
<1>9. QED  BY <1>2, <1>3, <1>4, <1>5, <1>6, <1>7, <1>8

\* Two commands with the same tracker and address are one.
LEMMA ApartMeansOther ==
    ASSUME NEW p, NEW q, p.num \in Nat \ {0}, p.addr \in Int, q.trk = p.trk,
           q.addr = p.addr, q.num = p.num
    PROVE  ~Apart(p, q)
<1>1. BlockSize \in Nat \ {0}
  BY ExtentConstants
<1>2. BlockSize * p.num \in Int /\ BlockSize * p.num >= BlockSize
  BY BlocksProduct
<1> DEFINE m == BlockSize * p.num
<1>3. m = BlockSize * q.num
  OBVIOUS
<1> HIDE DEF m
<1>4. ~(p.addr + m <= p.addr)
  BY <1>1, <1>2 DEF m
<1>5. QED  BY <1>3, <1>4 DEF Apart, m

\* The kernel finds in the slot of an entry the device its file is on.
LEMMA CommandOf ==
    ASSUME TypeOK, RingTypes, RequestsOK, TrackersOK, CountsOK, SlotsOK, DeviceTableConsistent,
           NEW s \in ToSet(sq)
    PROVE  /\ Command(s) \in Commands /\ Command(s).dev = DeviceOf[read[Owner(s)].file]
           /\ Command(s).trk = s.trk /\ Command(s).buf = s.buf /\ Command(s).addr = s.addr
           /\ Command(s).num = s.num /\ Command(s).lb = s.lb
<1>1. s \in Entries /\ s.trk \in InUse
  BY QueueElements DEF InUse
<1>2. Owner(s) \in Requests /\ status[Owner(s)] = "accepted"
  BY <1>1, InUseIsTracked DEF Owner
<1>3. read[Owner(s)] \in Reads
  BY <1>2 DEF RequestsOK
<1>4. read[Owner(s)].file \in Files
  BY <1>3, ReadsFit
<1>5. DeviceOf[read[Owner(s)].file] \in Devices
  BY <1>4, NvmeConstants
<1>6. ktable[s.fd] = DeviceOf[read[Owner(s)].file]
  BY DEF DeviceTableConsistent, Owner
<1>7. QED  BY <1>1, <1>5, <1>6 DEF Command, Commands, Entries

\* Submission makes one command of each entry, and as many for each tracker.
LEMMA SubmitEffects ==
    ASSUME TypeOK, RingTypes, RequestsOK, TrackersOK, CountsOK, SlotsOK, PartsApart,
           DeviceTableConsistent, Submit
    PROVE  /\ inflight' = inflight \cup {Command(s) : s \in ToSet(sq)} /\ sq' = <<>>
           /\ sq' \in Seq(Entries) /\ inflight' \subseteq Commands /\ IsFiniteSet(inflight')
           /\ Cardinality(inflight') = Cardinality(inflight) + Len(sq)
           /\ \A t : Cardinality(InFlight(t)') =
                       Cardinality(InFlight(t)) + Occurrences(sq, ByTrk(t))
           /\ \A t : Occurrences(sq', ByTrk(t)) = 0
           /\ \A p \in Parts' : p \in inflight \/ \E s \in ToSet(sq) : p = Command(s)
<1> DEFINE image(A) == {Command(sq[i]) : i \in A}
           new == {Command(s) : s \in ToSet(sq)}
<1>1. inflight' = inflight \cup new /\ sq' = <<>>
  BY DEF Submit, Command
<1>2. new \subseteq Commands
  BY CommandOf
<1>3. DOMAIN sq = 1 .. Len(sq) /\ Len(sq) \in Nat /\ \A i \in DOMAIN sq : sq[i] \in ToSet(sq)
  BY QueueElements
<1>4. new = image(DOMAIN sq)
  BY DEF ToSet
<1>5. \A i \in DOMAIN sq : /\ sq[i].num \in Nat \ {0} /\ sq[i].addr \in Int
                           /\ Command(sq[i]).trk = sq[i].trk
                           /\ Command(sq[i]).addr = sq[i].addr
                           /\ Command(sq[i]).num = sq[i].num
  BY <1>3, CommandOf, QueueElements DEF Entries
<1>6. \A i, j \in DOMAIN sq : Command(sq[i]) = Command(sq[j]) => i = j
  <2>1. SUFFICES ASSUME NEW i \in DOMAIN sq, NEW j \in DOMAIN sq,
                        Command(sq[i]) = Command(sq[j]), i # j
                 PROVE  FALSE
    OBVIOUS
  <2>2. sq[j].trk = sq[i].trk /\ sq[j].addr = sq[i].addr /\ sq[j].num = sq[i].num
    BY <1>5, <2>1
  <2>3. ~Apart(sq[i], sq[j])
    BY <1>5, <2>2, ApartMeansOther
  <2>4. QED  BY <2>1, <2>3 DEF PartsApart
<1>7. \A A \in SUBSET DOMAIN sq : /\ IsFiniteSet(image(A)) /\ IsFiniteSet(A)
                                  /\ Cardinality(image(A)) = Cardinality(A)
  <2>1. TAKE A \in SUBSET DOMAIN sq
  <2>2. IsFiniteSet(DOMAIN sq)
    BY <1>3, FS_Interval
  <2>3. IsFiniteSet(A)
    BY <2>2, FS_Subset
  <2> DEFINE g == [i \in A |-> Command(sq[i])]
             T == image(A)
  <2>4. g \in [A -> T]
    OBVIOUS
  <2>5. \A i, j \in A : g[i] = g[j] => i = j
    BY <1>6
  <2>6. \A c \in T : \E i \in A : g[i] = c
    OBVIOUS
  <2> HIDE DEF g, T
  <2>7. g \in Bijection(A, T)
    BY <2>4, <2>5, <2>6 DEF Bijection, Injection, Surjection, IsInjective
  <2>8. ExistsBijection(A, T)
    BY <2>7 DEF ExistsBijection
  <2>9. IsFiniteSet(T) /\ Cardinality(T) = Cardinality(A)
    BY <2>3, <2>8, FS_Bijection
  <2>10. QED  BY <2>3, <2>9 DEF T
<1>8. inflight \cap new = {}
  <2>1. SUFFICES ASSUME NEW s \in ToSet(sq), Command(s) \in inflight PROVE FALSE
    OBVIOUS
  <2>2. s.num \in Nat \ {0} /\ s.addr \in Int
    BY QueueElements DEF Entries
  <2>3. ~Apart(s, Command(s))
    BY <2>2, CommandOf, ApartMeansOther
  <2>4. QED  BY <2>1, <2>3 DEF PartsApart
<1>9. inflight \subseteq Commands /\ IsFiniteSet(inflight)
  BY DEF RingTypes
<1>10. IsFiniteSet(new) /\ Cardinality(new) = Len(sq)
  <2>1. Cardinality(1 .. Len(sq)) = Len(sq)
    BY <1>3, FS_Interval
  <2>2. IsFiniteSet(image(DOMAIN sq)) /\ Cardinality(image(DOMAIN sq)) = Cardinality(DOMAIN sq)
    BY <1>7
  <2>3. QED  BY <1>3, <1>4, <2>1, <2>2
<1>11. /\ IsFiniteSet(inflight')
       /\ Cardinality(inflight') = Cardinality(inflight) + Len(sq)
  <2>1. Cardinality(inflight \cap new) = 0
    BY <1>8, FS_EmptySet
  <2>2. /\ IsFiniteSet(inflight \cup new)
        /\ Cardinality(inflight \cup new) =
             Cardinality(inflight) + Cardinality(new) - Cardinality(inflight \cap new)
    BY <1>9, <1>10, FS_Union
  <2>3. Cardinality(inflight) \in Nat
    BY <1>9, FS_CardinalityType
  <2>4. QED  BY <1>1, <1>3, <1>10, <2>1, <2>2, <2>3
<1>12. ASSUME NEW t
       PROVE  Cardinality(InFlight(t)') = Cardinality(InFlight(t)) + Occurrences(sq, ByTrk(t))
  <2> DEFINE A == {i \in DOMAIN sq : sq[i].trk = t}
             B == image(A)
  <2>1. A \in SUBSET DOMAIN sq
    OBVIOUS
  <2>2. IsFiniteSet(B) /\ Cardinality(B) = Cardinality(A)
    BY <1>7, <2>1
  <2>3. sq \in Seq(Entries)
    BY DEF RingTypes
  <2>4. Cardinality(A) = Occurrences(sq, ByTrk(t)) /\ Cardinality(A) \in Nat
    BY <2>3, CountIsOccurrences
  <2>5. \A c : c \in B <=> c \in new /\ c.trk = t
    BY <1>4, <1>5
  <2> HIDE DEF A, B, new
  <2>6. InFlight(t)' = InFlight(t) \cup B
    BY <1>1, <2>5 DEF InFlight
  <2>7. InFlight(t) \cap B = {}
    BY <1>8, <2>5 DEF InFlight
  <2>8. IsFiniteSet(InFlight(t)) /\ Cardinality(InFlight(t)) \in Nat
    BY OutstandingParts
  <2>9. Cardinality(InFlight(t) \cap B) = 0
    BY <2>7, FS_EmptySet
  <2>10. Cardinality(InFlight(t) \cup B) =
           Cardinality(InFlight(t)) + Cardinality(B) - Cardinality(InFlight(t) \cap B)
    BY <2>2, <2>8, FS_Union
  <2>11. QED  BY <2>2, <2>4, <2>6, <2>8, <2>9, <2>10
<1>13. \A t : Occurrences(sq', ByTrk(t)) = 0
  BY <1>1, OccurrencesEmpty
<1>14. \A p \in Parts' : p \in inflight \/ \E s \in ToSet(sq) : p = Command(s)
  <2>1. ToSet(<<>>) = {}
    BY DEF ToSet
  <2>2. Parts' = inflight'
    BY <1>1, <2>1 DEF Parts
  <2>3. QED  BY <1>1, <2>2
<1>15. sq' \in Seq(Entries)
  BY <1>1, EmptySeq
<1>16. QED  BY <1>1, <1>2, <1>9, <1>11, <1>12, <1>13, <1>14, <1>15

-----------------------------------------------------------------------------
(* Completions                                                               *)

-----------------------------------------------------------------------------
(* Completions                                                               *)

\* Every set of numbers from 1 to n has a greatest member.
LEMMA GreatestIsOne ==
    ASSUME NEW n \in Nat, NEW S, S \subseteq 1 .. n, S # {}
    PROVE  \E d \in S : \A e \in S : e <= d
<1> DEFINE T == {n - e : e \in S}
<1>1. T \subseteq Nat /\ T # {}
  <2>1. \A e \in S : n - e \in Nat
    OBVIOUS
  <2>2. QED  BY <2>1
<1>2. PICK m \in T : \A k \in T : m <= k
  BY <1>1, LeastIsOne
<1>3. PICK d \in S : m = n - d
  BY <1>2
<1>4. \A e \in S : n - d <= n - e
  BY <1>2, <1>3
<1>5. QED  BY <1>3, <1>4

\* The elements of a finite set in the order of different keys.
LEMMA Ranking ==
    ASSUME NEW F, IsFiniteSet(F), NEW L \in [F -> Int],
           \A t, u \in F : L[t] = L[u] => t = u
    PROVE  LET n == Cardinality(F)
               s == [k \in 1 .. n |->
                       CHOOSE t \in F : Cardinality({u \in F : L[u] <= L[t]}) = k]
           IN  /\ s \in Seq(F) /\ Len(s) = n
               /\ \A i, j \in 1 .. n : s[i] = s[j] => i = j
<1> DEFINE n == Cardinality(F)
           upto(t) == {u \in F : L[u] <= L[t]}
           rank(t) == Cardinality(upto(t))
           g == [t \in F |-> rank(t)]
           s == [k \in 1 .. n |-> CHOOSE t \in F : rank(t) = k]
<1>1. n \in Nat /\ Cardinality(1 .. n) = n /\ IsFiniteSet(1 .. n)
  BY FS_CardinalityType, FS_Interval
<1>2. ASSUME NEW t \in F
      PROVE  IsFiniteSet(upto(t)) /\ rank(t) \in 1 .. n
  <2>1. upto(t) \in SUBSET F /\ t \in upto(t)
    OBVIOUS
  <2> HIDE DEF upto
  <2>2. IsFiniteSet(upto(t)) /\ rank(t) <= n
    BY <2>1, FS_Subset
  <2>3. rank(t) \in Nat /\ rank(t) # 0
    BY <2>1, <2>2, FS_CardinalityType, FS_EmptySet
  <2>4. QED  BY <1>1, <2>2, <2>3
<1>3. ASSUME NEW t \in F, NEW u \in F, L[t] < L[u]
      PROVE  rank(t) # rank(u)
  <2>1. upto(t) \in SUBSET (upto(u) \ {u}) /\ u \in upto(u)
    BY <1>3
  <2> HIDE DEF upto
  <2>2. IsFiniteSet(upto(u) \ {u}) /\ Cardinality(upto(u) \ {u}) = rank(u) - 1
    BY <1>2, <2>1, FS_RemoveElement
  <2>3. rank(t) <= rank(u) - 1
    BY <2>1, <2>2, FS_Subset
  <2>4. rank(t) \in Int /\ rank(u) \in Int
    BY <1>2
  <2> HIDE DEF rank
  <2>5. QED  BY <2>3, <2>4
<1> HIDE DEF rank
<1>4. \A t, u \in F : rank(t) = rank(u) => t = u
  <2>1. SUFFICES ASSUME NEW t \in F, NEW u \in F, t # u PROVE rank(t) # rank(u)
    OBVIOUS
  <2>2. L[t] < L[u] \/ L[u] < L[t]
    BY <2>1
  <2>3. QED  BY <1>3, <2>2
<1>5. g \in Injection(F, 1 .. n)
  <2>1. g \in [F -> 1 .. n]
    BY <1>2
  <2>2. \A t, u \in F : g[t] = g[u] => t = u
    BY <1>4
  <2>3. QED  BY <2>1, <2>2 DEF Injection, IsInjective
<1>6. \A k \in 1 .. n : \E t \in F : rank(t) = k
  <2>1. g \in Surjection(F, 1 .. n)
    BY <1>1, <1>5, FS_Injection
  <2>2. QED  BY <2>1 DEF Surjection
<1>7. \A k \in 1 .. n : s[k] \in F /\ rank(s[k]) = k
  <2>1. TAKE k \in 1 .. n
  <2>2. s[k] = CHOOSE t \in F : rank(t) = k
    OBVIOUS
  <2>3. \E t \in F : rank(t) = k
    BY <1>6
  <2> HIDE DEF s
  <2>4. QED  BY <2>2, <2>3
<1>8. s = [k \in 1 .. n |-> s[k]] /\ DOMAIN s = 1 .. n
  OBVIOUS
<1> HIDE DEF s
<1>9. \A i, j \in 1 .. n : s[i] = s[j] => i = j
  <2>1. TAKE i, j \in 1 .. n
  <2>2. rank(s[i]) = i /\ rank(s[j]) = j
    BY <1>7
  <2>3. QED  BY <2>2
<1>10. s \in Seq(F) /\ Len(s) = n
  <2>1. s \in [1 .. n -> F]
    BY <1>7, <1>8
  <2>2. s \in Seq(F)
    BY <1>1, <2>1, SeqDef
  <2>3. QED  BY <1>1, <1>8, <2>2, LenProperties
<1>11. QED  BY <1>9, <1>10 DEF s, rank

\* What is finished by some of the completions at hand.
LEMMA FinishedFacts ==
    ASSUME TypeOK, RingTypes, TrackersOK, CountsOK, NEW cqes \in Seq(Cqes),
           \A t : Occurrences(cqes, ByTrk(t)) <= Occurrences(cq, ByTrk(t))
    PROVE  /\ Finished(cqes) \subseteq InUse /\ Finished(cqes) \subseteq Trackers
           /\ IsFiniteSet(Finished(cqes))
           /\ \A t \in Trackers :
                 t \in Finished(cqes) <=> /\ t \in InUse
                                          /\ Occurrences(cqes, ByTrk(t)) = Outstanding(t)
           /\ \A t \in Finished(cqes) :
                 /\ tracker[t].req \in Requests /\ status[tracker[t].req] = "accepted"
                 /\ LastEvent(t, cqes) \in 1 .. Len(cqes) /\ cqes[LastEvent(t, cqes)].trk = t
           /\ \A t \in Trackers : Cardinality(EventsOf(t, cqes)) = Occurrences(cqes, ByTrk(t))
<1>1. DOMAIN cqes = 1 .. Len(cqes) /\ Len(cqes) \in Nat
      /\ \A i \in DOMAIN cqes : cqes[i] \in Cqes
  BY LenProperties, ElementOfSeq
<1>2. \A t : /\ Cardinality(EventsOf(t, cqes)) = Occurrences(cqes, ByTrk(t))
             /\ Occurrences(cqes, ByTrk(t)) \in Nat
             /\ EventsOf(t, cqes) = {} <=> Occurrences(cqes, ByTrk(t)) = 0
  BY EventsIsOccurrences
<1>3. \A t \in Trackers : tracker[t].RemainingRequests = Outstanding(t)
  BY CountsForm
<1>4. \A t : EventsOf(t, cqes) # {} <=> \E i \in DOMAIN cqes : cqes[i].trk = t
  BY DEF EventsOf
<1>5. \A i \in DOMAIN cqes : cqes[i].trk \in Trackers
  BY <1>1 DEF Cqes
<1>6. \A t : t \in Finished(cqes) <=>
         /\ t \in Trackers /\ EventsOf(t, cqes) # {}
         /\ Occurrences(cqes, ByTrk(t)) = Outstanding(t)
  BY <1>2, <1>3, <1>4, <1>5 DEF Finished
<1>7. \A t \in Trackers :
         t \in Finished(cqes) <=> t \in InUse /\ Occurrences(cqes, ByTrk(t)) = Outstanding(t)
  <2>1. TAKE t \in Trackers
  <2>2. Outstanding(t) \in Nat /\ (Outstanding(t) = 0 <=> t \notin InUse)
    BY OutstandingParts
  <2>3. QED  BY <1>2, <1>6, <2>2
<1>8. Finished(cqes) \subseteq Trackers /\ Finished(cqes) \subseteq InUse
  BY <1>6, <1>7
<1>9. IsFiniteSet(Finished(cqes))
  <2> DEFINE F == Finished(cqes)
             g == [t \in F |-> CHOOSE i \in DOMAIN cqes : cqes[i].trk = t]
  <2>1. \A t \in F : g[t] \in DOMAIN cqes /\ cqes[g[t]].trk = t
    BY <1>4, <1>6
  <2>2. g \in [F -> 1 .. Len(cqes)]
    BY <1>1, <2>1
  <2> HIDE DEF g, F
  <2>3. g \in Injection(F, 1 .. Len(cqes))
    BY <2>1, <2>2 DEF Injection, IsInjective
  <2>4. IsFiniteSet(1 .. Len(cqes))
    BY <1>1, FS_Interval
  <2>5. IsFiniteSet(F)
    BY <2>3, <2>4, FS_Injection
  <2>6. QED  BY <2>5 DEF F
<1>10. ASSUME NEW t \in Finished(cqes)
       PROVE  /\ tracker[t].req \in Requests /\ status[tracker[t].req] = "accepted"
              /\ LastEvent(t, cqes) \in 1 .. Len(cqes) /\ cqes[LastEvent(t, cqes)].trk = t
  <2>1. tracker[t].req \in Requests /\ status[tracker[t].req] = "accepted"
    BY <1>8, InUseIsTracked
  <2>2. EventsOf(t, cqes) # {} /\ EventsOf(t, cqes) \subseteq 1 .. Len(cqes)
    BY <1>1, <1>6 DEF EventsOf
  <2>3. \E d \in EventsOf(t, cqes) : \A e \in EventsOf(t, cqes) : e <= d
    BY <1>1, <2>2, GreatestIsOne
  <2>4. LastEvent(t, cqes) \in EventsOf(t, cqes)
    BY <2>3 DEF LastEvent
  <2>5. QED  BY <1>1, <2>1, <2>4 DEF EventsOf
<1>11. QED  BY <1>2, <1>7, <1>8, <1>9, <1>10

\* The trackers returned are the finished ones, each once.
LEMMA ReturnedFacts ==
    ASSUME TypeOK, RingTypes, TrackersOK, CountsOK, NEW cqes \in Seq(Cqes),
           \A t : Occurrences(cqes, ByTrk(t)) <= Occurrences(cq, ByTrk(t))
    PROVE  /\ Returned(cqes) \in Seq(Finished(cqes))
           /\ \A i, j \in DOMAIN Returned(cqes) :
                 Returned(cqes)[i] = Returned(cqes)[j] => i = j
<1> DEFINE F == Finished(cqes)
           L == [t \in F |-> LastEvent(t, cqes)]
           n == Cardinality(F)
           s == [k \in 1 .. n |->
                       CHOOSE t \in F : Cardinality({u \in F : L[u] <= L[t]}) = k]
<1>1. /\ IsFiniteSet(F)
      /\ \A t \in F : LastEvent(t, cqes) \in 1 .. Len(cqes) /\ cqes[LastEvent(t, cqes)].trk = t
  BY FinishedFacts
<1>2. \A t \in F : L[t] = LastEvent(t, cqes)
  OBVIOUS
<1>3. L \in [F -> Int]
  <2>1. Len(cqes) \in Nat
    BY LenProperties
  <2>2. QED  BY <1>1, <2>1
<1>4. \A t, u \in F : L[t] = L[u] => t = u
  BY <1>1, <1>2
<1>5. s = Returned(cqes)
  <2>1. \A t \in F : {u \in F : L[u] <= L[t]}
                     = {u \in F : LastEvent(u, cqes) <= LastEvent(t, cqes)}
    BY <1>2
  <2>2. \A t \in F : Cardinality({u \in F : L[u] <= L[t]}) = Rank(t, cqes)
    BY <2>1 DEF Rank
  <2>3. \A k \in 1 .. n :
           (CHOOSE t \in F : Cardinality({u \in F : L[u] <= L[t]}) = k)
             = CHOOSE t \in F : Rank(t, cqes) = k
    BY <2>2
  <2> DEFINE a(k) == CHOOSE t \in F : Cardinality({u \in F : L[u] <= L[t]}) = k
             b(k) == CHOOSE t \in F : Rank(t, cqes) = k
  <2>4. s = [k \in 1 .. n |-> a(k)] /\ Returned(cqes) = [k \in 1 .. n |-> b(k)]
    BY Zenon DEF Returned
  <2>5. \A k \in 1 .. n : a(k) = b(k)
    BY <2>3
  <2> HIDE DEF a, b, s
  <2>6. QED  BY <2>4, <2>5
<1> HIDE DEF L, F
<1>6. s \in Seq(F) /\ Len(s) = n /\ \A i, j \in 1 .. n : s[i] = s[j] => i = j
  BY <1>1, <1>3, <1>4, Ranking
<1>7. DOMAIN s = 1 .. n
  BY <1>6, LenProperties
<1> HIDE DEF s
<1>8. QED  BY <1>5, <1>6, <1>7 DEF F

\* The completions `cqes` are processed and leave the queue.
Reaps(cqes) ==
    /\ cqes \in Seq(Cqes) /\ ProcessCompletionEvents(cqes)
    /\ cq' \in Seq(Cqes) /\ finished' = finished
    /\ Len(cq) = Len(cqes) + Len(cq')
    /\ \A t : Occurrences(cq, ByTrk(t)) =
                Occurrences(cqes, ByTrk(t)) + Occurrences(cq', ByTrk(t))

\* The reads they complete.
Done(cqes) == {tracker[t].req : t \in Finished(cqes)}

\* Both steps that look for completions process a prefix of the queue, or none.
LEMMA ReapCases ==
    ASSUME TypeOK, RingTypes, CountsOK, ProcessCompletedRequests \/ WaitCqe
    PROVE  \/ \E cqes : Reaps(cqes)
           \/ UNCHANGED <<requestVars, fileVars, deviceVars, memoryVars, trackerVars,
                          NextRequest, AcquiredBuffer, split, countVars, ringVars>>
<1>1. /\ cq \in Seq(Cqes) /\ <<>> \in Seq(Cqes) /\ Len(<<>>) = 0 /\ Len(cq) \in Nat
  BY LenProperties, EmptySeq DEF RingTypes
<1>2. \A t : Occurrences(<<>>, ByTrk(t)) = 0
  BY OccurrencesEmpty
<1>3. CASE ProcessCompletedRequests /\ NumPendingCompletions > 0 /\ cq # <<>>
  <2>1. ProcessCompletionEvents(cq) /\ cq' = <<>> /\ finished' = finished
    BY <1>3 DEF ProcessCompletedRequests
  <2>2. \A t : Occurrences(cq, ByTrk(t)) \in Nat
    BY <1>1, CountIsOccurrences
  <2>3. Reaps(cq)
    BY <1>1, <1>2, <2>1, <2>2 DEF Reaps
  <2>4. QED  BY <2>3
<1>4. CASE ProcessCompletedRequests /\ ~(NumPendingCompletions > 0 /\ cq # <<>>)
  <2>1. cq = <<>>
    <3>1. CASE NumPendingCompletions > 0
      BY <1>4, <3>1
    <3>2. CASE NumPendingCompletions = 0
      <4>1. NumPendingCompletions = Len(sq) + Cardinality(inflight) + Len(finished) + Len(cq)
        BY DEF CountsOK
      <4>2. Len(sq) \in Nat /\ Cardinality(inflight) \in Nat /\ Len(finished) \in Nat
        BY LenProperties, FS_CardinalityType DEF RingTypes
      <4>3. Len(cq) = 0
        BY <1>1, <3>2, <4>1, <4>2
      <4>4. QED  BY <1>1, <4>3, EmptySeq
    <3>3. NumPendingCompletions \in Nat
      BY DEF TypeOK
    <3>4. QED  BY <3>1, <3>2, <3>3
  <2>2. QED  BY <1>4, <2>1 DEF ProcessCompletedRequests, ringVars, requestVars, fileVars,
                  deviceVars, memoryVars, trackerVars, countVars
<1>5. CASE WaitCqe
  <2> DEFINE cqes == <<Head(cq)>>
  <2>1. cq # <<>> /\ ProcessCompletionEvents(cqes) /\ cq' = Tail(cq) /\ finished' = finished
    BY <1>5 DEF WaitCqe
  <2>2. Head(cq) \in Cqes /\ Tail(cq) \in Seq(Cqes) /\ Len(Tail(cq)) = Len(cq) - 1
    BY <1>1, <2>1, HeadTailProperties
  <2>3. cqes \in Seq(Cqes) /\ Len(cqes) = 1
    BY <2>2
  <2>4. ASSUME NEW t
        PROVE  Occurrences(cq, ByTrk(t)) =
                 Occurrences(cqes, ByTrk(t)) + Occurrences(cq', ByTrk(t))
    <3>1. Occurrences(cq, ByTrk(t)) =
            Occurrences(Tail(cq), ByTrk(t)) + (IF Head(cq) \in ByTrk(t) THEN 1 ELSE 0)
      BY <1>1, <2>1, OccurrencesTail
    <3>2. Occurrences(cqes, ByTrk(t)) = IF Head(cq) \in ByTrk(t) THEN 1 ELSE 0
      BY OccurrencesOne
    <3>3. Occurrences(Tail(cq), ByTrk(t)) \in Nat
      BY <2>2, CountIsOccurrences
    <3>4. QED  BY <2>1, <3>1, <3>2, <3>3
  <2> HIDE DEF cqes
  <2>5. Reaps(cqes)
    BY <1>1, <2>1, <2>2, <2>3, <2>4 DEF Reaps
  <2>6. QED  BY <2>5
<1>6. QED  BY <1>3, <1>4, <1>5

\* Processing completions takes the finished trackers out of use.
LEMMA ReapEffects ==
    ASSUME TypeOK, RingTypes, TrackersOK, CountsOK, NEW cqes, Reaps(cqes)
    PROVE  /\ TypeOK' /\ RingTypes' /\ CountsOK'
           /\ UNCHANGED <<read, buffer, partFailed, fileVars, deviceVars, FixupOffset,
                          content, NextRequest, AcquiredBuffer, split, numPendingSubmits,
                          sq, inflight, finished>>
           /\ Finished(cqes) \subseteq InUse /\ Finished(cqes) \subseteq Trackers
           /\ InUse' = InUse \ Finished(cqes)
           /\ \A t \in Trackers : tracker'[t].req =
                 IF t \in Finished(cqes) THEN None ELSE tracker[t].req
           /\ \A r \in Requests : /\ r \notin Done(cqes) => status'[r] = status[r]
                                  /\ r \in Done(cqes) => status[r] = "accepted"
                                                         /\ status'[r] = "completed"
           /\ \A t \in Trackers \ Finished(cqes) : tracker[t].req \notin Done(cqes)
           /\ NvmeRequestPool' = NvmeRequestPool \o Returned(cqes)
<1>1. cqes \in Seq(Cqes) /\ ProcessCompletionEvents(cqes) /\ cq' \in Seq(Cqes)
      /\ finished' = finished /\ Len(cq) = Len(cqes) + Len(cq')
  BY DEF Reaps
<1>2. \A t : /\ Occurrences(cqes, ByTrk(t)) \in Nat /\ Occurrences(cq', ByTrk(t)) \in Nat
             /\ Occurrences(cq, ByTrk(t)) =
                  Occurrences(cqes, ByTrk(t)) + Occurrences(cq', ByTrk(t))
  BY <1>1, CountIsOccurrences DEF Reaps
<1>3. \A t : Occurrences(cqes, ByTrk(t)) <= Occurrences(cq, ByTrk(t))
  BY <1>2
<1> DEFINE F == Finished(cqes)
<1>4. /\ F \subseteq InUse /\ F \subseteq Trackers
      /\ \A t \in Trackers :
            t \in F <=> t \in InUse /\ Occurrences(cqes, ByTrk(t)) = Outstanding(t)
      /\ \A t \in F : tracker[t].req \in Requests /\ status[tracker[t].req] = "accepted"
      /\ \A t \in Trackers : Cardinality(EventsOf(t, cqes)) = Occurrences(cqes, ByTrk(t))
  BY <1>1, <1>3, FinishedFacts
<1>5. UNCHANGED <<read, buffer, partFailed, fileVars, deviceVars, FixupOffset,
                  content, NextRequest, AcquiredBuffer, split, numPendingSubmits,
                  sq, inflight, finished>>
  BY <1>1 DEF ProcessCompletionEvents
<1>6. tracker' = [t \in Trackers |->
             IF t \in F THEN Unused
             ELSE [tracker[t] EXCEPT !.RemainingRequests =
                                       @ - Cardinality(EventsOf(t, cqes))]]
  BY <1>1 DEF ProcessCompletionEvents
<1>7. tracker \in [Trackers -> [req : Requests \cup {None}, RemainingRequests : Int]]
  BY DEF TypeOK
<1> HIDE DEF F
<1>8. \A t \in Trackers :
         tracker'[t] = IF t \in F THEN Unused
                       ELSE [req |-> tracker[t].req,
                             RemainingRequests |-> tracker[t].RemainingRequests
                                                     - Occurrences(cqes, ByTrk(t))]
  <2>1. TAKE t \in Trackers
  <2>2. tracker[t] \in [req : Requests \cup {None}, RemainingRequests : Int]
    BY <1>7
  <2>3. [tracker[t] EXCEPT !.RemainingRequests = @ - Occurrences(cqes, ByTrk(t))]
          = [req |-> tracker[t].req,
             RemainingRequests |-> tracker[t].RemainingRequests - Occurrences(cqes, ByTrk(t))]
    BY <2>2
  <2>4. QED  BY <1>4, <1>6, <2>3
<1>9. /\ tracker' \in [Trackers -> [req : Requests \cup {None}, RemainingRequests : Int]]
      /\ \A t \in Trackers : tracker'[t].req = IF t \in F THEN None ELSE tracker[t].req
      /\ \A t \in Trackers : tracker'[t].RemainingRequests =
            IF t \in F THEN 0 ELSE tracker[t].RemainingRequests - Occurrences(cqes, ByTrk(t))
  <2>1. ASSUME NEW t \in Trackers
        PROVE  /\ tracker'[t] \in [req : Requests \cup {None}, RemainingRequests : Int]
               /\ tracker'[t].req = IF t \in F THEN None ELSE tracker[t].req
               /\ tracker'[t].RemainingRequests =
                    IF t \in F THEN 0
                    ELSE tracker[t].RemainingRequests - Occurrences(cqes, ByTrk(t))
    <3>1. tracker[t].req \in Requests \cup {None} /\ tracker[t].RemainingRequests \in Int
      BY <1>7
    <3>2. Occurrences(cqes, ByTrk(t)) \in Int
      BY <1>2
    <3>3. CASE t \in F
      <4>1. tracker'[t] = [req |-> None, RemainingRequests |-> 0]
        BY <1>8, <3>3, Zenon DEF Unused
      <4>2. QED  BY <3>3, <4>1
    <3>4. CASE t \notin F
      <4> DEFINE m == tracker[t].RemainingRequests - Occurrences(cqes, ByTrk(t))
      <4>1. m \in Int
        BY <3>1, <3>2
      <4>2. tracker'[t] = [req |-> tracker[t].req, RemainingRequests |-> m]
        BY <1>8, <3>4
      <4> HIDE DEF m
      <4>3. QED  BY <3>1, <3>4, <4>1, <4>2 DEF m
    <3>5. QED  BY <3>3, <3>4
  <2>2. DOMAIN tracker' = Trackers /\ tracker' = [t \in Trackers |-> tracker'[t]]
    BY <1>6
  <2>3. QED  BY <2>1, <2>2
<1>10. RingTypes'
  <2>1. RingTypes /\ cq' \in Seq(Cqes) /\ UNCHANGED <<sq, inflight, finished, content>>
    BY <1>1, <1>5
  <2>2. QED  BY <2>1 DEF RingTypes
<1>11. \A t : Outstanding(t)' = Outstanding(t) - Occurrences(cqes, ByTrk(t))
  <2>1. TAKE t
  <2>2. /\ Occurrences(sq, ByTrk(t)) \in Nat /\ Cardinality(InFlight(t)) \in Nat
        /\ Occurrences(finished, ByTrk(t)) \in Nat /\ Occurrences(cq, ByTrk(t)) \in Nat
    BY OutstandingParts
  <2>3. /\ sq' = sq /\ finished' = finished /\ InFlight(t)' = InFlight(t)
    BY <1>5 DEF InFlight
  <2>4. Outstanding(t)' = Occurrences(sq, ByTrk(t)) + Cardinality(InFlight(t))
          + Occurrences(finished, ByTrk(t)) + Occurrences(cq', ByTrk(t))
    BY <2>3 DEF Outstanding
  <2>5. QED  BY <1>2, <2>2, <2>4 DEF Outstanding
<1>12. InUse' = InUse \ F
  <2>1. \A t : t \in InUse' <=> Outstanding(t)' # 0
    BY <1>10, OutstandingNext
  <2>2. \A t : t \in InUse <=> Outstanding(t) # 0
    BY OutstandingParts
  <2>3. ASSUME NEW t PROVE t \in InUse' <=> t \in InUse \ F
    <3>1. Outstanding(t) \in Nat /\ Occurrences(cqes, ByTrk(t)) \in Nat
      BY <1>2, OutstandingParts
    <3>2. Occurrences(cqes, ByTrk(t)) <= Outstanding(t)
      <4>1. /\ Occurrences(sq, ByTrk(t)) \in Nat /\ Cardinality(InFlight(t)) \in Nat
            /\ Occurrences(finished, ByTrk(t)) \in Nat /\ Occurrences(cq, ByTrk(t)) \in Nat
        BY OutstandingParts
      <4>2. QED  BY <1>2, <4>1 DEF Outstanding
    <3>3. t \in InUse => t \in Trackers
      BY InUseIsTracked
    <3>4. CASE t \in Trackers
      BY <1>4, <1>11, <2>1, <2>2, <3>1, <3>2, <3>4
    <3>5. CASE t \notin Trackers
      <4>1. Outstanding(t) = 0
        BY <2>2, <3>3, <3>5
      <4>2. Outstanding(t)' = 0
        BY <1>11, <3>1, <3>2, <4>1
      <4>3. QED  BY <2>1, <2>2, <4>1, <4>2
    <3>6. QED  BY <3>4, <3>5
  <2>4. QED  BY <2>3
<1>13. CountsOK'
  <2>1. NumPendingCompletions' = NumPendingCompletions - Len(cqes)
    BY <1>1 DEF ProcessCompletionEvents
  <2>2. NumPendingCompletions = Len(sq) + Cardinality(inflight) + Len(finished) + Len(cq)
        /\ \A t \in Trackers : tracker[t].RemainingRequests = Outstanding(t)
    BY CountsForm
  <2>3. Len(sq) \in Nat /\ Cardinality(inflight) \in Nat /\ Len(finished) \in Nat
        /\ Len(cqes) \in Nat /\ Len(cq') \in Nat
    BY <1>1, LenProperties, FS_CardinalityType DEF RingTypes
  <2>4. NumPendingCompletions' = Len(sq') + Cardinality(inflight') + Len(finished') + Len(cq')
    BY <1>1, <1>5, <2>1, <2>2, <2>3
  <2>5. \A t \in Trackers : tracker'[t].RemainingRequests = Outstanding(t)'
    <3>1. TAKE t \in Trackers
    <3>2. Outstanding(t) \in Nat /\ Occurrences(cqes, ByTrk(t)) \in Nat
      BY <1>2, OutstandingParts
    <3>3. CASE t \in F
      BY <1>4, <1>9, <1>11, <3>2, <3>3
    <3>4. CASE t \notin F
      BY <1>9, <1>11, <2>2, <3>4
    <3>5. QED  BY <3>3, <3>4
  <2>6. QED  BY <1>10, <2>4, <2>5, CountsNext
<1>14. status' = [r \in Requests |-> IF r \in Done(cqes) THEN "completed" ELSE status[r]]
  BY <1>1 DEF ProcessCompletionEvents, Done
<1>15. \A r \in Done(cqes) : r \in Requests /\ status[r] = "accepted"
  BY <1>4 DEF Done, F
<1>16. \A t \in Trackers \ F : tracker[t].req \notin Done(cqes)
  <2>1. SUFFICES ASSUME NEW t \in Trackers \ F, NEW u \in F, tracker[t].req = tracker[u].req
                 PROVE  FALSE
    BY DEF Done, F
  <2>2. u \in Trackers /\ tracker[u].req # None
    BY <1>4, NvmeConstants
  <2>3. t = u
    BY <2>1, <2>2 DEF TrackersOK
  <2>4. QED  BY <2>1, <2>3
<1>17. TypeOK'
  <2>1. /\ status \in [Requests -> {"idle", "queued", "accepted", "completed"}]
        /\ bFailed \subseteq Requests /\ NvmeRequestPool \in Seq(Trackers)
        /\ moved \in [Buffers -> Int] /\ FixupOffset \in [Buffers -> Nat]
        /\ NumPendingCompletions \in Nat
    BY DEF TypeOK
  <2>2. status' \in [Requests -> {"idle", "queued", "accepted", "completed"}]
    BY <1>14, <2>1
  <2>3. bFailed' \subseteq Requests
    <3>1. bFailed' = bFailed \cup
             {tracker[t].req : t \in {u \in F : ~cqes[LastEvent(u, cqes)].ok}}
      BY <1>1 DEF ProcessCompletionEvents, F
    <3>2. QED  BY <1>4, <2>1, <3>1
  <2>4. moved' \in [Buffers -> Int]
    <3>1. moved' = [b \in Buffers |->
             IF \E r \in Done(cqes) : buffer[r] = b THEN moved[b] + FixupOffset[b] ELSE moved[b]]
      BY <1>1 DEF ProcessCompletionEvents, Done
    <3>2. QED  BY <2>1, <3>1
  <2>5. NvmeRequestPool' \in Seq(Trackers)
    <3>1. NvmeRequestPool' = NvmeRequestPool \o Returned(cqes)
      BY <1>1 DEF ProcessCompletionEvents
    <3>2. Returned(cqes) \in Seq(F)
      BY <1>1, <1>3, ReturnedFacts DEF F
    <3>3. Returned(cqes) \in Seq(Trackers)
      BY <1>4, <3>2, SeqMonotonic
    <3>4. QED  BY <2>1, <3>1, <3>3, ConcatProperties
  <2>6. NumPendingCompletions' \in Nat
    <3>1. Len(sq') \in Nat /\ Cardinality(inflight') \in Nat /\ Len(finished') \in Nat
          /\ Len(cq') \in Nat
      BY <1>10, LenProperties, FS_CardinalityType DEF RingTypes
    <3>2. QED  BY <1>13, <3>1 DEF CountsOK
  <2>7. QED  BY <1>5, <1>9, <2>2, <2>3, <2>4, <2>5, <2>6 DEF TypeOK, fileVars, deviceVars
<1>18. NvmeRequestPool' = NvmeRequestPool \o Returned(cqes)
  BY <1>1 DEF ProcessCompletionEvents
<1>19. QED  BY <1>4, <1>5, <1>9, <1>10, <1>12, <1>13, <1>14, <1>15, <1>16, <1>17, <1>18 DEF F

-----------------------------------------------------------------------------
(* Parts of a read                                                           *)

-----------------------------------------------------------------------------
(* The other steps of commands                                               *)

\* The part of a split read that the loop over extents is at.
PartRead == read[NextRequest]
PartExtent == FileExtents[PartRead.file][split.extent]
PartStart == IF split.extent = split.start THEN AlignedOffset(PartRead) ELSE -1
PartNum == NumLbs(PartExtent, PartStart, split.remaining)
PartEntry ==
    [trk |-> split.trk, fd |-> FixedFd[DeviceOf[PartRead.file]],
     buf |-> buffer[NextRequest], addr |-> split.ptr, num |-> PartNum,
     lb |-> StartLb(PartExtent, PartStart)]

\* The next part of a read has a block at least, and is in its extent.
LEMMA PartInHand ==
    ASSUME TypeOK, ControlOK, RequestsOK, RegisteredOK, DeviceTableConsistent, SplitOK,
           pc = "split"
    PROVE  /\ NextRequest \in Requests /\ status[NextRequest] = "accepted"
           /\ PartRead \in Reads /\ PartRead.file \in Files
           /\ Extents(PartRead.file) = FileExtents[PartRead.file]
           /\ Layout(FileExtents[PartRead.file])
           /\ split.extent \in 1 .. Len(FileExtents[PartRead.file])
           /\ split.start \in 1 .. split.extent
           /\ split.trk \in Trackers /\ tracker[split.trk].req = NextRequest
           /\ buffer[NextRequest] \in Buffers /\ split.ptr \in Int
           /\ split.remaining \in Nat \ {0} /\ PartNum \in 1 .. split.remaining
           /\ PartFrom(PartExtent, PartStart) \in Nat
           /\ PartExtent.LogicalOffset \in Nat /\ PartExtent.PhysicalOffset \in Nat
           /\ ExtentEnd(PartExtent) \in Nat
           /\ BlockSize * PartNum <= ExtentEnd(PartExtent) - PartFrom(PartExtent, PartStart)
           /\ PartNum # split.remaining =>
                BlockSize * PartNum = ExtentEnd(PartExtent) - PartFrom(PartExtent, PartStart)
           /\ StartLb(PartExtent, PartStart) \in Int
           /\ BlockSize * StartLb(PartExtent, PartStart) =
                PartFrom(PartExtent, PartStart) - PartExtent.LogicalOffset
                  + PartExtent.PhysicalOffset + PartitionStart * SectorSize
           /\ PartEntry \in Entries
<1>1. NextRequest \in Requests /\ status[NextRequest] = "accepted"
      /\ buffer[NextRequest] \in Buffers /\ tracker[split.trk].req = NextRequest
      /\ split \in [trk : Trackers, start : Nat, extent : Nat,
                    ptr : Int, remaining : Nat \ {0}]
  BY DEF ControlOK, InHand
<1>2. PartRead \in Reads
  BY <1>1 DEF RequestsOK, PartRead
<1> DEFINE f == PartRead.file
           file == FileExtents[f]
<1>3. f \in Files /\ AlignedOffset(PartRead) \in Nat /\ AlignedOffset(PartRead) % BlockSize = 0
  BY <1>2, AlignedRead
<1>4. Extents(f) = file /\ Layout(file)
  BY <1>3, ExtentsOfFile
<1>5. /\ split.start \in 1 .. split.extent /\ split.extent \in DOMAIN file
      /\ Reaches(file[split.start], AlignedOffset(PartRead))
  BY DEF SplitOK, PartRead
<1>6. split.extent \in 1 .. Len(file)
  BY <1>4, <1>5, LayoutFacts
<1> DEFINE e == PartExtent
<1>7. /\ e.LogicalOffset \in Nat /\ e.PhysicalOffset \in Nat
      /\ ExtentEnd(e) \in Nat /\ e.LogicalOffset < ExtentEnd(e)
      /\ e.LogicalOffset % BlockSize = 0 /\ e.PhysicalOffset % BlockSize = 0
      /\ ExtentEnd(e) % BlockSize = 0
  BY <1>4, <1>6, LayoutFacts, WholeExtents DEF PartExtent
<1>8. /\ PartFrom(e, PartStart) \in Nat /\ PartFrom(e, PartStart) % BlockSize = 0
      /\ PartFrom(e, PartStart) < ExtentEnd(e) /\ PartStart \in Int
  <2>1. CASE split.extent = split.start
    <3>1. PartStart = AlignedOffset(PartRead) /\ PartStart # -1
      BY <1>3, <2>1 DEF PartStart
    <3>2. PartFrom(e, PartStart) = AlignedOffset(PartRead)
      BY <3>1 DEF PartFrom
    <3>3. AlignedOffset(PartRead) < ExtentEnd(e)
      BY <1>3, <1>5, <1>7, <2>1 DEF Reaches, PartExtent
    <3>4. QED  BY <1>3, <3>1, <3>2, <3>3
  <2>2. CASE split.extent # split.start
    <3>1. PartStart = -1
      BY <2>2 DEF PartStart
    <3>2. PartFrom(e, PartStart) = e.LogicalOffset
      BY <3>1 DEF PartFrom
    <3>3. QED  BY <1>7, <3>1, <3>2
  <2>3. QED  BY <2>1, <2>2
<1> HIDE DEF e
<1>9. split.remaining \in Nat \ {0} /\ split.ptr \in Int /\ split.trk \in Trackers
  BY <1>1
<1>10. /\ PartNum \in 1 .. split.remaining
       /\ BlockSize * PartNum <= ExtentEnd(e) - PartFrom(e, PartStart)
       /\ PartNum # split.remaining =>
            BlockSize * PartNum = ExtentEnd(e) - PartFrom(e, PartStart)
  <2>1. PartNum = NumLbs(e, PartStart, split.remaining)
    BY DEF PartNum, e
  <2>2. ExtentEnd(e) \in Int /\ PartFrom(e, PartStart) \in Int
    BY <1>7, <1>8
  <2>3. QED  BY <1>7, <1>8, <1>9, <2>1, <2>2, PartBlocks
<1>11. /\ StartLb(e, PartStart) \in Int
       /\ BlockSize * StartLb(e, PartStart) =
            PartFrom(e, PartStart) - e.LogicalOffset + e.PhysicalOffset
              + PartitionStart * SectorSize
  <2>1. /\ e.LogicalOffset \in Int /\ e.PhysicalOffset \in Int
        /\ PartFrom(e, PartStart) \in Int
    BY <1>7, <1>8
  <2>2. QED  BY <1>7, <1>8, <2>1, PartBlock
<1>12. FixedFd[DeviceOf[f]] \in Slots
  <2>1. Tracked(NextRequest)
    BY <1>1, <1>9 DEF Tracked
  <2>2. f \in RegisteredContainers[DeviceOf[f]]
    BY <1>1, <2>1 DEF RegisteredOK, PartRead
  <2>3. DeviceOf[f] \in Devices
    BY <1>3, NvmeConstants
  <2>4. FixedFd[DeviceOf[f]] # -1
    BY <2>2, <2>3 DEF DeviceTableConsistent
  <2>5. QED  BY <2>3, <2>4 DEF TypeOK
<1>13. PartEntry \in Entries
  <2>1. PartNum \in Nat \ {0}
    BY <1>9, <1>10
  <2>2. QED  BY <1>1, <1>9, <1>11, <1>12, <2>1 DEF PartEntry, Entries, e
<1>14. QED  BY <1>1, <1>2, <1>3, <1>4, <1>5, <1>6, <1>7, <1>8, <1>9, <1>10, <1>11, <1>13 DEF e

\* Preparing a part adds its entry to the queue and counts it.
LEMMA PartEffects ==
    ASSUME TypeOK, RingTypes, ControlOK, RequestsOK, RegisteredOK, DeviceTableConsistent,
           SplitOK, CountsOK, NEW r \in Requests, PreparePart(r)
    PROVE  /\ pc = "split" /\ r = NextRequest
           /\ sq' = Append(sq, PartEntry) /\ sq' \in Seq(Entries)
           /\ tracker' \in [Trackers -> [req : Requests \cup {None}, RemainingRequests : Int]]
           /\ \A t \in Trackers : tracker'[t].req = tracker[t].req
           /\ pc' \in {"fatal", "split", "submit"}
           /\ UNCHANGED <<requestVars, fileVars, deviceVars, memoryVars, NvmeRequestPool,
                       from, NextRequest, AcquiredBuffer, numPendingSubmits, inflight,
                       finished, cq>>
           /\ RingTypes' /\ CountsOK' /\ InUse' = InUse \cup {split.trk}
           /\ Parts' = Parts \cup {PartEntry}
<1>1. pc = "split" /\ r = NextRequest
  BY DEF PreparePart
<1>2. /\ Extents(PartRead.file) = FileExtents[PartRead.file]
      /\ split.trk \in Trackers /\ PartEntry \in Entries
  BY <1>1, PartInHand
<1>3. sq' = Append(sq, PartEntry)
  BY <1>1, <1>2 DEF PreparePart, PartEntry, PartRead, PartExtent, PartStart, PartNum
<1>4. tracker' = [tracker EXCEPT ![split.trk].RemainingRequests = @ + 1]
  BY DEF PreparePart
<1>5. UNCHANGED <<requestVars, fileVars, deviceVars, memoryVars, NvmeRequestPool,
                  from, NextRequest, AcquiredBuffer, numPendingSubmits, inflight,
                  finished, cq>>
      /\ NumPendingCompletions' = NumPendingCompletions + 1
  BY DEF PreparePart
<1>6. pc' \in {"fatal", "split", "submit"}
  BY DEF PreparePart
<1>7. tracker \in [Trackers -> [req : Requests \cup {None}, RemainingRequests : Int]]
  BY DEF TypeOK
<1>8. /\ tracker' \in [Trackers -> [req : Requests \cup {None}, RemainingRequests : Int]]
      /\ \A t \in Trackers : tracker'[t].req = tracker[t].req
      /\ \A t \in Trackers : tracker'[t].RemainingRequests =
            tracker[t].RemainingRequests + (IF t = split.trk THEN 1 ELSE 0)
  <2>1. ASSUME NEW t \in Trackers
        PROVE  /\ tracker'[t] \in [req : Requests \cup {None}, RemainingRequests : Int]
               /\ tracker'[t].req = tracker[t].req
               /\ tracker'[t].RemainingRequests =
                    tracker[t].RemainingRequests + (IF t = split.trk THEN 1 ELSE 0)
    <3>1. tracker[t] \in [req : Requests \cup {None}, RemainingRequests : Int]
      BY <1>7
    <3>2. CASE t = split.trk
      <4>1. tracker'[t] = [tracker[t] EXCEPT !.RemainingRequests = @ + 1]
        BY <1>4, <1>7, <3>2
      <4>2. QED  BY <3>1, <3>2, <4>1
    <3>3. CASE t # split.trk
      <4>1. tracker'[t] = tracker[t]
        BY <1>4, <1>7, <3>3
      <4>2. QED  BY <3>1, <3>3, <4>1
    <3>4. QED  BY <3>2, <3>3
  <2>2. tracker' = [t \in Trackers |-> tracker'[t]]
    BY <1>4, <1>7
  <2>3. QED  BY <2>1, <2>2
<1>9. sq \in Seq(Entries) /\ sq' \in Seq(Entries) /\ Len(sq') = Len(sq) + 1
  <2>1. sq \in Seq(Entries)
    BY DEF RingTypes
  <2>2. QED  BY <1>2, <1>3, <2>1, AppendProperties
<1>10. RingTypes'
  BY <1>5, <1>9 DEF RingTypes, memoryVars
<1>11. \A t : Outstanding(t)' = Outstanding(t) + (IF t = split.trk THEN 1 ELSE 0)
  <2>1. TAKE t
  <2>2. Occurrences(sq', ByTrk(t)) = Occurrences(sq, ByTrk(t))
                                       + (IF PartEntry \in ByTrk(t) THEN 1 ELSE 0)
    BY <1>2, <1>3, <1>9, OccurrencesAppend
  <2>3. PartEntry \in ByTrk(t) <=> t = split.trk
    BY <1>2 DEF ByTrk, PartEntry
  <2>4. InFlight(t)' = InFlight(t) /\ finished' = finished /\ cq' = cq
    BY <1>5 DEF InFlight
  <2>5. /\ Occurrences(sq, ByTrk(t)) \in Nat /\ Cardinality(InFlight(t)) \in Nat
        /\ Occurrences(finished, ByTrk(t)) \in Nat /\ Occurrences(cq, ByTrk(t)) \in Nat
    BY OutstandingParts
  <2>6. Outstanding(t)' = Occurrences(sq', ByTrk(t)) + Cardinality(InFlight(t))
          + Occurrences(finished, ByTrk(t)) + Occurrences(cq, ByTrk(t))
    BY <2>4 DEF Outstanding
  <2>7. QED  BY <2>2, <2>3, <2>5, <2>6 DEF Outstanding
<1>12. CountsOK'
  <2>1. /\ NumPendingCompletions = Len(sq) + Cardinality(inflight) + Len(finished) + Len(cq)
        /\ \A t \in Trackers : tracker[t].RemainingRequests = Outstanding(t)
    BY CountsForm
  <2>2. Len(sq) \in Nat /\ Cardinality(inflight) \in Nat /\ Len(finished) \in Nat
        /\ Len(cq) \in Nat
    BY LenProperties, FS_CardinalityType DEF RingTypes
  <2>3. NumPendingCompletions' =
          Len(sq') + Cardinality(inflight') + Len(finished') + Len(cq')
    BY <1>5, <1>9, <2>1, <2>2
  <2>4. \A t \in Trackers : tracker'[t].RemainingRequests = Outstanding(t)'
    BY <1>8, <1>11, <2>1
  <2>5. QED  BY <1>10, <2>3, <2>4, CountsNext
<1>13. InUse' = InUse \cup {split.trk}
  <2>1. ASSUME NEW t PROVE t \in InUse' <=> t \in InUse \cup {split.trk}
    <3>1. Outstanding(t) \in Nat /\ (Outstanding(t) = 0 <=> t \notin InUse)
      BY OutstandingOK
    <3>2. Outstanding(t)' = 0 <=> t \notin InUse'
      BY <1>10, OutstandingNext
    <3>3. QED  BY <1>11, <3>1, <3>2
  <2>2. QED  BY <2>1
<1>14. Parts' = Parts \cup {PartEntry}
  <2>1. /\ DOMAIN sq = 1 .. Len(sq) /\ DOMAIN sq' = 1 .. Len(sq) + 1 /\ Len(sq) \in Nat
    BY <1>9, LenProperties
  <2>2. /\ \A i \in 1 .. Len(sq) : sq'[i] = sq[i]
        /\ sq'[Len(sq) + 1] = PartEntry
    BY <1>2, <1>3, <1>9, AppendProperties
  <2>3. ToSet(sq') = ToSet(sq) \cup {PartEntry}
    <3>1. \A e : e \in ToSet(sq') <=> \E i \in 1 .. Len(sq) + 1 : sq'[i] = e
      BY <2>1 DEF ToSet
    <3>2. \A e : e \in ToSet(sq) <=> \E i \in 1 .. Len(sq) : sq[i] = e
      BY <2>1 DEF ToSet
    <3>3. \A i \in 1 .. Len(sq) + 1 : i \in 1 .. Len(sq) \/ i = Len(sq) + 1
      BY <2>1
    <3>4. Len(sq) + 1 \in 1 .. Len(sq) + 1 /\ \A i \in 1 .. Len(sq) : i \in 1 .. Len(sq) + 1
      BY <2>1
    <3>5. \A e : e \in ToSet(sq') <=> e \in ToSet(sq) \cup {PartEntry}
      BY <2>2, <3>1, <3>2, <3>3, <3>4
    <3>6. QED  BY <3>5
  <2>4. QED  BY <1>5, <2>3 DEF Parts
<1>15. QED  BY <1>1, <1>3, <1>5, <1>6, <1>8, <1>9, <1>10, <1>12, <1>13, <1>14

\* A device that completes a command trades it for a completion.
LEMMA CompleteEffects ==
    ASSUME RingTypes, CountsOK, NEW p \in inflight, NEW ok \in BOOLEAN, Complete(p, ok)
    PROVE  /\ RingTypes' /\ CountsOK' /\ InUse' = InUse /\ Parts' \subseteq Parts
           /\ sq' = sq /\ inflight' = inflight \ {p}
           /\ UNCHANGED <<status, read, bFailed, buffer, fileVars, deviceVars, moved,
                   FixupOffset, trackerVars, loopVars, countVars, sq>>
<1> DEFINE e == [trk |-> p.trk, ok |-> ok]
<1>1. /\ inflight' = inflight \ {p}
      /\ UNCHANGED <<status, read, bFailed, buffer, fileVars, deviceVars, moved,
                   FixupOffset, trackerVars, loopVars, countVars, sq>>
      /\ \/ finished' = Append(finished, e) /\ cq' = cq
         \/ cq' = Append(cq, e) /\ finished' = finished
  BY DEF Complete
<1>2. content' = [b \in Buffers |-> content'[b]]
  <2>1. content = [b \in Buffers |-> content[b]]
    BY DEF RingTypes
  <2>2. DOMAIN content' = DOMAIN content /\ content' = [b \in DOMAIN content |-> content'[b]]
    BY DEF Complete
  <2>3. DOMAIN content = Buffers
    BY <2>1
  <2>4. QED  BY <2>2, <2>3
<1>3. /\ sq \in Seq(Entries) /\ finished \in Seq(Cqes) /\ cq \in Seq(Cqes)
      /\ inflight \subseteq Commands /\ IsFiniteSet(inflight)
  BY DEF RingTypes
<1>4. e \in Cqes
  BY <1>3 DEF Cqes, Commands
<1> HIDE DEF e
<1>5. /\ finished' \in Seq(Cqes) /\ cq' \in Seq(Cqes)
      /\ Len(finished') + Len(cq') = Len(finished) + Len(cq) + 1
  <2>1. Len(finished) \in Nat /\ Len(cq) \in Nat
    BY <1>3, LenProperties
  <2>2. /\ Append(finished, e) \in Seq(Cqes) /\ Len(Append(finished, e)) = Len(finished) + 1
        /\ Append(cq, e) \in Seq(Cqes) /\ Len(Append(cq, e)) = Len(cq) + 1
    BY <1>3, <1>4, AppendProperties
  <2>3. CASE finished' = Append(finished, e) /\ cq' = cq
    BY <1>3, <2>1, <2>2, <2>3
  <2>4. CASE cq' = Append(cq, e) /\ finished' = finished
    BY <1>3, <2>1, <2>2, <2>4
  <2>5. QED  BY <1>1, <2>3, <2>4
<1>6. /\ IsFiniteSet(inflight') /\ Cardinality(inflight') = Cardinality(inflight) - 1
      /\ Cardinality(inflight) \in Nat /\ inflight' \subseteq Commands
  BY <1>1, <1>3, FS_RemoveElement, FS_CardinalityType
<1>7. RingTypes'
  BY <1>1, <1>2, <1>3, <1>5, <1>6 DEF RingTypes
<1>8. \A t : Outstanding(t)' = Outstanding(t)
  <2>1. TAKE t
  <2>2. /\ Occurrences(sq, ByTrk(t)) \in Nat /\ Cardinality(InFlight(t)) \in Nat
        /\ Occurrences(finished, ByTrk(t)) \in Nat /\ Occurrences(cq, ByTrk(t)) \in Nat
        /\ IsFiniteSet(InFlight(t))
    BY OutstandingParts
  <2>3. e \in ByTrk(t) <=> p.trk = t
    BY <1>4 DEF ByTrk, e
  <2>4. Occurrences(finished', ByTrk(t)) + Occurrences(cq', ByTrk(t)) =
          Occurrences(finished, ByTrk(t)) + Occurrences(cq, ByTrk(t))
            + (IF p.trk = t THEN 1 ELSE 0)
    <3>1. CASE finished' = Append(finished, e) /\ cq' = cq
      <4>1. Occurrences(Append(finished, e), ByTrk(t)) =
              Occurrences(finished, ByTrk(t)) + (IF e \in ByTrk(t) THEN 1 ELSE 0)
        BY <1>3, <1>4, OccurrencesAppend
      <4>2. QED  BY <2>2, <2>3, <3>1, <4>1
    <3>2. CASE cq' = Append(cq, e) /\ finished' = finished
      <4>1. Occurrences(Append(cq, e), ByTrk(t)) =
              Occurrences(cq, ByTrk(t)) + (IF e \in ByTrk(t) THEN 1 ELSE 0)
        BY <1>3, <1>4, OccurrencesAppend
      <4>2. QED  BY <2>2, <2>3, <3>2, <4>1
    <3>3. QED  BY <1>1, <3>1, <3>2
  <2>5. Cardinality(InFlight(t)') = Cardinality(InFlight(t)) - (IF p.trk = t THEN 1 ELSE 0)
    <3>1. CASE p.trk = t
      <4>1. InFlight(t)' = InFlight(t) \ {p} /\ p \in InFlight(t)
        BY <1>1, <3>1 DEF InFlight
      <4>2. Cardinality(InFlight(t) \ {p}) = Cardinality(InFlight(t)) - 1
        BY <2>2, <4>1, FS_RemoveElement
      <4>3. QED  BY <3>1, <4>1, <4>2
    <3>2. CASE p.trk # t
      <4>1. InFlight(t)' = InFlight(t)
        BY <1>1, <3>2 DEF InFlight
      <4>2. QED  BY <2>2, <3>2, <4>1
    <3>3. QED  BY <3>1, <3>2
  <2>6. Outstanding(t)' = Occurrences(sq, ByTrk(t)) + Cardinality(InFlight(t)')
          + Occurrences(finished', ByTrk(t)) + Occurrences(cq', ByTrk(t))
    BY <1>1 DEF Outstanding
  <2>7. Occurrences(finished', ByTrk(t)) \in Nat /\ Occurrences(cq', ByTrk(t)) \in Nat
    BY <1>5, CountIsOccurrences
  <2>8. QED  BY <2>2, <2>4, <2>5, <2>6, <2>7 DEF Outstanding
<1>9. InUse' = InUse
  <2>1. ASSUME NEW t PROVE t \in InUse' <=> t \in InUse
    BY <1>7, <1>8, OutstandingOK, OutstandingNext
  <2>2. QED  BY <2>1
<1>10. CountsOK'
  <2>1. /\ NumPendingCompletions = Len(sq) + Cardinality(inflight) + Len(finished) + Len(cq)
        /\ \A t \in Trackers : tracker[t].RemainingRequests = Outstanding(t)
    BY CountsForm
  <2>2. Len(sq) \in Nat /\ Len(finished) \in Nat /\ Len(cq) \in Nat
        /\ Len(finished') \in Nat /\ Len(cq') \in Nat
    BY <1>3, <1>5, LenProperties
  <2>3. tracker' = tracker /\ NumPendingCompletions' = NumPendingCompletions
    BY <1>1 DEF trackerVars, countVars
  <2>4. NumPendingCompletions' = Len(sq') + Cardinality(inflight') + Len(finished') + Len(cq')
    BY <1>1, <1>5, <1>6, <2>1, <2>2, <2>3
  <2>5. QED  BY <1>7, <1>8, <2>1, <2>3, <2>4, CountsNext
<1>11. Parts' \subseteq Parts
  BY <1>1 DEF Parts
<1>12. QED  BY <1>1, <1>7, <1>9, <1>10, <1>11

\* Submission changes no count and no tracker in use.
LEMMA SubmitKeeps ==
    ASSUME TypeOK, RingTypes, RequestsOK, TrackersOK, CountsOK, SlotsOK, PartsApart,
           DeviceTableConsistent, Submit \/ UNCHANGED <<sq, inflight>>,
           UNCHANGED <<finished, cq, content, tracker, NumPendingCompletions>>
    PROVE  /\ RingTypes' /\ CountsOK' /\ InUse' = InUse
           /\ \A p \in Parts' : p \in Parts \/ \E s \in ToSet(sq) : p = Command(s)
<1>1. CASE UNCHANGED <<sq, inflight>>
  <2>1. RingTypes'
    BY <1>1 DEF RingTypes
  <2>2. InUse' = InUse /\ Parts' = Parts
    BY <1>1, RingSame
  <2>3. CountsOK'
    BY <1>1, <2>1, CountsSame
  <2>4. QED  BY <2>1, <2>2, <2>3
<1>2. CASE Submit
  <2>1. /\ sq' = <<>> /\ sq' \in Seq(Entries) /\ inflight' \subseteq Commands
        /\ IsFiniteSet(inflight') /\ Cardinality(inflight') = Cardinality(inflight) + Len(sq)
        /\ \A t : Cardinality(InFlight(t)') =
                    Cardinality(InFlight(t)) + Occurrences(sq, ByTrk(t))
        /\ \A t : Occurrences(sq', ByTrk(t)) = 0
        /\ \A p \in Parts' : p \in inflight \/ \E s \in ToSet(sq) : p = Command(s)
    BY <1>2, SubmitEffects
  <2>2. RingTypes'
    BY <2>1 DEF RingTypes
  <2>3. \A t : Outstanding(t)' = Outstanding(t)
    <3>1. TAKE t
    <3>2. /\ Occurrences(sq, ByTrk(t)) \in Nat /\ Cardinality(InFlight(t)) \in Nat
          /\ Occurrences(finished, ByTrk(t)) \in Nat /\ Occurrences(cq, ByTrk(t)) \in Nat
      BY OutstandingParts
    <3>3. Outstanding(t)' = Occurrences(sq', ByTrk(t)) + Cardinality(InFlight(t)')
            + Occurrences(finished, ByTrk(t)) + Occurrences(cq, ByTrk(t))
      BY DEF Outstanding
    <3>4. QED  BY <2>1, <3>2, <3>3 DEF Outstanding
  <2>4. InUse' = InUse
    <3>1. ASSUME NEW t PROVE t \in InUse' <=> t \in InUse
      BY <2>2, <2>3, OutstandingOK, OutstandingNext
    <3>2. QED  BY <3>1
  <2>5. CountsOK'
    <3>1. /\ NumPendingCompletions = Len(sq) + Cardinality(inflight) + Len(finished) + Len(cq)
          /\ \A t \in Trackers : tracker[t].RemainingRequests = Outstanding(t)
      BY CountsForm
    <3>2. Len(sq) \in Nat /\ Cardinality(inflight) \in Nat /\ Len(finished) \in Nat
          /\ Len(cq) \in Nat
      BY LenProperties, FS_CardinalityType DEF RingTypes
    <3>3. Len(sq') = 0
      BY <2>1, EmptySeq
    <3>4. NumPendingCompletions' =
            Len(sq') + Cardinality(inflight') + Len(finished') + Len(cq')
      BY <2>1, <3>1, <3>2, <3>3
    <3>5. QED  BY <2>2, <2>3, <3>1, <3>4, CountsNext
  <2>6. QED  BY <2>1, <2>2, <2>4, <2>5 DEF Parts
<1>3. QED  BY <1>1, <1>2

\* Nor does the kernel when it posts what has finished.
LEMMA PollKeeps ==
    ASSUME RingTypes, CountsOK, Poll
    PROVE  RingTypes' /\ CountsOK' /\ InUse' = InUse /\ Parts' = Parts
<1>1. /\ cq = <<>> /\ cq' = finished /\ finished' = <<>>
      /\ UNCHANGED <<sq, inflight, content, tracker, NumPendingCompletions>>
  BY DEF Poll, memoryVars, trackerVars, countVars
<1>2. RingTypes'
  <2>1. <<>> \in Seq(Cqes)
    BY EmptySeq
  <2>2. QED  BY <1>1, <2>1 DEF RingTypes
<1>3. \A t : Outstanding(t)' = Outstanding(t)
  <2>1. TAKE t
  <2>2. Occurrences(cq, ByTrk(t)) = 0 /\ Occurrences(finished', ByTrk(t)) = 0
    BY <1>1, OccurrencesEmpty
  <2>3. InFlight(t)' = InFlight(t)
    BY <1>1 DEF InFlight
  <2>4. /\ Occurrences(sq, ByTrk(t)) \in Nat /\ Cardinality(InFlight(t)) \in Nat
        /\ Occurrences(finished, ByTrk(t)) \in Nat
    BY OutstandingParts
  <2>5. Outstanding(t)' = Occurrences(sq, ByTrk(t)) + Cardinality(InFlight(t))
          + Occurrences(finished', ByTrk(t)) + Occurrences(finished, ByTrk(t))
    BY <1>1, <2>3 DEF Outstanding
  <2>6. QED  BY <2>2, <2>4, <2>5 DEF Outstanding
<1>4. InUse' = InUse
  <2>1. ASSUME NEW t PROVE t \in InUse' <=> t \in InUse
    BY <1>2, <1>3, OutstandingOK, OutstandingNext
  <2>2. QED  BY <2>1
<1>5. CountsOK'
  <2>1. /\ NumPendingCompletions = Len(sq) + Cardinality(inflight) + Len(finished) + Len(cq)
        /\ \A t \in Trackers : tracker[t].RemainingRequests = Outstanding(t)
    BY CountsForm
  <2>2. Len(sq) \in Nat /\ Cardinality(inflight) \in Nat /\ Len(finished) \in Nat
        /\ Len(<<>>) = 0
    BY LenProperties, FS_CardinalityType, EmptySeq DEF RingTypes
  <2>3. NumPendingCompletions' = Len(sq') + Cardinality(inflight') + Len(finished') + Len(cq')
    BY <1>1, <2>1, <2>2
  <2>4. QED  BY <1>1, <1>2, <1>3, <2>1, <2>3, CountsNext
<1>6. Parts' = Parts
  BY <1>1 DEF Parts
<1>7. QED  BY <1>2, <1>4, <1>5, <1>6

\* The start extent of the read in hand, and the tracker it gets.
LEMMA PrepareEffects ==
    ASSUME TypeOK, RingTypes, ControlOK, RequestsOK, TrackersOK, CountsOK,
           NEW r \in Requests, PrepareRequestNvme(r)
    PROVE  LET b == buffer[r]
               rd == read[r]
               file == FileExtents[rd.file]
               start == FindStartExtent(file, AlignedOffset(rd))
           IN  /\ pc = "issue" /\ r = NextRequest /\ status[r] = "accepted" /\ ~Tracked(r)
               /\ b \in Buffers /\ rd \in Reads /\ Layout(file)
               /\ moved' = [moved EXCEPT ![b] = Rewound(b)]
               /\ FixupOffset' = [FixupOffset EXCEPT ![b] = FixupOf(rd)]
               /\ UNCHANGED <<read, buffer, partFailed, fileVars, deviceVars, content, from,
                              NextRequest, AcquiredBuffer, countVars, ringVars>>
               /\ \A q \in Requests \ {r} : status'[q] = status[q]
               /\ \/ /\ pc' = "submit" /\ status'[r] = "completed"
                     /\ StartMissing(file, AlignedOffset(rd))
                     /\ UNCHANGED <<tracker, split>> /\ bFailed' = bFailed \cup {r}
                  \/ /\ pc' = "split" /\ UNCHANGED <<status, bFailed>>
                     /\ ~StartMissing(file, AlignedOffset(rd))
                     /\ Tracker \in Trackers \ InUse /\ tracker[Tracker].req = None
                     /\ ~Contains(PoolLeft, Tracker)
                     /\ \A t \in Trackers : tracker'[t].req =
                           IF t = Tracker THEN r ELSE tracker[t].req
                     /\ split' = [trk |-> Tracker, start |-> start, extent |-> start,
                                  ptr |-> Rewound(b),
                                  remaining |-> AlignedSize(rd) \div BlockSize]
               /\ NvmeRequestPool' = PoolLeft /\ NvmeRequestPool' \in Seq(Trackers)
               /\ \A i \in DOMAIN NvmeRequestPool' : i \in DOMAIN NvmeRequestPool
                                         /\ NvmeRequestPool'[i] = NvmeRequestPool[i]
               /\ TypeOK' /\ RingTypes' /\ CountsOK' /\ InUse' = InUse /\ Parts' = Parts
<1> DEFINE b == buffer[r]
           rd == read[r]
           file == FileExtents[rd.file]
           start == FindStartExtent(file, AlignedOffset(rd))
<1>1. pc = "issue" /\ r = NextRequest /\ status[r] = "accepted" /\ ~Tracked(r)
      /\ b \in Buffers
  BY DEF PrepareRequestNvme, ControlOK, InHand
<1>2. rd \in Reads /\ rd.file \in Files /\ FixupOf(rd) \in Nat
  <2>1. rd \in Reads
    BY <1>1 DEF RequestsOK
  <2>2. FixupOf(rd) \in 0 .. BlockSize - 1 /\ rd.file \in Files
    BY <2>1, AlignedRead
  <2>3. QED  BY <2>1, <2>2, ExtentConstants
<1>3. Extents(rd.file) = file /\ Layout(file)
  BY <1>2, ExtentsOfFile
<1>4. /\ moved' = [moved EXCEPT ![b] = Rewound(b)]
      /\ FixupOffset' = [FixupOffset EXCEPT ![b] = FixupOf(rd)]
      /\ UNCHANGED <<read, buffer, partFailed, fileVars, deviceVars, content, from,
                     NextRequest, AcquiredBuffer, countVars, ringVars>>
      /\ NvmeRequestPool' = PoolLeft
  BY DEF PrepareRequestNvme
<1>5. \/ /\ StartMissing(file, AlignedOffset(rd))
         /\ status' = [status EXCEPT ![r] = "completed"]
         /\ bFailed' = bFailed \cup {r} /\ pc' = "submit" /\ UNCHANGED <<tracker, split>>
      \/ /\ ~StartMissing(file, AlignedOffset(rd))
         /\ tracker' = [tracker EXCEPT ![Tracker] = [req |-> r, RemainingRequests |-> 0]]
         /\ split' = [trk |-> Tracker, start |-> start, extent |-> start,
                      ptr |-> Rewound(b), remaining |-> AlignedSize(rd) \div BlockSize]
         /\ pc' = "split" /\ UNCHANGED <<status, bFailed>>
  BY <1>3 DEF PrepareRequestNvme
<1>6. /\ Tracker \in Trackers \ InUse /\ tracker[Tracker].req = None
      /\ ~Contains(PoolLeft, Tracker)
  BY <1>1, TrackerIsFree
<1>7. /\ tracker \in [Trackers -> [req : Requests \cup {None}, RemainingRequests : Int]]
      /\ status \in [Requests -> {"idle", "queued", "accepted", "completed"}]
      /\ NvmeRequestPool \in Seq(Trackers) /\ bFailed \subseteq Requests
      /\ moved \in [Buffers -> Int] /\ FixupOffset \in [Buffers -> Nat]
  BY DEF TypeOK
<1>8. /\ \A q \in Requests \ {r} : status'[q] = status[q]
      /\ status' \in [Requests -> {"idle", "queued", "accepted", "completed"}]
      /\ pc' = "submit" => status'[r] = "completed"
  BY <1>5, <1>7
<1>9. /\ PoolLeft \in Seq(Trackers)
      /\ \A i \in DOMAIN PoolLeft : i \in DOMAIN NvmeRequestPool
                                    /\ PoolLeft[i] = NvmeRequestPool[i]
  <2>1. CASE NvmeRequestPool = <<>>
    BY <1>7, <2>1 DEF PoolLeft
  <2>2. CASE NvmeRequestPool # <<>>
    <3> DEFINE s == NvmeRequestPool
    <3>1. /\ Front(s) \in Seq(Trackers) /\ Len(Front(s)) = Len(s) - 1
          /\ \A j \in 1 .. Len(s) - 1 : Front(s)[j] = s[j]
          /\ Len(s) \in 1 .. Len(s)
      BY <1>7, <2>2, FrontLastProperties
    <3>2. PoolLeft = Front(s)
      BY <2>2 DEF PoolLeft
    <3>3. DOMAIN s = 1 .. Len(s) /\ DOMAIN Front(s) = 1 .. Len(Front(s)) /\ Len(s) \in Nat
      BY <1>7, <3>1, LenProperties
    <3>4. QED  BY <3>1, <3>2, <3>3
  <2>3. QED  BY <2>1, <2>2
<1>10. \/ UNCHANGED tracker
       \/ /\ \A t \in Trackers : tracker'[t].req = IF t = Tracker THEN r ELSE tracker[t].req
          /\ \A t \in Trackers : tracker'[t].RemainingRequests =
                IF t = Tracker THEN 0 ELSE tracker[t].RemainingRequests
          /\ tracker' \in [Trackers -> [req : Requests \cup {None}, RemainingRequests : Int]]
  <2>1. CASE tracker' = [tracker EXCEPT ![Tracker] = [req |-> r, RemainingRequests |-> 0]]
    <3>1. \A t \in Trackers : tracker'[t] = IF t = Tracker
                THEN [req |-> r, RemainingRequests |-> 0] ELSE tracker[t]
      BY <1>6, <1>7, <2>1
    <3>2. DOMAIN tracker' = Trackers /\ tracker' = [t \in Trackers |-> tracker'[t]]
      BY <1>7, <2>1
    <3>3. \A t \in Trackers :
             tracker'[t] \in [req : Requests \cup {None}, RemainingRequests : Int]
      <4>1. [req |-> r, RemainingRequests |-> 0]
              \in [req : Requests \cup {None}, RemainingRequests : Int]
        OBVIOUS
      <4>2. TAKE t \in Trackers
      <4>3. tracker[t] \in [req : Requests \cup {None}, RemainingRequests : Int]
        BY <1>7
      <4>4. QED  BY <3>1, <4>1, <4>3, Zenon
    <3>4. QED  BY <3>1, <3>2, <3>3
  <2>2. QED  BY <1>5, <2>1
<1>11. \/ UNCHANGED tracker
       \/ \A t \in Trackers : tracker'[t].req = IF t = Tracker THEN r ELSE tracker[t].req
  BY <1>10
<1>12. UNCHANGED <<sq, inflight, finished, cq, content, NumPendingCompletions>>
  BY <1>4 DEF ringVars, countVars
<1>13. RingTypes' /\ InUse' = InUse /\ Parts' = Parts /\ \A t : Outstanding(t)' = Outstanding(t)
  BY <1>12, RingSame DEF RingTypes
<1>14. CountsOK'
  <2>1. /\ NumPendingCompletions = Len(sq) + Cardinality(inflight) + Len(finished) + Len(cq)
        /\ \A t \in Trackers : tracker[t].RemainingRequests = Outstanding(t)
    BY CountsForm
  <2>2. Outstanding(Tracker) = 0
    BY <1>6, OutstandingOK
  <2>3. \A t \in Trackers : tracker'[t].RemainingRequests = Outstanding(t)'
    BY <1>10, <1>13, <2>1, <2>2
  <2>4. QED  BY <1>12, <1>13, <2>1, <2>3, CountsNext
<1>15. TypeOK'
  <2>1. tracker' \in [Trackers -> [req : Requests \cup {None}, RemainingRequests : Int]]
    BY <1>7, <1>10
  <2>2. Rewound(b) \in Int
    BY <1>1, <1>7 DEF Rewound
  <2>3. moved' \in [Buffers -> Int] /\ FixupOffset' \in [Buffers -> Nat]
    BY <1>2, <1>4, <1>7, <2>2
  <2>4. bFailed' \subseteq Requests
    BY <1>5, <1>7
  <2> HIDE DEF b, rd, file, start
  <2>5. QED  BY <1>4, <1>8, <1>9, <2>1, <2>3, <2>4 DEF TypeOK, fileVars, deviceVars, countVars
<1>16. pc' = "split" => \A t \in Trackers : tracker'[t].req =
                           IF t = Tracker THEN r ELSE tracker[t].req
  <2>1. ASSUME pc' = "split"
        PROVE  tracker' = [tracker EXCEPT ![Tracker] = [req |-> r, RemainingRequests |-> 0]]
    BY <1>5, <2>1
  <2>2. QED  BY <1>6, <1>7, <2>1
<1> HIDE DEF b, rd, file, start
<1>17. QED  BY <1>1, <1>2, <1>3, <1>4, <1>5, <1>6, <1>8, <1>9, <1>13, <1>14, <1>15, <1>16
            DEF b, rd, file, start

-----------------------------------------------------------------------------
(* Types and counts are kept                                                 *)

-----------------------------------------------------------------------------
(* The parts of the invariant, step by step                                  *)

\* Types, and the counts of commands.
LEMMA TypeStep ==
    ASSUME IInv, Next
    PROVE  TypeOK' /\ RingTypes' /\ CountsOK'
<1>0. /\ TypeOK /\ RingTypes /\ ControlOK /\ RequestsOK /\ RegisteredOK
      /\ DeviceTableConsistent /\ SlotsOK /\ TrackersOK /\ CountsOK /\ PartsApart /\ SplitOK
  BY DEF IInv
<1>a. ASSUME UNCHANGED <<tracker, NumPendingCompletions, ringVars>>,
             content' = [b \in Buffers |-> content'[b]]
      PROVE  RingTypes' /\ CountsOK'
  <2>1. UNCHANGED <<sq, inflight, finished, cq>>
    BY <1>a DEF ringVars
  <2>2. RingTypes'
    BY <1>0, <1>a, <2>1, RingTypesSame
  <2>3. QED  BY <1>0, <1>a, <2>1, <2>2, CountsSame
<1>b. content = [b \in Buffers |-> content[b]]
  BY <1>0 DEF RingTypes
<1>1. ASSUME NEW f \in Files, OpenContainer(f) PROVE TypeOK' /\ RingTypes' /\ CountsOK'
  <2>1. TypeOK'
    BY <1>0, <1>1 DEF OpenContainer, TypeOK, requestVars, deviceVars, memoryVars,
          trackerVars, loopVars, countVars, ringVars
  <2>2. UNCHANGED <<tracker, NumPendingCompletions, ringVars, content>>
    BY <1>1 DEF OpenContainer, memoryVars, trackerVars, countVars
  <2>3. QED  BY <1>a, <1>b, <2>1, <2>2
<1>2. ASSUME NEW f \in Files, CloseContainer(f) PROVE TypeOK' /\ RingTypes' /\ CountsOK'
  <2>1. FilesToUnregister' \in Seq(Files)
    BY <1>0, <1>2, AppendProperties DEF TypeOK, CloseContainer
  <2>2. TypeOK'
    BY <1>0, <1>2, <2>1 DEF CloseContainer, TypeOK, requestVars, deviceVars, memoryVars,
          trackerVars, loopVars, countVars, ringVars
  <2>3. UNCHANGED <<tracker, NumPendingCompletions, ringVars, content>>
    BY <1>2 DEF CloseContainer, memoryVars, trackerVars, countVars
  <2>4. QED  BY <1>a, <1>b, <2>2, <2>3
<1>3. ASSUME NEW r \in Requests, NEW rd \in Reads, PushRequest(r, rd)
      PROVE  TypeOK' /\ RingTypes' /\ CountsOK'
  <2>1. TypeOK'
    BY <1>0, <1>3 DEF PushRequest, TypeOK, fileVars, deviceVars, memoryVars,
          trackerVars, loopVars, countVars, ringVars
  <2>2. UNCHANGED <<tracker, NumPendingCompletions, ringVars, content>>
    BY <1>3 DEF PushRequest, memoryVars, trackerVars, countVars
  <2>3. QED  BY <1>a, <1>b, <2>1, <2>2
<1>4. ASSUME NEW r \in Requests, ReleaseRequest(r) PROVE TypeOK' /\ RingTypes' /\ CountsOK'
  <2>1. TypeOK'
    BY <1>0, <1>4 DEF ReleaseRequest, TypeOK, fileVars, deviceVars, memoryVars,
          trackerVars, loopVars, countVars, ringVars
  <2>2. /\ UNCHANGED <<tracker, NumPendingCompletions, ringVars>>
        /\ content' = [b \in Buffers |-> IF b = buffer[r] THEN Blank ELSE content[b]]
    BY <1>4 DEF ReleaseRequest, trackerVars, countVars
  <2>3. QED  BY <1>a, <2>1, <2>2
<1>5. ASSUME NEW f \in Files, UnregisterNvmeFile(f) PROVE TypeOK' /\ RingTypes' /\ CountsOK'
  <2>1. FilesToUnregister' \in Seq(Files)
    BY <1>0, <1>5, HeadTailProperties DEF TypeOK, UnregisterNvmeFile
  <2> DEFINE d == DeviceOf[f]
  <2>2. d \in Devices
    BY NvmeConstants
  <2>3. RegisteredContainers' \in [Devices -> SUBSET Files]
    BY <1>0, <1>5, <2>2 DEF TypeOK, UnregisterNvmeFile, ContainersLeft
  <2>4. /\ FixedFd' \in [Devices -> Slots \cup {-1}] /\ FreeRegisteredFiles' \in Seq(Slots)
        /\ ktable' \in [Slots -> Devices \cup {None}]
    <3>1. CASE FixedFd[d] # -1 /\ ContainersLeft(f) = {}
      <4>1. /\ ktable' = [ktable EXCEPT ![FixedFd[d]] = None]
            /\ FreeRegisteredFiles' = SlotsAfter(d) /\ FixedFd' = [FixedFd EXCEPT ![d] = -1]
        BY <1>5, <3>1 DEF UnregisterNvmeFile
      <4>2. FixedFd[d] \in Slots
        BY <1>0, <2>2, <3>1 DEF TypeOK
      <4>3. FreeRegisteredFiles' \in Seq(Slots)
        BY <1>0, <4>1, <4>2, AppendProperties DEF TypeOK, SlotsAfter
      <4>4. QED  BY <1>0, <4>1, <4>3 DEF TypeOK
    <3>2. CASE ~(FixedFd[d] # -1 /\ ContainersLeft(f) = {})
      BY <1>0, <1>5, <3>2 DEF TypeOK, UnregisterNvmeFile
    <3>3. QED  BY <3>1, <3>2
  <2>5. UNCHANGED <<requestVars, containers, memoryVars, trackerVars, loopVars,
                    countVars, ringVars>>
    BY <1>5 DEF UnregisterNvmeFile
  <2>6. TypeOK'
    BY <1>0, <2>1, <2>3, <2>4, <2>5 DEF TypeOK, requestVars, memoryVars, trackerVars,
          loopVars, countVars
  <2>7. UNCHANGED <<tracker, NumPendingCompletions, ringVars, content>>
    BY <2>5 DEF memoryVars, trackerVars, countVars
  <2>8. QED  BY <1>a, <1>b, <2>6, <2>7
<1>6. CASE EnterRequestLoop \/ NothingToWaitFor \/ ServiceWait
  <2>1. UNCHANGED <<requestVars, fileVars, deviceVars, memoryVars, trackerVars,
                   NextRequest, AcquiredBuffer, countVars, ringVars>>
    BY <1>6 DEF EnterRequestLoop, NothingToWaitFor, ServiceWait
  <2>2. TypeOK'
    BY <1>0, <2>1 DEF TypeOK, requestVars, fileVars, deviceVars, memoryVars, trackerVars,
          countVars
  <2>3. UNCHANGED <<tracker, NumPendingCompletions, ringVars, content>>
    BY <2>1 DEF memoryVars, trackerVars, countVars
  <2>4. QED  BY <1>a, <1>b, <2>2, <2>3
<1>7. ASSUME NEW b \in Buffers \cup {None}, NoNextRequest(b)
      PROVE  TypeOK' /\ RingTypes' /\ CountsOK'
  <2>1. /\ Submit \/ UNCHANGED <<sq, inflight>>
        /\ UNCHANGED <<requestVars, fileVars, deviceVars, memoryVars, trackerVars,
                   NextRequest, split, NumPendingCompletions, finished, cq>>
        /\ AcquiredBuffer' = b
        /\ numPendingSubmits' = numPendingSubmits \/ numPendingSubmits' = 0
    BY <1>7 DEF NoNextRequest, Submit
  <2>2. numPendingSubmits' \in 0 .. GBatchSubmitSize - 1
    BY <1>0, <2>1, NvmeConstants DEF TypeOK
  <2>3. TypeOK'
    BY <1>0, <2>1, <2>2 DEF TypeOK, requestVars, fileVars, deviceVars, memoryVars, trackerVars
  <2>4. QED  BY <1>0, <2>1, <2>3, SubmitKeeps DEF memoryVars, trackerVars
<1>8. ASSUME NEW r \in Requests, NEW b \in Buffers, GetNextRequest(r, b)
      PROVE  TypeOK' /\ RingTypes' /\ CountsOK'
  <2>1. TypeOK'
    BY <1>0, <1>8 DEF GetNextRequest, TypeOK, fileVars, deviceVars, memoryVars,
          trackerVars, countVars, ringVars
  <2>2. UNCHANGED <<tracker, NumPendingCompletions, ringVars, content>>
    BY <1>8 DEF GetNextRequest, memoryVars, trackerVars, countVars
  <2>3. QED  BY <1>a, <1>b, <2>1, <2>2
<1>9. ASSUME NEW r \in Requests, NEW ok \in BOOLEAN, RegisterNvmeFile(r, ok)
      PROVE  TypeOK' /\ RingTypes' /\ CountsOK'
  <2> DEFINE f == read[r].file
             d == DeviceOf[f]
             s == FreeRegisteredFiles
  <2>1. r = NextRequest /\ pc = "open"
    BY <1>9 DEF RegisterNvmeFile
  <2>2. f \in Files /\ d \in Devices
    <3>1. status[r] = "accepted"
      BY <1>0, <2>1 DEF ControlOK, InHand
    <3>2. read[r] \in Reads
      BY <1>0, <3>1 DEF RequestsOK
    <3>3. QED  BY <3>2, ReadsFit, NvmeConstants
  <2>3. RegisteredContainers' \in [Devices -> SUBSET Files]
    <3>1. \/ RegisteredContainers' = [RegisteredContainers EXCEPT ![d] = @ \cup {f}]
          \/ RegisteredContainers' = RegisteredContainers
      BY <1>9 DEF RegisterNvmeFile
    <3> HIDE DEF f, d
    <3>2. RegisteredContainers \in [Devices -> SUBSET Files]
      BY <1>0 DEF TypeOK
    <3>3. RegisteredContainers[d] \cup {f} \in SUBSET Files
      BY <2>2, <3>2
    <3>4. QED  BY <2>2, <3>1, <3>2, <3>3
  <2>4. /\ status' \in [Requests -> {"idle", "queued", "accepted", "completed"}]
        /\ bFailed' \subseteq Requests /\ NextRequest' \in Requests \cup {None}
    BY <1>0, <1>9 DEF RegisterNvmeFile, OnRequestComplete, TypeOK
  <2>5. /\ FixedFd' \in [Devices -> Slots \cup {-1}] /\ FreeRegisteredFiles' \in Seq(Slots)
        /\ ktable' \in [Slots -> Devices \cup {None}]
    <3>1. \/ UNCHANGED <<FixedFd, ktable, FreeRegisteredFiles>>
          \/ /\ s # <<>> /\ FixedFd' = [FixedFd EXCEPT ![d] = Last(s)]
             /\ ktable' = [ktable EXCEPT ![Last(s)] = d]
             /\ FreeRegisteredFiles' = Front(s)
      BY <1>9 DEF RegisterNvmeFile
    <3>2. ASSUME s # <<>> PROVE Last(s) \in Slots /\ Front(s) \in Seq(Slots)
      BY <1>0, <3>2, FrontLastProperties DEF TypeOK
    <3>3. QED  BY <1>0, <2>2, <3>1, <3>2 DEF TypeOK
  <2>6. UNCHANGED <<read, buffer, partFailed, fileVars, memoryVars, trackerVars,
                    AcquiredBuffer, countVars, ringVars>>
    BY <1>9 DEF RegisterNvmeFile
  <2>7. TypeOK'
    BY <1>0, <2>3, <2>4, <2>5, <2>6 DEF TypeOK, fileVars, memoryVars, trackerVars, countVars
  <2>8. UNCHANGED <<tracker, NumPendingCompletions, ringVars, content>>
    BY <2>6 DEF memoryVars, trackerVars, countVars
  <2>9. QED  BY <1>a, <1>b, <2>7, <2>8
<1>10. ASSUME NEW r \in Requests, NEW hit \in BOOLEAN, AllocateMemory(r, hit)
       PROVE  TypeOK' /\ RingTypes' /\ CountsOK'
  <2>1. /\ buffer' = [buffer EXCEPT ![r] = AcquiredBuffer] /\ AcquiredBuffer' = None
        /\ UNCHANGED <<read, bFailed, partFailed, fileVars, deviceVars, moved, FixupOffset,
                       trackerVars, countVars, ringVars>>
        /\ \/ status' = [status EXCEPT ![r] = "completed"] /\ NextRequest' = None
           \/ UNCHANGED <<status, NextRequest>>
    BY <1>10 DEF AllocateMemory, OnRequestComplete
  <2>2. TypeOK'
    BY <1>0, <2>1 DEF TypeOK, fileVars, deviceVars, trackerVars, countVars
  <2>3. content' = [b \in Buffers |-> content'[b]]
    BY <1>b, <1>10 DEF AllocateMemory
  <2>4. UNCHANGED <<tracker, NumPendingCompletions, ringVars>>
    BY <2>1 DEF trackerVars, countVars
  <2>5. QED  BY <1>a, <2>2, <2>3, <2>4
<1>11. ASSUME NEW r \in Requests, PrepareRequestNvme(r)
       PROVE  TypeOK' /\ RingTypes' /\ CountsOK'
  BY <1>0, <1>11, PrepareEffects
<1>12. ASSUME NEW r \in Requests, PreparePart(r)
       PROVE  TypeOK' /\ RingTypes' /\ CountsOK'
  <2>1. /\ RingTypes' /\ CountsOK'
        /\ tracker' \in [Trackers -> [req : Requests \cup {None}, RemainingRequests : Int]]
        /\ UNCHANGED <<requestVars, fileVars, deviceVars, memoryVars, NvmeRequestPool,
                       NextRequest, AcquiredBuffer, numPendingSubmits>>
    BY <1>0, <1>12, PartEffects
  <2>2. NumPendingCompletions' \in Nat
    BY <1>0, <1>12 DEF PreparePart, TypeOK
  <2>3. TypeOK'
    BY <1>0, <2>1, <2>2 DEF TypeOK, requestVars, fileVars, deviceVars, memoryVars
  <2>4. QED  BY <2>1, <2>3
<1>13. ASSUME NEW r \in Requests, SubmitRequest(r)
       PROVE  TypeOK' /\ RingTypes' /\ CountsOK'
  <2>1. /\ Submit \/ UNCHANGED <<sq, inflight>>
        /\ UNCHANGED <<requestVars, fileVars, deviceVars, memoryVars, trackerVars,
                       AcquiredBuffer, split, NumPendingCompletions, finished, cq>>
        /\ NextRequest' = None
        /\ \/ numPendingSubmits' = 0
           \/ numPendingSubmits' = numPendingSubmits + 1
              /\ numPendingSubmits + 1 < GBatchSubmitSize
    BY <1>13 DEF SubmitRequest, Submit
  <2>2. numPendingSubmits' \in 0 .. GBatchSubmitSize - 1
    BY <1>0, <2>1, NvmeConstants DEF TypeOK
  <2>3. TypeOK'
    BY <1>0, <2>1, <2>2 DEF TypeOK, requestVars, fileVars, deviceVars, memoryVars, trackerVars
  <2>4. QED  BY <1>0, <2>1, <2>3, SubmitKeeps DEF memoryVars, trackerVars
<1>14. CASE SubmissionQueueFull
  <2>1. /\ Submit
        /\ UNCHANGED <<requestVars, fileVars, deviceVars, memoryVars, trackerVars, loopVars,
                       NumPendingCompletions, finished, cq>>
        /\ numPendingSubmits' = 0
    BY <1>14 DEF SubmissionQueueFull, Submit
  <2>2. numPendingSubmits' \in 0 .. GBatchSubmitSize - 1
    BY <1>0, <2>1, NvmeConstants DEF TypeOK
  <2>3. TypeOK'
    BY <1>0, <2>1, <2>2 DEF TypeOK, requestVars, fileVars, deviceVars, memoryVars,
          trackerVars, loopVars
  <2>4. QED  BY <1>0, <2>1, <2>3, SubmitKeeps DEF memoryVars, trackerVars
<1>15. CASE Poll
  <2>1. UNCHANGED <<requestVars, fileVars, deviceVars, memoryVars, trackerVars, loopVars,
                    countVars>>
    BY <1>15 DEF Poll
  <2>2. TypeOK'
    BY <1>0, <2>1 DEF TypeOK, requestVars, fileVars, deviceVars, memoryVars, trackerVars,
          loopVars, countVars
  <2>3. QED  BY <1>0, <1>15, <2>2, PollKeeps
<1>16. CASE ProcessCompletedRequests \/ WaitCqe
  <2>1. ASSUME NEW cqes, Reaps(cqes) PROVE TypeOK' /\ RingTypes' /\ CountsOK'
    BY <1>0, <2>1, ReapEffects
  <2>2. CASE UNCHANGED <<requestVars, fileVars, deviceVars, memoryVars, trackerVars,
                         NextRequest, AcquiredBuffer, split, countVars, ringVars>>
    <3>1. TypeOK'
      BY <1>0, <2>2 DEF TypeOK, requestVars, fileVars, deviceVars, memoryVars, trackerVars,
            countVars
    <3>2. UNCHANGED <<tracker, NumPendingCompletions, ringVars, content>>
      BY <2>2 DEF memoryVars, trackerVars, countVars
    <3>3. QED  BY <1>a, <1>b, <3>1, <3>2
  <2>3. QED  BY <1>0, <1>16, <2>1, <2>2, ReapCases
<1>17. ASSUME NEW p \in inflight, NEW ok \in BOOLEAN, Complete(p, ok)
       PROVE  TypeOK' /\ RingTypes' /\ CountsOK'
  <2>1. /\ RingTypes' /\ CountsOK'
        /\ UNCHANGED <<status, read, bFailed, buffer, fileVars, deviceVars, moved,
                       FixupOffset, trackerVars, loopVars, countVars>>
    BY <1>0, <1>17, CompleteEffects
  <2>2. partFailed' \subseteq Requests
    <3>1. p.trk \in InUse
      BY DEF InUse
    <3>2. tracker[p.trk].req \in Requests
      BY <1>0, <3>1, InUseIsTracked
    <3>3. QED  BY <1>0, <1>17, <3>2 DEF Complete, TypeOK
  <2>3. TypeOK'
    BY <1>0, <2>1, <2>2 DEF TypeOK, fileVars, deviceVars, trackerVars, loopVars, countVars
  <2>4. QED  BY <2>1, <2>3
<1>18. QED
  <2>1. CASE Engine
    BY <2>1, <1>1, <1>2, <1>3, <1>4 DEF Engine
  <2>2. CASE Service
    BY <2>2, <1>5, <1>6, <1>7, <1>8, <1>9, <1>10, <1>11, <1>12, <1>13, <1>14, <1>15, <1>16
       DEF Service
  <2>3. QED  BY <2>1, <2>2, <1>17 DEF Next

-----------------------------------------------------------------------------
(* Requests and buffers                                                      *)

\* Requests and the containers they read.
LEMMA RequestsStep ==
    ASSUME IInv, Next
    PROVE  RequestsOK'
<1>0. TypeOK /\ RingTypes /\ ControlOK /\ RequestsOK /\ TrackersOK /\ CountsOK
  BY DEF IInv
<1>1. ASSUME UNCHANGED <<read, containers, FilesToUnregister, buffer>>,
             \A r \in Requests : status'[r] = status[r]
                \/ (status[r] \in {"queued", "accepted"} /\ status'[r] \in {"accepted", "completed"})
      PROVE  RequestsOK'
  BY <1>0, <1>1 DEF RequestsOK
<1>2. ASSUME UNCHANGED <<requestVars, fileVars>> PROVE RequestsOK'
  BY <1>1, <1>2 DEF requestVars, fileVars
<1>3. ASSUME NEW f \in Files, OpenContainer(f) PROVE RequestsOK'
  <2>1. containers' = containers \cup {f} /\ ~Contains(FilesToUnregister, f)
        /\ UNCHANGED <<status, read, buffer, FilesToUnregister>>
    BY <1>3 DEF OpenContainer, requestVars
  <2>2. QED  BY <1>0, <2>1 DEF RequestsOK
<1>4. ASSUME NEW f \in Files, CloseContainer(f) PROVE RequestsOK'
  <2>1. containers' = containers \ {f} /\ FilesToUnregister' = Append(FilesToUnregister, f)
        /\ UNCHANGED <<status, read, buffer>>
        /\ \A r \in Requests : status[r] \in {"queued", "accepted"} => read[r].file # f
    BY <1>4 DEF CloseContainer, requestVars
  <2>2. ASSUME NEW g \in containers' PROVE ~Contains(FilesToUnregister', g)
    <3>1. ~Contains(FilesToUnregister, g) /\ g # f
      BY <1>0, <2>1, <2>2 DEF RequestsOK
    <3>2. /\ FilesToUnregister \in Seq(Files) /\ Len(FilesToUnregister) \in Nat
          /\ Len(FilesToUnregister') = Len(FilesToUnregister) + 1
          /\ \A i \in 1 .. Len(FilesToUnregister) : FilesToUnregister'[i] = FilesToUnregister[i]
          /\ FilesToUnregister'[Len(FilesToUnregister) + 1] = f
      BY <1>0, <2>1, AppendProperties, LenProperties DEF TypeOK
    <3>3. \A i \in 1 .. Len(FilesToUnregister') :
             i \in 1 .. Len(FilesToUnregister) \/ i = Len(FilesToUnregister) + 1
      BY <3>2
    <3>4. QED  BY <3>1, <3>2, <3>3 DEF Contains
  <2>3. QED  BY <1>0, <2>1, <2>2 DEF RequestsOK
<1>5. ASSUME NEW r \in Requests, NEW rd \in Reads, PushRequest(r, rd) PROVE RequestsOK'
  BY <1>0, <1>5 DEF PushRequest, RequestsOK, TypeOK, fileVars
<1>6. ASSUME NEW r \in Requests, ReleaseRequest(r) PROVE RequestsOK'
  BY <1>0, <1>6 DEF ReleaseRequest, RequestsOK, TypeOK, fileVars
<1>7. ASSUME NEW f \in Files, UnregisterNvmeFile(f) PROVE RequestsOK'
  <2>1. FilesToUnregister' = Tail(FilesToUnregister) /\ FilesToUnregister # <<>>
        /\ UNCHANGED <<requestVars, containers>>
    BY <1>7 DEF UnregisterNvmeFile
  <2>2. /\ FilesToUnregister \in Seq(Files) /\ Len(FilesToUnregister) \in Nat
        /\ Len(FilesToUnregister') = Len(FilesToUnregister) - 1
        /\ \A i \in 1 .. Len(FilesToUnregister') : FilesToUnregister'[i] = FilesToUnregister[i + 1]
    BY <1>0, <2>1, HeadTailProperties, LenProperties DEF TypeOK
  <2>3. \A i \in 1 .. Len(FilesToUnregister') : i + 1 \in 1 .. Len(FilesToUnregister)
    BY <2>2
  <2>4. \A g \in containers' : ~Contains(FilesToUnregister', g)
    BY <1>0, <2>1, <2>2, <2>3 DEF RequestsOK, Contains
  <2>5. QED  BY <1>0, <2>1, <2>4 DEF RequestsOK, requestVars
<1>8. ASSUME NEW b \in Buffers \cup {None}, NoNextRequest(b) PROVE RequestsOK'
  BY <1>2, <1>8 DEF NoNextRequest
<1>9. ASSUME NEW r \in Requests, NEW b \in Buffers, GetNextRequest(r, b) PROVE RequestsOK'
  <2>1. UNCHANGED <<read, containers, FilesToUnregister, buffer>>
        /\ status[r] = "queued" /\ status' = [status EXCEPT ![r] = "accepted"]
    BY <1>9 DEF GetNextRequest, fileVars
  <2>2. QED  BY <1>0, <1>1, <2>1 DEF TypeOK
<1>10. ASSUME NEW r \in Requests, NEW ok \in BOOLEAN, RegisterNvmeFile(r, ok) PROVE RequestsOK'
  <2>1. UNCHANGED <<read, containers, FilesToUnregister, buffer>>
        /\ r = NextRequest /\ pc = "open"
        /\ (status' = status \/ status' = [status EXCEPT ![r] = "completed"])
    BY <1>10 DEF RegisterNvmeFile, OnRequestComplete, fileVars
  <2>2. status[r] = "accepted"
    BY <1>0, <2>1 DEF ControlOK, InHand
  <2>3. QED  BY <1>0, <1>1, <2>1, <2>2 DEF TypeOK
<1>11. ASSUME NEW r \in Requests, NEW hit \in BOOLEAN, AllocateMemory(r, hit) PROVE RequestsOK'
  <2>1. UNCHANGED <<read, containers, FilesToUnregister>>
        /\ buffer' = [buffer EXCEPT ![r] = AcquiredBuffer]
        /\ r = NextRequest /\ pc = "alloc"
        /\ (status' = status \/ status' = [status EXCEPT ![r] = "completed"])
    BY <1>11 DEF AllocateMemory, OnRequestComplete, fileVars
  <2>2. status[r] = "accepted"
    BY <1>0, <2>1 DEF ControlOK, InHand
  <2>3. QED  BY <1>0, <2>1, <2>2 DEF TypeOK, RequestsOK
<1>12. ASSUME NEW r \in Requests, PrepareRequestNvme(r) PROVE RequestsOK'
  <2>1. UNCHANGED <<read, containers, FilesToUnregister, buffer>>
        /\ r = NextRequest /\ pc = "issue"
        /\ (status' = status \/ status' = [status EXCEPT ![r] = "completed"])
    BY <1>12 DEF PrepareRequestNvme, fileVars
  <2>2. status[r] = "accepted"
    BY <1>0, <2>1 DEF ControlOK, InHand
  <2>3. QED  BY <1>0, <1>1, <2>1, <2>2 DEF TypeOK
<1>13. ASSUME NEW r \in Requests, PreparePart(r) \/ SubmitRequest(r) PROVE RequestsOK'
  BY <1>2, <1>13 DEF PreparePart, SubmitRequest
<1>14. CASE EnterRequestLoop \/ SubmissionQueueFull \/ Poll \/ NothingToWaitFor \/ ServiceWait
  BY <1>2, <1>14 DEF EnterRequestLoop, SubmissionQueueFull, Poll, NothingToWaitFor, ServiceWait
<1>15. CASE ProcessCompletedRequests \/ WaitCqe
  <2>1. ASSUME NEW cqes, Reaps(cqes) PROVE RequestsOK'
    <3>1. /\ UNCHANGED <<read, buffer, fileVars>>
          /\ \A r \in Requests : /\ r \notin Done(cqes) => status'[r] = status[r]
                                 /\ r \in Done(cqes) => status[r] = "accepted"
                                                        /\ status'[r] = "completed"
      BY <1>0, <2>1, ReapEffects
    <3>2. QED  BY <1>1, <3>1 DEF fileVars
  <2>2. QED  BY <1>0, <1>2, <1>15, <2>1, ReapCases
<1>16. ASSUME NEW p \in inflight, NEW ok \in BOOLEAN, Complete(p, ok) PROVE RequestsOK'
  <2>1. UNCHANGED <<status, read, buffer, fileVars>>
    BY <1>16 DEF Complete
  <2>2. QED  BY <1>1, <2>1 DEF fileVars
<1>17. QED
  <2>1. CASE Engine
    BY <2>1, <1>3, <1>4, <1>5, <1>6 DEF Engine
  <2>2. CASE Service
    BY <2>2, <1>7, <1>8, <1>9, <1>10, <1>11, <1>12, <1>13, <1>14, <1>15 DEF Service
  <2>3. QED  BY <2>1, <2>2, <1>16 DEF Next

\* Buffers have one holder.
LEMMA BuffersStep ==
    ASSUME IInv, Next
    PROVE  BuffersOK'
<1>0. TypeOK /\ RingTypes /\ ControlOK /\ RequestsOK /\ BuffersOK /\ TrackersOK /\ CountsOK
      /\ buffer \in [Requests -> Buffers \cup {None}] /\ None \notin Buffers
  BY NvmeConstants DEF IInv, TypeOK
<1>1. ASSUME UNCHANGED <<buffer, AcquiredBuffer>> PROVE BuffersOK'
  BY <1>0, <1>1 DEF BuffersOK
<1>2. ASSUME UNCHANGED buffer, AcquiredBuffer' \in FreeBuffers \cup {AcquiredBuffer, None}
      PROVE  BuffersOK'
  <2>1. \A r \in Requests : buffer[r] \notin FreeBuffers
    BY DEF FreeBuffers
  <2>2. QED  BY <1>0, <1>2, <2>1 DEF BuffersOK
<1>3. ASSUME NEW f \in Files, OpenContainer(f) \/ CloseContainer(f) \/ UnregisterNvmeFile(f)
      PROVE  BuffersOK'
  BY <1>1, <1>3 DEF OpenContainer, CloseContainer, UnregisterNvmeFile, requestVars, loopVars
<1>4. ASSUME NEW r \in Requests, NEW rd \in Reads, PushRequest(r, rd) PROVE BuffersOK'
  BY <1>1, <1>4 DEF PushRequest, loopVars
<1>5. ASSUME NEW r \in Requests, ReleaseRequest(r) PROVE BuffersOK'
  <2>1. buffer' = [buffer EXCEPT ![r] = None] /\ AcquiredBuffer' = AcquiredBuffer
    BY <1>5 DEF ReleaseRequest, loopVars
  <2>2. QED  BY <1>0, <2>1 DEF BuffersOK
<1>6. ASSUME NEW b \in Buffers \cup {None}, NoNextRequest(b) PROVE BuffersOK'
  BY <1>2, <1>6 DEF NoNextRequest, requestVars
<1>7. ASSUME NEW r \in Requests, NEW b \in Buffers, GetNextRequest(r, b) PROVE BuffersOK'
  BY <1>2, <1>7 DEF GetNextRequest
<1>8. ASSUME NEW r \in Requests, NEW ok \in BOOLEAN, RegisterNvmeFile(r, ok) PROVE BuffersOK'
  BY <1>1, <1>8 DEF RegisterNvmeFile
<1>9. ASSUME NEW r \in Requests, NEW hit \in BOOLEAN, AllocateMemory(r, hit) PROVE BuffersOK'
  <2>1. buffer' = [buffer EXCEPT ![r] = AcquiredBuffer] /\ AcquiredBuffer' = None
        /\ pc = "alloc" /\ r = NextRequest
    BY <1>9 DEF AllocateMemory
  <2>2. AcquiredBuffer \in Buffers /\ buffer[r] = None
    BY <1>0, <2>1 DEF ControlOK
  <2>3. QED  BY <1>0, <2>1, <2>2 DEF BuffersOK
<1>10. ASSUME NEW r \in Requests, PrepareRequestNvme(r) \/ PreparePart(r) \/ SubmitRequest(r)
       PROVE  BuffersOK'
  BY <1>1, <1>10 DEF PrepareRequestNvme, PreparePart, SubmitRequest, requestVars
<1>11. CASE EnterRequestLoop \/ SubmissionQueueFull \/ Poll \/ NothingToWaitFor \/ ServiceWait
  BY <1>1, <1>11 DEF EnterRequestLoop, SubmissionQueueFull, Poll, NothingToWaitFor, ServiceWait,
     requestVars, loopVars
<1>12. CASE ProcessCompletedRequests \/ WaitCqe
  <2>1. ASSUME NEW cqes, Reaps(cqes) PROVE BuffersOK'
    BY <1>0, <1>1, <2>1, ReapEffects
  <2>2. QED  BY <1>0, <1>1, <1>12, <2>1, ReapCases DEF requestVars
<1>13. ASSUME NEW p \in inflight, NEW ok \in BOOLEAN, Complete(p, ok) PROVE BuffersOK'
  BY <1>1, <1>13 DEF Complete, loopVars
<1>14. QED
  <2>1. CASE Engine
    BY <2>1, <1>3, <1>4, <1>5 DEF Engine
  <2>2. CASE Service
    BY <2>2, <1>3, <1>6, <1>7, <1>8, <1>9, <1>10, <1>11, <1>12 DEF Service
  <2>3. QED  BY <2>1, <2>2, <1>13 DEF Next

-----------------------------------------------------------------------------
(* The service thread                                                        *)

\* The fields of a split, and what the loop over extents makes of them.
LEMMA SplitGoesOn ==
    ASSUME TypeOK, ControlOK, RequestsOK, RegisteredOK, DeviceTableConsistent, SplitOK,
           NEW r \in Requests, PreparePart(r), pc' = "split"
    PROVE  /\ PartNum # split.remaining /\ split.extent # Len(FileExtents[PartRead.file])
           /\ split' = [trk |-> split.trk, start |-> split.start, extent |-> split.extent + 1,
                        ptr |-> split.ptr + BlockSize * PartNum,
                        remaining |-> split.remaining - PartNum]
<1>1. pc = "split" /\ r = NextRequest
  BY DEF PreparePart
<1>2. Extents(PartRead.file) = FileExtents[PartRead.file]
  BY <1>1, PartInHand
<1> DEFINE sane == \/ split.extent = split.start
                   \/ /\ AlignedOffset(PartRead) < PartExtent.LogicalOffset
                      /\ AlignedOffset(PartRead) + AlignedSize(PartRead)
                           > PartExtent.LogicalOffset
           done == PartNum = split.remaining
           atEnd == split.extent = Len(FileExtents[PartRead.file])
<1>3. /\ split' = IF done THEN NoSplit ELSE
             [split EXCEPT !.extent = @ + 1, !.remaining = @ - PartNum,
                           !.ptr = @ + BlockSize * PartNum]
      /\ pc' = CASE ~sane \/ (~done /\ atEnd) -> "fatal"
                 [] sane /\ done -> "submit"
                 [] OTHER -> "split"
  BY <1>1, <1>2 DEF PreparePart, PartRead, PartExtent, PartStart, PartNum
<1>4. ~done /\ ~atEnd
  <2> HIDE DEF sane, done, atEnd
  <2>1. CASE ~sane \/ (~done /\ atEnd)
    BY <1>3, <2>1
  <2>2. CASE ~(~sane \/ (~done /\ atEnd)) /\ (sane /\ done)
    BY <1>3, <2>2
  <2>3. CASE ~(~sane \/ (~done /\ atEnd)) /\ ~(sane /\ done)
    BY <2>3
  <2>4. QED  BY <2>1, <2>2, <2>3
<1>5. split \in [trk : Trackers, start : Nat, extent : Nat, ptr : Int, remaining : Nat \ {0}]
  BY <1>1 DEF ControlOK
<1>6. split' = [split EXCEPT !.extent = @ + 1, !.remaining = @ - PartNum,
                           !.ptr = @ + BlockSize * PartNum]
  BY <1>3, <1>4
<1> HIDE DEF sane, done, atEnd
<1>7. split' = [trk |-> split.trk, start |-> split.start, extent |-> split.extent + 1,
                ptr |-> split.ptr + BlockSize * PartNum,
                remaining |-> split.remaining - PartNum]
  BY <1>5, <1>6
<1>8. QED  BY <1>4, <1>7 DEF done, atEnd

\* Where the service thread is, and what it has in its hands.
LEMMA ControlStep ==
    ASSUME IInv, Next
    PROVE  ControlOK'
<1>0. /\ TypeOK /\ RingTypes /\ ControlOK /\ RequestsOK /\ RegisteredOK /\ BuffersOK
      /\ DeviceTableConsistent /\ TrackersOK /\ CountsOK /\ SplitOK
      /\ buffer \in [Requests -> Buffers \cup {None}] /\ None \notin Buffers
      /\ None \notin Requests
      /\ status \in [Requests -> {"idle", "queued", "accepted", "completed"}]
  BY NvmeConstants DEF IInv, TypeOK
<1>1. ASSUME UNCHANGED <<loopVars, tracker>>,
             \A r \in Requests : status[r] = "accepted" => status'[r] = "accepted"
                                                           /\ buffer'[r] = buffer[r]
      PROVE  ControlOK'
  <2>1. UNCHANGED <<pc, from, NextRequest, AcquiredBuffer, split, tracker>>
    BY <1>1 DEF loopVars
  <2>2. InHand => NextRequest \in Requests /\ status'[NextRequest] = "accepted"
                  /\ buffer'[NextRequest] = buffer[NextRequest]
    BY <1>0, <1>1 DEF ControlOK
  <2>3. InHand' = InHand
    BY <2>1 DEF InHand
  <2>4. \A r : Tracked(r)' = Tracked(r)
    BY <2>1 DEF Tracked
  <2>5. pc \in {"open", "alloc", "issue", "split"} => InHand
    BY DEF InHand
  <2>6. QED  BY <1>0, <2>1, <2>2, <2>3, <2>4, <2>5 DEF ControlOK
<1>2. ASSUME pc' \in {"start", "next", "process", "waitcqe", "wait"},
             from' \in {"request", "flush", "wait"}
      PROVE  ControlOK'
  BY <1>2 DEF ControlOK, InHand
<1>3. from \in {"request", "flush", "wait"}
  BY <1>0 DEF ControlOK
<1>4. ASSUME NEW f \in Files, OpenContainer(f) \/ CloseContainer(f) \/ UnregisterNvmeFile(f)
      PROVE  ControlOK'
  BY <1>1, <1>4 DEF OpenContainer, CloseContainer, UnregisterNvmeFile, requestVars, trackerVars
<1>5. ASSUME NEW r \in Requests, NEW rd \in Reads, PushRequest(r, rd) PROVE ControlOK'
  <2>1. /\ status[r] = "idle" /\ status' = [status EXCEPT ![r] = "queued"]
        /\ UNCHANGED <<buffer, trackerVars, loopVars>>
    BY <1>5 DEF PushRequest
  <2>2. QED  BY <1>0, <1>1, <2>1 DEF trackerVars
<1>6. ASSUME NEW r \in Requests, ReleaseRequest(r) PROVE ControlOK'
  <2>1. /\ status[r] = "completed" /\ status' = [status EXCEPT ![r] = "idle"]
        /\ buffer' = [buffer EXCEPT ![r] = None]
        /\ UNCHANGED <<trackerVars, loopVars>>
    BY <1>6 DEF ReleaseRequest
  <2>2. QED  BY <1>0, <1>1, <2>1 DEF trackerVars
<1>7. ASSUME NEW b \in Buffers \cup {None}, NoNextRequest(b) PROVE ControlOK'
  <2>1. pc' \in {"process", "waitcqe"} /\ from' \in {"flush", from}
    BY <1>7 DEF NoNextRequest
  <2>2. QED  BY <1>2, <1>3, <2>1
<1>8. ASSUME NEW r \in Requests, NEW b \in Buffers, GetNextRequest(r, b) PROVE ControlOK'
  <2>1. /\ status[r] = "queued" /\ status' = [status EXCEPT ![r] = "accepted"]
        /\ AcquiredBuffer' = b /\ NextRequest' = r /\ pc' = "open"
        /\ UNCHANGED <<buffer, trackerVars, from>>
    BY <1>8 DEF GetNextRequest
  <2>2. buffer'[r] = None /\ status'[r] = "accepted"
    BY <1>0, <2>1 DEF RequestsOK
  <2>3. ~Tracked(r)
    BY <1>0, <2>1 DEF Tracked, TrackersOK
  <2>4. ~Tracked(r)'
    BY <2>1, <2>3 DEF Tracked, trackerVars
  <2>5. QED  BY <1>3, <2>1, <2>2, <2>4 DEF ControlOK, InHand, Tracked
<1>9. ASSUME NEW r \in Requests, NEW ok \in BOOLEAN, RegisterNvmeFile(r, ok) PROVE ControlOK'
  <2>1. /\ pc = "open" /\ r = NextRequest
        /\ UNCHANGED <<buffer, trackerVars, from, AcquiredBuffer>>
        /\ \/ pc' = "next"
           \/ pc' \in {"fatal", "alloc"} /\ UNCHANGED <<status, NextRequest>>
    BY <1>9 DEF RegisterNvmeFile
  <2>2. CASE pc' = "next"
    BY <1>2, <1>3, <2>1, <2>2
  <2>3. CASE pc' \in {"fatal", "alloc"} /\ UNCHANGED <<status, NextRequest>>
    <3>1. /\ status[NextRequest] = "accepted" /\ AcquiredBuffer \in Buffers
          /\ buffer[NextRequest] = None /\ ~Tracked(NextRequest)
      BY <1>0, <2>1 DEF ControlOK, InHand
    <3>2. ~Tracked(NextRequest)'
      BY <2>1, <2>3, <3>1 DEF Tracked, trackerVars
    <3>3. QED  BY <1>3, <2>1, <2>3, <3>1, <3>2 DEF ControlOK, InHand
  <2>4. QED  BY <2>1, <2>2, <2>3
<1>10. ASSUME NEW r \in Requests, NEW hit \in BOOLEAN, AllocateMemory(r, hit) PROVE ControlOK'
  <2>1. /\ pc = "alloc" /\ r = NextRequest /\ UNCHANGED <<trackerVars, from>>
        /\ buffer' = [buffer EXCEPT ![r] = AcquiredBuffer]
        /\ \/ pc' = "next"
           \/ pc' = "issue" /\ UNCHANGED <<status, NextRequest>>
    BY <1>10 DEF AllocateMemory
  <2>2. CASE pc' = "next"
    BY <1>2, <1>3, <2>1, <2>2
  <2>3. CASE pc' = "issue" /\ UNCHANGED <<status, NextRequest>>
    <3>1. /\ status[NextRequest] = "accepted" /\ AcquiredBuffer \in Buffers
          /\ ~Tracked(NextRequest)
      BY <1>0, <2>1 DEF ControlOK, InHand
    <3>2. ~Tracked(NextRequest)'
      BY <2>1, <2>3, <3>1 DEF Tracked, trackerVars
    <3>3. buffer'[NextRequest'] \in Buffers
      BY <1>0, <2>1, <2>3, <3>1
    <3>4. QED  BY <1>3, <2>1, <2>3, <3>1, <3>2, <3>3 DEF ControlOK, InHand
  <2>4. QED  BY <2>1, <2>2, <2>3
<1>11. ASSUME NEW r \in Requests, PrepareRequestNvme(r) PROVE ControlOK'
  <2> DEFINE rd == read[r]
             file == FileExtents[rd.file]
             start == FindStartExtent(file, AlignedOffset(rd))
  <2>1. /\ r = NextRequest /\ NextRequest' = r /\ from' = from /\ buffer' = buffer
        /\ buffer[r] \in Buffers /\ rd \in Reads /\ Layout(file) /\ status[r] = "accepted"
        /\ \/ pc' = "submit"
           \/ /\ pc' = "split" /\ UNCHANGED status /\ ~StartMissing(file, AlignedOffset(rd))
              /\ Tracker \in Trackers /\ tracker'[Tracker].req = r
              /\ split' = [trk |-> Tracker, start |-> start, extent |-> start,
                           ptr |-> Rewound(buffer[r]),
                           remaining |-> AlignedSize(rd) \div BlockSize]
    BY <1>0, <1>11, PrepareEffects
  <2>2. CASE pc' = "submit"
    BY <1>3, <2>1, <2>2 DEF ControlOK, InHand
  <2>3. CASE pc' = "split"
    <3>1. start \in Nat
      <4>1. start \in 1 .. Len(file)
        BY <2>1, <2>3, StartExtent
      <4>2. Len(file) \in Nat
        BY <2>1, LayoutFacts
      <4> HIDE DEF start, file
      <4>3. QED  BY <4>1, <4>2
    <3>2. AlignedSize(rd) \div BlockSize \in Nat \ {0}
      BY <2>1, AlignedRead
    <3>3. Rewound(buffer[r]) \in Int
      BY <1>0, <2>1 DEF Rewound, TypeOK
    <3> HIDE DEF start, rd
    <3>4. split' \in [trk : Trackers, start : Nat, extent : Nat,
                      ptr : Int, remaining : Nat \ {0}] /\ split'.trk = Tracker
      BY <2>1, <2>3, <3>1, <3>2, <3>3
    <3>5. QED  BY <1>3, <2>1, <2>3, <3>4 DEF ControlOK, InHand
  <2>4. QED  BY <2>1, <2>2, <2>3
<1>12. ASSUME NEW r \in Requests, PreparePart(r) PROVE ControlOK'
  <2>1. /\ pc = "split" /\ r = NextRequest /\ pc' \in {"fatal", "split", "submit"}
        /\ UNCHANGED <<requestVars, from, NextRequest>>
        /\ \A t \in Trackers : tracker'[t].req = tracker[t].req
    BY <1>0, <1>12, PartEffects
  <2>2. /\ NextRequest \in Requests /\ status[NextRequest] = "accepted"
        /\ buffer[NextRequest] \in Buffers /\ tracker[split.trk].req = NextRequest
        /\ split.trk \in Trackers /\ split.ptr \in Int
        /\ split.remaining \in Nat \ {0} /\ PartNum \in 1 .. split.remaining
        /\ split.start \in 1 .. split.extent
        /\ split.extent \in 1 .. Len(FileExtents[PartRead.file])
        /\ Layout(FileExtents[PartRead.file])
    BY <1>0, <2>1, PartInHand
  <2>3. CASE pc' \in {"fatal", "submit"}
    BY <1>3, <2>1, <2>2, <2>3 DEF ControlOK, InHand, requestVars
  <2>4. CASE pc' = "split"
    <3>1. /\ PartNum # split.remaining
          /\ split' = [trk |-> split.trk, start |-> split.start, extent |-> split.extent + 1,
                       ptr |-> split.ptr + BlockSize * PartNum,
                       remaining |-> split.remaining - PartNum]
      BY <1>0, <1>12, <2>4, SplitGoesOn
    <3>2. split.remaining - PartNum \in Nat \ {0}
      BY <2>2, <3>1
    <3>3. split.ptr + BlockSize * PartNum \in Int
      BY <2>2, ExtentConstants
    <3>4. split.start \in Nat /\ split.extent + 1 \in Nat
      <4>1. Len(FileExtents[PartRead.file]) \in Nat
        BY <2>2, LayoutFacts
      <4>2. QED  BY <2>2, <4>1
    <3>5. split' \in [trk : Trackers, start : Nat, extent : Nat,
                      ptr : Int, remaining : Nat \ {0}] /\ split'.trk = split.trk
      BY <2>2, <3>1, <3>2, <3>3, <3>4
    <3>6. QED  BY <1>3, <2>1, <2>2, <2>4, <3>5 DEF ControlOK, InHand, requestVars
  <2>5. QED  BY <2>1, <2>3, <2>4
<1>13. ASSUME NEW r \in Requests, SubmitRequest(r) PROVE ControlOK'
  BY <1>2, <1>13 DEF SubmitRequest
<1>14. CASE SubmissionQueueFull \/ Poll
  BY <1>1, <1>14 DEF SubmissionQueueFull, Poll, requestVars, trackerVars
<1>15. CASE EnterRequestLoop \/ NothingToWaitFor \/ ServiceWait
  BY <1>2, <1>3, <1>15 DEF EnterRequestLoop, NothingToWaitFor, ServiceWait
<1>16. CASE ProcessCompletedRequests \/ WaitCqe
  <2>1. CASE ProcessCompletedRequests
    <3>1. pc' = AfterProcess /\ from' = from
      BY <2>1 DEF ProcessCompletedRequests
    <3>2. AfterProcess \in {"next", "waitcqe", "wait"}
      BY <1>3 DEF AfterProcess
    <3>3. QED  BY <1>2, <1>3, <3>1, <3>2
  <2>2. CASE WaitCqe
    BY <1>2, <2>2 DEF WaitCqe
  <2>3. QED  BY <1>16, <2>1, <2>2
<1>17. ASSUME NEW p \in inflight, NEW ok \in BOOLEAN, Complete(p, ok) PROVE ControlOK'
  BY <1>1, <1>17 DEF Complete, trackerVars
<1>18. QED
  <2>1. CASE Engine
    BY <2>1, <1>4, <1>5, <1>6 DEF Engine
  <2>2. CASE Service
    BY <2>2, <1>4, <1>7, <1>8, <1>9, <1>10, <1>11, <1>12, <1>13, <1>14, <1>15, <1>16 DEF Service
  <2>3. QED  BY <2>1, <2>2, <1>17 DEF Next

-----------------------------------------------------------------------------
(* Trackers                                                                  *)

\* What is left to show of trackers where types and counts are known.
LEMMA TrackersFrom ==
    ASSUME RingTypes', CountsOK',
           \A t \in Trackers : tracker'[t].req # None =>
              /\ status'[tracker'[t].req] = "accepted" /\ buffer'[tracker'[t].req] \in Buffers
              /\ ~Contains(NvmeRequestPool', t)
              /\ t \in InUse' \/ (pc' = "split" /\ t = split'.trk),
           \A t \in Trackers : tracker'[t].req = None => t \notin InUse',
           \A t, u \in Trackers :
              tracker'[t].req = tracker'[u].req /\ tracker'[t].req # None => t = u,
           \A i, j \in DOMAIN NvmeRequestPool' :
              NvmeRequestPool'[i] = NvmeRequestPool'[j] => i = j
    PROVE  TrackersOK'
<1>1. \A t \in Trackers : tracker'[t].req = None => tracker'[t].RemainingRequests = 0
  BY CountsNext, OutstandingNext
<1>2. QED  BY <1>1 DEF TrackersOK

\* A tracker that names no read has no commands.
LEMMA UntrackedIsUnused ==
    ASSUME RingTypes, CountsOK, TrackersOK, NEW t \in Trackers, tracker[t].req = None
    PROVE  t \notin InUse
<1>1. tracker[t].RemainingRequests = 0
  BY DEF TrackersOK
<1>2. Outstanding(t) = 0
  BY <1>1, CountsForm
<1>3. QED  BY <1>2, OutstandingOK

\* Trackers and their pool.
LEMMA TrackersStep ==
    ASSUME IInv, Next
    PROVE  TrackersOK'
<1>0. /\ TypeOK /\ RingTypes /\ ControlOK /\ RequestsOK /\ RegisteredOK
      /\ DeviceTableConsistent /\ SlotsOK /\ TrackersOK /\ CountsOK /\ PartsApart /\ SplitOK
      /\ None \notin Requests
      /\ status \in [Requests -> {"idle", "queued", "accepted", "completed"}]
      /\ buffer \in [Requests -> Buffers \cup {None}]
      /\ NvmeRequestPool \in Seq(Trackers)
  BY NvmeConstants DEF IInv, TypeOK
<1>a. TypeOK' /\ RingTypes' /\ CountsOK'
  BY TypeStep
<1>1. ASSUME UNCHANGED <<trackerVars, requestVars>>, InUse' = InUse,
             pc = "split" => UNCHANGED <<pc, split>>
      PROVE  TrackersOK'
  BY <1>0, <1>1, TrackersSame DEF trackerVars, requestVars
<1>2. ASSUME UNCHANGED <<trackerVars, ringVars>>,
             pc = "split" => UNCHANGED <<pc, split>>,
             \A r \in Requests : status[r] = "accepted" /\ Tracked(r) =>
                status'[r] = "accepted" /\ buffer'[r] = buffer[r]
      PROVE  TrackersOK'
  BY <1>0, <1>2, TrackersSame, RingSame DEF trackerVars, ringVars
<1>3. ASSUME NEW f \in Files, OpenContainer(f) \/ CloseContainer(f) \/ UnregisterNvmeFile(f)
      PROVE  TrackersOK'
  BY <1>2, <1>3 DEF OpenContainer, CloseContainer, UnregisterNvmeFile, requestVars, loopVars
<1>4. ASSUME NEW r \in Requests, NEW rd \in Reads, PushRequest(r, rd) PROVE TrackersOK'
  <2>1. /\ status[r] = "idle" /\ status' = [status EXCEPT ![r] = "queued"]
        /\ UNCHANGED <<buffer, trackerVars, loopVars, ringVars>>
    BY <1>4 DEF PushRequest
  <2>2. QED  BY <1>0, <1>2, <2>1 DEF loopVars
<1>5. ASSUME NEW r \in Requests, ReleaseRequest(r) PROVE TrackersOK'
  <2>1. /\ status[r] = "completed" /\ status' = [status EXCEPT ![r] = "idle"]
        /\ buffer' = [buffer EXCEPT ![r] = None]
        /\ UNCHANGED <<trackerVars, loopVars, ringVars>>
    BY <1>5 DEF ReleaseRequest
  <2>2. QED  BY <1>0, <1>2, <2>1 DEF loopVars
<1>6. ASSUME NEW b \in Buffers \cup {None}, NoNextRequest(b) PROVE TrackersOK'
  <2>1. /\ pc = "next" /\ (Submit \/ UNCHANGED <<sq, inflight>>)
        /\ UNCHANGED <<requestVars, memoryVars, trackerVars, NumPendingCompletions,
                       finished, cq>>
    BY <1>6 DEF NoNextRequest
  <2>2. InUse' = InUse
    BY <1>0, <2>1, SubmitKeeps DEF memoryVars, trackerVars
  <2>3. pc # "split"
    BY <2>1
  <2>4. QED  BY <1>1, <2>1, <2>2, <2>3
<1>7. ASSUME NEW r \in Requests, NEW b \in Buffers, GetNextRequest(r, b) PROVE TrackersOK'
  <2>1. /\ pc = "next" /\ status' = [status EXCEPT ![r] = "accepted"]
        /\ UNCHANGED <<buffer, trackerVars, ringVars>>
    BY <1>7 DEF GetNextRequest
  <2>2. QED  BY <1>0, <1>2, <2>1
<1>8. ASSUME NEW r \in Requests, NEW ok \in BOOLEAN, RegisterNvmeFile(r, ok) PROVE TrackersOK'
  <2>1. /\ pc = "open" /\ r = NextRequest /\ UNCHANGED <<buffer, trackerVars, ringVars>>
        /\ (status' = status \/ status' = [status EXCEPT ![r] = "completed"])
    BY <1>8 DEF RegisterNvmeFile, OnRequestComplete
  <2>2. ~Tracked(r)
    BY <1>0, <2>1 DEF ControlOK
  <2>3. QED  BY <1>0, <1>2, <2>1, <2>2
<1>9. ASSUME NEW r \in Requests, NEW hit \in BOOLEAN, AllocateMemory(r, hit) PROVE TrackersOK'
  <2>1. /\ pc = "alloc" /\ r = NextRequest /\ UNCHANGED <<trackerVars, ringVars>>
        /\ buffer' = [buffer EXCEPT ![r] = AcquiredBuffer]
        /\ (status' = status \/ status' = [status EXCEPT ![r] = "completed"])
    BY <1>9 DEF AllocateMemory, OnRequestComplete
  <2>2. ~Tracked(r)
    BY <1>0, <2>1 DEF ControlOK
  <2>3. QED  BY <1>0, <1>2, <2>1, <2>2
<1>10. ASSUME NEW r \in Requests, PrepareRequestNvme(r) PROVE TrackersOK'
  <2>1. /\ pc = "issue" /\ r = NextRequest /\ status[r] = "accepted" /\ ~Tracked(r)
        /\ buffer[r] \in Buffers /\ buffer' = buffer /\ InUse' = InUse
        /\ \A q \in Requests \ {r} : status'[q] = status[q]
        /\ \/ UNCHANGED tracker
           \/ /\ pc' = "split" /\ status' = status
              /\ Tracker \in Trackers \ InUse /\ tracker[Tracker].req = None
              /\ ~Contains(PoolLeft, Tracker)
              /\ \A t \in Trackers : tracker'[t].req = IF t = Tracker THEN r ELSE tracker[t].req
              /\ split'.trk = Tracker
        /\ NvmeRequestPool' = PoolLeft /\ NvmeRequestPool' \in Seq(Trackers)
        /\ \A i \in DOMAIN NvmeRequestPool' : i \in DOMAIN NvmeRequestPool
                                              /\ NvmeRequestPool'[i] = NvmeRequestPool[i]
    BY <1>0, <1>10, PrepareEffects
  <2>2. \A i, j \in DOMAIN NvmeRequestPool' :
           NvmeRequestPool'[i] = NvmeRequestPool'[j] => i = j
    BY <1>0, <2>1 DEF TrackersOK
  <2>3. \A t : Contains(NvmeRequestPool', t) => Contains(NvmeRequestPool, t)
    BY <1>0, <2>1, LenProperties DEF Contains
  <2>4. \A t \in Trackers : tracker[t].req # None =>
           /\ tracker[t].req # r /\ status'[tracker[t].req] = "accepted"
           /\ buffer'[tracker[t].req] \in Buffers
           /\ ~Contains(NvmeRequestPool', t) /\ t \in InUse'
    <3>1. TAKE t \in Trackers
    <3>2. HAVE tracker[t].req # None
    <3>3. tracker[t].req \in Requests \ {r}
      BY <1>0, <2>1, <3>2 DEF Tracked, TypeOK
    <3>4. QED  BY <1>0, <2>1, <2>3, <3>2, <3>3 DEF TrackersOK
  <2>5. \A t \in Trackers : tracker[t].req = None => t \notin InUse'
    BY <1>0, <2>1, UntrackedIsUnused
  <2>6. CASE UNCHANGED tracker
    BY <1>0, <1>a, <2>2, <2>4, <2>5, <2>6, TrackersFrom DEF TrackersOK
  <2>7. CASE /\ pc' = "split" /\ status' = status
             /\ Tracker \in Trackers \ InUse /\ ~Contains(PoolLeft, Tracker)
             /\ \A t \in Trackers : tracker'[t].req = IF t = Tracker THEN r ELSE tracker[t].req
             /\ split'.trk = Tracker
    <3>1. ASSUME NEW t \in Trackers, tracker'[t].req # None
          PROVE  /\ status'[tracker'[t].req] = "accepted"
                 /\ buffer'[tracker'[t].req] \in Buffers /\ ~Contains(NvmeRequestPool', t)
                 /\ t \in InUse' \/ (pc' = "split" /\ t = split'.trk)
      <4>1. CASE t = Tracker
        BY <2>1, <2>7, <4>1
      <4>2. CASE t # Tracker
        BY <2>4, <2>7, <3>1, <4>2
      <4>3. QED  BY <4>1, <4>2
    <3>2. \A t \in Trackers : tracker'[t].req = None => t \notin InUse'
      BY <1>0, <2>1, <2>5, <2>7
    <3>3. ASSUME NEW t \in Trackers, NEW u \in Trackers,
                 tracker'[t].req = tracker'[u].req, tracker'[t].req # None
          PROVE  t = u
      <4>1. r # None
        BY <1>0
      <4>2. QED  BY <1>0, <2>4, <2>7, <3>3, <4>1 DEF TrackersOK
    <3>4. QED  BY <1>a, <2>2, <3>1, <3>2, <3>3, TrackersFrom
  <2>8. QED  BY <2>1, <2>6, <2>7
<1>11. ASSUME NEW r \in Requests, PreparePart(r) PROVE TrackersOK'
  <2>1. /\ pc = "split" /\ r = NextRequest
        /\ UNCHANGED <<requestVars, NvmeRequestPool>>
        /\ \A t \in Trackers : tracker'[t].req = tracker[t].req
        /\ InUse' = InUse \cup {split.trk}
    BY <1>0, <1>11, PartEffects
  <2>2. split.trk \in Trackers /\ tracker[split.trk].req = r
    BY <1>0, <2>1, PartInHand
  <2>3. \A t \in Trackers : tracker'[t].req # None =>
           /\ status'[tracker'[t].req] = "accepted" /\ buffer'[tracker'[t].req] \in Buffers
           /\ ~Contains(NvmeRequestPool', t) /\ t \in InUse'
    BY <1>0, <2>1 DEF TrackersOK, requestVars
  <2>4. \A t \in Trackers : tracker'[t].req = None => t \notin InUse'
    BY <1>0, <2>1, <2>2, UntrackedIsUnused
  <2>5. \A t, u \in Trackers :
           tracker'[t].req = tracker'[u].req /\ tracker'[t].req # None => t = u
    BY <1>0, <2>1 DEF TrackersOK
  <2>6. QED  BY <1>0, <1>a, <2>1, <2>3, <2>4, <2>5, TrackersFrom DEF TrackersOK
<1>12. ASSUME NEW r \in Requests, SubmitRequest(r) PROVE TrackersOK'
  <2>1. /\ pc = "submit" /\ (Submit \/ UNCHANGED <<sq, inflight>>)
        /\ UNCHANGED <<requestVars, memoryVars, trackerVars, NumPendingCompletions,
                       finished, cq>>
    BY <1>12 DEF SubmitRequest
  <2>2. InUse' = InUse
    BY <1>0, <2>1, SubmitKeeps DEF memoryVars, trackerVars
  <2>3. pc # "split"
    BY <2>1
  <2>4. QED  BY <1>1, <2>1, <2>2, <2>3
<1>13. CASE SubmissionQueueFull
  <2>1. /\ Submit
        /\ UNCHANGED <<requestVars, memoryVars, trackerVars, loopVars, NumPendingCompletions,
                       finished, cq>>
    BY <1>13 DEF SubmissionQueueFull
  <2>2. InUse' = InUse
    BY <1>0, <2>1, SubmitKeeps DEF memoryVars, trackerVars
  <2>3. QED  BY <1>1, <2>1, <2>2 DEF loopVars
<1>14. CASE Poll
  <2>1. UNCHANGED <<requestVars, trackerVars, loopVars>> /\ InUse' = InUse
    BY <1>0, <1>14, PollKeeps DEF Poll
  <2>2. QED  BY <1>1, <2>1 DEF loopVars
<1>15. CASE EnterRequestLoop \/ NothingToWaitFor \/ ServiceWait
  <2>1. /\ pc # "split" /\ UNCHANGED <<requestVars, trackerVars, ringVars>>
    BY <1>15 DEF EnterRequestLoop, NothingToWaitFor, ServiceWait
  <2>2. QED  BY <1>2, <2>1 DEF requestVars
<1>16. CASE ProcessCompletedRequests \/ WaitCqe
  <2>0. pc # "split"
    BY <1>16 DEF ProcessCompletedRequests, WaitCqe
  <2>1. ASSUME NEW cqes, Reaps(cqes) PROVE TrackersOK'
    <3> DEFINE F == Finished(cqes)
               s == NvmeRequestPool
               u == Returned(cqes)
    <3>1. /\ buffer' = buffer /\ F \subseteq InUse /\ F \subseteq Trackers /\ InUse' = InUse \ F
          /\ \A t \in Trackers : tracker'[t].req = IF t \in F THEN None ELSE tracker[t].req
          /\ \A r \in Requests : r \notin Done(cqes) => status'[r] = status[r]
          /\ \A t \in Trackers \ F : tracker[t].req \notin Done(cqes)
          /\ NvmeRequestPool' = s \o u
      BY <1>0, <2>1, ReapEffects
    <3>2. u \in Seq(F) /\ \A i, j \in DOMAIN u : u[i] = u[j] => i = j
      <4>1. cqes \in Seq(Cqes)
        BY <2>1 DEF Reaps
      <4>2. \A t : Occurrences(cqes, ByTrk(t)) <= Occurrences(cq, ByTrk(t))
        <5>1. TAKE t
        <5>2. /\ Occurrences(cqes, ByTrk(t)) \in Nat /\ Occurrences(cq', ByTrk(t)) \in Nat
              /\ Occurrences(cq, ByTrk(t)) =
                   Occurrences(cqes, ByTrk(t)) + Occurrences(cq', ByTrk(t))
          BY <2>1, CountIsOccurrences DEF Reaps
        <5>3. QED  BY <5>2
      <4>3. QED  BY <1>0, <4>1, <4>2, ReturnedFacts
    <3>3. \A t \in F : tracker[t].req # None /\ ~Contains(s, t)
      BY <1>0, <3>1, UntrackedIsUnused DEF TrackersOK
    <3>4. /\ DOMAIN s = 1 .. Len(s) /\ DOMAIN u = 1 .. Len(u)
          /\ Len(s) \in Nat /\ Len(u) \in Nat
          /\ \A i \in 1 .. Len(u) : u[i] \in F
      BY <1>0, <3>2, LenProperties, ElementOfSeq
    <3>5. /\ DOMAIN (s \o u) = 1 .. Len(s) + Len(u)
          /\ \A i \in 1 .. Len(s) + Len(u) :
                (s \o u)[i] = IF i <= Len(s) THEN s[i] ELSE u[i - Len(s)]
      <4>1. u \in Seq(Trackers)
        BY <3>1, <3>2, SeqMonotonic
      <4>2. QED  BY <1>0, <4>1, ConcatProperties, LenProperties
    <3>6. \A i, j \in DOMAIN s : s[i] = s[j] => i = j
      BY <1>0 DEF TrackersOK
    <3>7. \A i \in 1 .. Len(s), j \in 1 .. Len(u) : s[i] # u[j]
      BY <3>3, <3>4 DEF Contains
    <3> DEFINE v == s \o u
    <3>8. \A i, j \in DOMAIN v : v[i] = v[j] => i = j
      <4>1. ASSUME NEW i \in 1 .. Len(s) + Len(u), NEW j \in 1 .. Len(s) + Len(u),
                   v[i] = v[j]
            PROVE  i = j
        <5> HIDE DEF s, u, v
        <5>1. v[i] = IF i <= Len(s) THEN s[i] ELSE u[i - Len(s)]
          BY <3>5 DEF v
        <5>2. v[j] = IF j <= Len(s) THEN s[j] ELSE u[j - Len(s)]
          BY <3>5 DEF v
        <5>3. CASE i <= Len(s) /\ j <= Len(s)
          <6>1. i \in DOMAIN s /\ j \in DOMAIN s
            BY <3>4, <5>3
          <6>2. s[i] = s[j]
            BY <4>1, <5>1, <5>2, <5>3
          <6>3. QED  BY <3>6, <6>1, <6>2
        <5>4. CASE i <= Len(s) /\ ~(j <= Len(s))
          <6>1. i \in 1 .. Len(s) /\ j - Len(s) \in 1 .. Len(u)
            BY <3>4, <5>4
          <6>2. QED  BY <3>7, <4>1, <5>1, <5>2, <5>4, <6>1
        <5>5. CASE ~(i <= Len(s)) /\ j <= Len(s)
          <6>1. j \in 1 .. Len(s) /\ i - Len(s) \in 1 .. Len(u)
            BY <3>4, <5>5
          <6>2. QED  BY <3>7, <4>1, <5>1, <5>2, <5>5, <6>1
        <5>6. CASE ~(i <= Len(s)) /\ ~(j <= Len(s))
          <6>1. i - Len(s) \in DOMAIN u /\ j - Len(s) \in DOMAIN u
            BY <3>4, <5>6
          <6>2. i - Len(s) = j - Len(s)
            BY <3>2, <4>1, <5>1, <5>2, <5>6, <6>1
          <6>3. QED  BY <3>4, <6>2
        <5>7. QED  BY <5>3, <5>4, <5>5, <5>6
      <4>2. QED  BY <3>5, <4>1
    <3>9. ASSUME NEW t \in Trackers, tracker'[t].req # None
          PROVE  /\ status'[tracker'[t].req] = "accepted"
                 /\ buffer'[tracker'[t].req] \in Buffers /\ ~Contains(v, t) /\ t \in InUse'
      <4>1. t \notin F /\ tracker'[t].req = tracker[t].req /\ tracker[t].req # None
        BY <3>1, <3>9
      <4>2. /\ status[tracker[t].req] = "accepted" /\ buffer[tracker[t].req] \in Buffers
            /\ ~Contains(s, t) /\ t \in InUse
        BY <1>0, <2>0, <4>1 DEF TrackersOK
      <4>3. tracker[t].req \in Requests \ Done(cqes)
        BY <1>0, <3>1, <4>1 DEF TypeOK
      <4>4. ~Contains(v, t)
        <5>1. \A i \in 1 .. Len(s) : s[i] # t
          BY <4>2 DEF Contains
        <5>2. \A i \in 1 .. Len(u) : u[i] # t
          BY <3>4, <4>1
        <5>3. v \in Seq(Trackers) /\ Len(v) = Len(s) + Len(u)
          <6>1. u \in Seq(Trackers)
            BY <3>1, <3>2, SeqMonotonic
          <6>2. QED  BY <1>0, <6>1, ConcatProperties
        <5>4. ASSUME NEW i \in 1 .. Len(v), v[i] = t PROVE FALSE
          <6>1. CASE i <= Len(s)
            <7>1. i \in 1 .. Len(s) /\ v[i] = s[i]
              BY <3>4, <3>5, <5>3, <6>1
            <7>2. QED  BY <5>1, <5>4, <7>1
          <6>2. CASE ~(i <= Len(s))
            <7>1. i - Len(s) \in 1 .. Len(u) /\ v[i] = u[i - Len(s)]
              BY <3>4, <3>5, <5>3, <6>2
            <7>2. QED  BY <5>2, <5>4, <7>1
          <6>3. QED  BY <6>1, <6>2
        <5>5. QED  BY <5>4 DEF Contains
      <4>5. QED  BY <3>1, <4>1, <4>2, <4>3, <4>4
    <3>10. \A t \in Trackers : tracker'[t].req = None => t \notin InUse'
      BY <1>0, <3>1, UntrackedIsUnused
    <3>11. \A t, w \in Trackers :
              tracker'[t].req = tracker'[w].req /\ tracker'[t].req # None => t = w
      BY <1>0, <3>1 DEF TrackersOK
    <3> HIDE DEF F, s, u
    <3>12. NvmeRequestPool' = v
      BY <3>1 DEF s, u
    <3> HIDE DEF v
    <3>13. QED  BY <1>a, <3>8, <3>9, <3>10, <3>11, <3>12, TrackersFrom
  <2>2. CASE UNCHANGED <<requestVars, trackerVars, ringVars>>
    BY <1>2, <2>0, <2>2 DEF requestVars
  <2>3. QED  BY <1>0, <1>16, <2>1, <2>2, ReapCases
<1>17. ASSUME NEW p \in inflight, NEW ok \in BOOLEAN, Complete(p, ok) PROVE TrackersOK'
  <2>1. UNCHANGED <<status, buffer, trackerVars, loopVars>> /\ InUse' = InUse
    BY <1>0, <1>17, CompleteEffects
  <2>2. QED  BY <1>0, <2>1, TrackersSame DEF trackerVars, loopVars
<1>18. QED
  <2>1. CASE Engine
    BY <2>1, <1>3, <1>4, <1>5 DEF Engine
  <2>2. CASE Service
    BY <2>2, <1>3, <1>6, <1>7, <1>8, <1>9, <1>10, <1>11, <1>12, <1>13, <1>14, <1>15, <1>16
       DEF Service
  <2>3. QED  BY <2>1, <2>2, <1>17 DEF Next

-----------------------------------------------------------------------------
(* Registered containers                                                     *)

\* A request whose container must stay registered.
Held(r) == Tracked(r) \/ (pc \in {"alloc", "issue", "split"} /\ r = NextRequest)

\* A request that holds its container is accepted.
LEMMA HeldIsAccepted ==
    ASSUME TypeOK, ControlOK, TrackersOK, NEW r \in Requests, Held(r)
    PROVE  status[r] = "accepted"
  BY NvmeConstants DEF TypeOK, Held, Tracked, ControlOK, InHand, TrackersOK

\* A step that takes no container from a request that holds it keeps RegisteredOK.
LEMMA RegisteredKept ==
    ASSUME RegisteredOK,
           \A r \in Requests : Held(r)' =>
              /\ Held(r) /\ read'[r] = read[r]
              /\ LET f == read[r].file IN f \in RegisteredContainers[DeviceOf[f]]
                                            => f \in RegisteredContainers'[DeviceOf[f]]
    PROVE  RegisteredOK'
  BY DEF RegisteredOK, Held, Tracked

\* Only CloseContainer lets a container go, and not one of a request held.
LEMMA RegisteredStep ==
    ASSUME IInv, Next
    PROVE  RegisteredOK'
<1>0. /\ TypeOK /\ RingTypes /\ ControlOK /\ RequestsOK /\ RegisteredOK
      /\ DeviceTableConsistent /\ SlotsOK /\ TrackersOK /\ CountsOK /\ PartsApart /\ SplitOK
      /\ None \notin Requests /\ DeviceOf \in [Files -> Devices]
      /\ status \in [Requests -> {"idle", "queued", "accepted", "completed"}]
      /\ read \in [Requests -> Reads \cup {None}]
      /\ RegisteredContainers \in [Devices -> SUBSET Files]
      /\ FilesToUnregister \in Seq(Files)
  BY NvmeConstants DEF IInv, TypeOK
<1>a. \A r \in Requests : Held(r) => status[r] = "accepted" /\ read[r] \in Reads
                            /\ read[r].file \in containers /\ read[r].file \in Files
  BY <1>0, HeldIsAccepted, ReadsFit DEF RequestsOK
<1>1. ASSUME UNCHANGED <<RegisteredContainers, read>>, \A r \in Requests : Held(r)' => Held(r)
      PROVE  RegisteredOK'
  BY <1>0, <1>1, RegisteredKept
<1>2. ASSUME UNCHANGED <<RegisteredContainers, read, tracker, pc, NextRequest>>
      PROVE  RegisteredOK'
  BY <1>1, <1>2 DEF Held, Tracked
<1>3. ASSUME NEW f \in Files, OpenContainer(f) \/ CloseContainer(f)
      PROVE  RegisteredOK'
  BY <1>2, <1>3 DEF OpenContainer, CloseContainer, requestVars, deviceVars, loopVars, trackerVars
<1>4. ASSUME NEW r \in Requests, NEW rd \in Reads, PushRequest(r, rd) PROVE RegisteredOK'
  <2>1. /\ status[r] = "idle" /\ read' = [read EXCEPT ![r] = rd]
        /\ UNCHANGED <<RegisteredContainers, tracker, pc, NextRequest>>
    BY <1>4 DEF PushRequest, deviceVars, loopVars, trackerVars
  <2>2. \A q \in Requests : Held(q)' => Held(q)
    BY <2>1 DEF Held, Tracked
  <2>3. QED  BY <1>0, <1>a, <2>1, <2>2, RegisteredKept
<1>5. ASSUME NEW r \in Requests, ReleaseRequest(r) PROVE RegisteredOK'
  <2>1. /\ status[r] = "completed" /\ read' = [read EXCEPT ![r] = None]
        /\ UNCHANGED <<RegisteredContainers, tracker, pc, NextRequest>>
    BY <1>5 DEF ReleaseRequest, deviceVars, loopVars, trackerVars
  <2>2. \A q \in Requests : Held(q)' => Held(q)
    BY <2>1 DEF Held, Tracked
  <2>3. QED  BY <1>0, <1>a, <2>1, <2>2, RegisteredKept
<1>6. ASSUME NEW f \in Files, UnregisterNvmeFile(f) PROVE RegisteredOK'
  <2>1. /\ FilesToUnregister # <<>> /\ f = Head(FilesToUnregister)
        /\ RegisteredContainers' =
             [RegisteredContainers EXCEPT ![DeviceOf[f]] = RegisteredContainers[DeviceOf[f]] \ {f}]
        /\ UNCHANGED <<read, tracker, pc, NextRequest>>
    BY <1>6 DEF UnregisterNvmeFile, ContainersLeft, requestVars, loopVars, trackerVars
  <2>2. Contains(FilesToUnregister, f)
    BY <1>0, <2>1, HeadTailProperties, EmptySeq DEF Contains
  <2>3. f \notin containers
    BY <1>0, <2>2 DEF RequestsOK
  <2>4. \A q \in Requests : Held(q)' => Held(q)
    BY <2>1 DEF Held, Tracked
  <2>5. \A g \in Files : g # f /\ g \in RegisteredContainers[DeviceOf[g]]
                           => g \in RegisteredContainers'[DeviceOf[g]]
    BY <1>0, <2>1
  <2>6. QED  BY <1>0, <1>a, <2>1, <2>3, <2>4, <2>5, RegisteredKept
<1>7. ASSUME NEW b \in Buffers \cup {None}, NoNextRequest(b) PROVE RegisteredOK'
  <2>1. /\ UNCHANGED <<read, RegisteredContainers, tracker>>
        /\ pc' \notin {"alloc", "issue", "split"}
    BY <1>7 DEF NoNextRequest, requestVars, deviceVars, trackerVars
  <2>2. QED  BY <1>1, <2>1 DEF Held, Tracked
<1>8. ASSUME NEW r \in Requests, NEW b \in Buffers, GetNextRequest(r, b) PROVE RegisteredOK'
  <2>1. /\ UNCHANGED <<read, RegisteredContainers, tracker>>
        /\ pc' \notin {"alloc", "issue", "split"}
    BY <1>8 DEF GetNextRequest, deviceVars, trackerVars
  <2>2. QED  BY <1>1, <2>1 DEF Held, Tracked
<1>9. ASSUME NEW r \in Requests, NEW ok \in BOOLEAN, RegisterNvmeFile(r, ok) PROVE RegisteredOK'
  <2> DEFINE f == read[r].file
             d == DeviceOf[f]
  <2>1. /\ pc = "open" /\ r = NextRequest /\ UNCHANGED <<read, tracker>>
        /\ \/ pc' \in {"next", "fatal"} /\ RegisteredContainers' = RegisteredContainers
           \/ /\ pc' = "alloc" /\ NextRequest' = NextRequest
              /\ RegisteredContainers' =
                   [RegisteredContainers EXCEPT ![d] = RegisteredContainers[d] \cup {f}]
    BY <1>9 DEF RegisterNvmeFile, OnRequestComplete, trackerVars
  <2>2. CASE pc' \in {"next", "fatal"} /\ RegisteredContainers' = RegisteredContainers
    BY <1>1, <2>1, <2>2 DEF Held, Tracked
  <2>3. CASE /\ pc' = "alloc" /\ NextRequest' = NextRequest
             /\ RegisteredContainers' =
                  [RegisteredContainers EXCEPT ![d] = RegisteredContainers[d] \cup {f}]
    <3>1. \A g \in Files : g \in RegisteredContainers[DeviceOf[g]]
                             => g \in RegisteredContainers'[DeviceOf[g]]
      BY <1>0, <2>3
    <3>2. r \in Requests /\ read[r] \in Reads /\ f \in Files /\ d \in Devices
      BY <1>0, <2>1, ReadsFit DEF RequestsOK, ControlOK, InHand
    <3>3. f \in RegisteredContainers'[d]
      BY <1>0, <2>3, <3>2
    <3>4. ASSUME NEW q \in Requests, Tracked(q)
          PROVE  read[q].file \in RegisteredContainers'[DeviceOf[read[q].file]]
      <4>1. Held(q)
        BY <3>4 DEF Held
      <4>2. read[q].file \in Files
        BY <1>a, <4>1
      <4>3. QED  BY <1>0, <3>1, <3>4, <4>2 DEF RegisteredOK
    <3>5. \A q \in Requests : Held(q)' => Tracked(q) \/ q = r
      BY <2>1, <2>3 DEF Held, Tracked
    <3>6. ASSUME NEW q \in Requests, Held(q)'
          PROVE  read'[q].file \in RegisteredContainers'[DeviceOf[read'[q].file]]
      <4>1. CASE q = r
        BY <2>1, <3>3, <4>1
      <4>2. CASE q # r
        BY <2>1, <3>4, <3>5, <3>6, <4>2
      <4>3. QED  BY <4>1, <4>2
    <3>7. QED  BY <3>6 DEF RegisteredOK, Held, Tracked
  <2>4. QED  BY <2>1, <2>2, <2>3
<1>10. ASSUME NEW r \in Requests, NEW hit \in BOOLEAN, AllocateMemory(r, hit) PROVE RegisteredOK'
  <2>1. /\ pc = "alloc" /\ UNCHANGED <<read, RegisteredContainers, tracker>>
        /\ pc' = "next" \/ (pc' = "issue" /\ NextRequest' = NextRequest)
    BY <1>10 DEF AllocateMemory, OnRequestComplete, deviceVars, trackerVars
  <2>2. QED  BY <1>1, <2>1 DEF Held, Tracked
<1>11. ASSUME NEW r \in Requests, PrepareRequestNvme(r) PROVE RegisteredOK'
  <2>1. /\ pc = "issue" /\ r = NextRequest
        /\ UNCHANGED <<read, RegisteredContainers, NextRequest>>
        /\ \/ pc' = "submit" /\ UNCHANGED tracker
           \/ /\ \A t \in Trackers : tracker'[t].req = IF t = Tracker THEN r ELSE tracker[t].req
    BY <1>0, <1>11, PrepareEffects DEF deviceVars
  <2>2. \A q \in Requests : Held(q)' => Held(q)
    BY <2>1 DEF Held, Tracked
  <2>3. QED  BY <1>1, <2>1, <2>2
<1>12. ASSUME NEW r \in Requests, PreparePart(r) PROVE RegisteredOK'
  <2>1. /\ pc = "split"
        /\ UNCHANGED <<read, RegisteredContainers, NextRequest>>
        /\ \A t \in Trackers : tracker'[t].req = tracker[t].req
    BY <1>0, <1>12, PartEffects DEF deviceVars, requestVars
  <2>2. \A q \in Requests : Held(q)' => Held(q)
    BY <2>1 DEF Held, Tracked
  <2>3. QED  BY <1>1, <2>1, <2>2
<1>13. ASSUME NEW r \in Requests, SubmitRequest(r) PROVE RegisteredOK'
  <2>1. pc' = "process" /\ UNCHANGED <<read, RegisteredContainers, tracker>>
    BY <1>13 DEF SubmitRequest, requestVars, deviceVars, trackerVars
  <2>2. QED  BY <1>1, <2>1 DEF Held, Tracked
<1>14. CASE SubmissionQueueFull \/ Poll
  BY <1>2, <1>14 DEF SubmissionQueueFull, Poll, requestVars, deviceVars, loopVars, trackerVars
<1>15. CASE EnterRequestLoop \/ NothingToWaitFor \/ ServiceWait
  <2>1. /\ pc' \notin {"alloc", "issue", "split"}
        /\ UNCHANGED <<read, RegisteredContainers, tracker>>
    BY <1>15 DEF EnterRequestLoop, NothingToWaitFor, ServiceWait,
                 requestVars, deviceVars, trackerVars
  <2>2. QED  BY <1>1, <2>1 DEF Held, Tracked
<1>16. CASE ProcessCompletedRequests \/ WaitCqe
  <2>1. pc' \notin {"alloc", "issue", "split"}
    BY <1>0, <1>16 DEF ProcessCompletedRequests, WaitCqe, AfterProcess, ControlOK
  <2>2. ASSUME NEW cqes, Reaps(cqes) PROVE RegisteredOK'
    <3>1. /\ UNCHANGED <<read, RegisteredContainers>>
          /\ \A t \in Trackers : tracker'[t].req =
                IF t \in Finished(cqes) THEN None ELSE tracker[t].req
      BY <1>0, <2>2, ReapEffects DEF deviceVars
    <3>2. \A q \in Requests : Held(q)' => Held(q)
      BY <1>0, <2>1, <3>1 DEF Held, Tracked
    <3>3. QED  BY <1>1, <3>1, <3>2
  <2>3. CASE UNCHANGED <<requestVars, deviceVars, trackerVars>>
    BY <1>1, <2>1, <2>3 DEF requestVars, deviceVars, trackerVars, Held, Tracked
  <2>4. QED  BY <1>0, <1>16, <2>2, <2>3, ReapCases
<1>17. ASSUME NEW p \in inflight, NEW ok \in BOOLEAN, Complete(p, ok) PROVE RegisteredOK'
  BY <1>2, <1>17 DEF Complete, deviceVars, loopVars, trackerVars
<1>18. QED
  <2>1. CASE Engine
    BY <2>1, <1>3, <1>4, <1>5 DEF Engine
  <2>2. CASE Service
    BY <2>2, <1>6, <1>7, <1>8, <1>9, <1>10, <1>11, <1>12, <1>13, <1>14, <1>15, <1>16
       DEF Service
  <2>3. QED  BY <2>1, <2>2, <1>17 DEF Next

-----------------------------------------------------------------------------
(* The table of devices                                                      *)

NoneTwice(s) == \A i, j \in DOMAIN s : s[i] = s[j] => i = j

\* What Append leaves in a queue,
LEMMA ContainsAppend ==
    ASSUME NEW S, NEW s \in Seq(S), NEW e \in S
    PROVE  /\ \A x : Contains(Append(s, e), x) <=> Contains(s, x) \/ x = e
           /\ NoneTwice(s) /\ ~Contains(s, e) => NoneTwice(Append(s, e))
<1> DEFINE t == Append(s, e)
<1>1. /\ t \in Seq(S) /\ Len(t) = Len(s) + 1 /\ Len(s) \in Nat
      /\ \A i \in 1 .. Len(s) : t[i] = s[i]
      /\ t[Len(s) + 1] = e
  BY AppendProperties, LenProperties
<1>2. DOMAIN t = 1 .. Len(t) /\ DOMAIN s = 1 .. Len(s)
  BY <1>1, LenProperties
<1> HIDE DEF t
<1>3. ASSUME NEW i \in 1 .. Len(t)
      PROVE  (i \in 1 .. Len(s) /\ t[i] = s[i]) \/ (i = Len(s) + 1 /\ t[i] = e)
  BY <1>1
<1>4. \A x : Contains(t, x) <=> Contains(s, x) \/ x = e
  <2>1. ASSUME NEW x, Contains(t, x) PROVE Contains(s, x) \/ x = e
    BY <1>3, <2>1 DEF Contains
  <2>2. ASSUME NEW x, Contains(s, x) PROVE Contains(t, x)
    <3>1. PICK i \in 1 .. Len(s) : s[i] = x
      BY <2>2 DEF Contains
    <3>2. i \in 1 .. Len(t) /\ t[i] = x
      BY <1>1, <3>1
    <3>3. QED  BY <3>2 DEF Contains
  <2>3. Contains(t, e)
    BY <1>1 DEF Contains
  <2>4. QED  BY <2>1, <2>2, <2>3
<1>5. ASSUME NoneTwice(s), ~Contains(s, e) PROVE NoneTwice(t)
  BY <1>2, <1>3, <1>5 DEF NoneTwice, Contains
<1>6. QED  BY <1>4, <1>5 DEF t

\* what Front does,
LEMMA ContainsFront ==
    ASSUME NEW S, NEW s \in Seq(S), s # <<>>, NoneTwice(s)
    PROVE  /\ \A x : Contains(Front(s), x) <=> Contains(s, x) /\ x # Last(s)
           /\ NoneTwice(Front(s)) /\ Contains(s, Last(s))
<1> DEFINE t == Front(s)
<1>1. /\ t \in Seq(S) /\ Len(t) = Len(s) - 1 /\ Len(s) \in Nat /\ Len(s) \in 1 .. Len(s)
      /\ \A i \in 1 .. Len(s) - 1 : t[i] = s[i]
      /\ Last(s) = s[Len(s)]
  BY FrontLastProperties, LenProperties DEF Last
<1>2. DOMAIN t = 1 .. Len(t) /\ DOMAIN s = 1 .. Len(s)
  BY <1>1, LenProperties
<1> HIDE DEF t
<1>3. ASSUME NEW i \in 1 .. Len(t)
      PROVE  i \in 1 .. Len(s) /\ t[i] = s[i] /\ i # Len(s)
  BY <1>1
<1>4. \A x : Contains(t, x) <=> Contains(s, x) /\ x # Last(s)
  <2>1. ASSUME NEW x, Contains(t, x) PROVE Contains(s, x) /\ x # Last(s)
    <3>1. PICK i \in 1 .. Len(t) : t[i] = x
      BY <2>1 DEF Contains
    <3>2. i \in DOMAIN s /\ Len(s) \in DOMAIN s /\ s[i] = x /\ i # Len(s)
      BY <1>1, <1>2, <1>3, <3>1
    <3>3. s[i] # s[Len(s)]
      BY <3>2 DEF NoneTwice
    <3>4. QED  BY <1>1, <1>2, <3>2, <3>3 DEF Contains
  <2>2. ASSUME NEW x, Contains(s, x), x # Last(s) PROVE Contains(t, x)
    <3>1. PICK i \in 1 .. Len(s) : s[i] = x
      BY <2>2 DEF Contains
    <3>2. i # Len(s)
      BY <1>1, <2>2, <3>1
    <3>3. i \in 1 .. Len(t) /\ t[i] = x
      BY <1>1, <3>1, <3>2
    <3>4. QED  BY <3>3 DEF Contains
  <2>3. QED  BY <2>1, <2>2
<1>5. NoneTwice(t)
  BY <1>2, <1>3 DEF NoneTwice
<1>6. Contains(s, Last(s))
  BY <1>1 DEF Contains
<1>7. QED  BY <1>4, <1>5, <1>6 DEF t

\* and what Tail does.
LEMMA ContainsTail ==
    ASSUME NEW S, NEW s \in Seq(S), s # <<>>, NEW x, Contains(s, x), x # Head(s)
    PROVE  Contains(Tail(s), x)
<1>1. /\ Len(Tail(s)) = Len(s) - 1 /\ \A i \in 1 .. Len(Tail(s)) : Tail(s)[i] = s[i + 1]
      /\ Len(s) \in Nat
  BY HeadTailProperties, LenProperties
<1>2. PICK i \in 1 .. Len(s) : s[i] = x
  BY DEF Contains
<1>3. i # 1
  BY <1>2
<1>4. i - 1 \in 1 .. Len(Tail(s)) /\ Tail(s)[i - 1] = x
  <2>1. i - 1 \in 1 .. Len(Tail(s)) /\ (i - 1) + 1 = i
    BY <1>1, <1>2, <1>3
  <2>2. QED  BY <1>1, <1>2, <2>1
<1>5. QED  BY <1>4 DEF Contains

-----------------------------------------------------------------------------
\* DeviceTableConsistent without the commands, and no slot free twice.
Taken == {s \in Slots : ktable[s] # None}
TableOK ==
    /\ \A d \in Devices : \A f \in RegisteredContainers[d] :
          DeviceOf[f] = d /\ (f \in containers \/ Contains(FilesToUnregister, f))
    /\ \A d \in Devices : (FixedFd[d] # -1) <=> (RegisteredContainers[d] # {})
    /\ \A d \in Devices : FixedFd[d] # -1 => ktable[FixedFd[d]] = d
    /\ \A s \in Slots : ktable[s] # None => FixedFd[ktable[s]] = s
    /\ \A s \in Slots : (ktable[s] = None) <=> Contains(FreeRegisteredFiles, s)
    /\ Len(FreeRegisteredFiles) <= MaxFixedFiles - Cardinality(Taken)
    /\ NoneTwice(FreeRegisteredFiles)
CommandsInTable ==
    \A p \in ToSet(sq) : ktable[p.fd] = DeviceOf[read[tracker[p.trk].req].file]

\* DeviceTableConsistent in these parts,
LEMMA TableForm ==
    DeviceTableConsistent /\ SlotsOK => TableOK
  BY DEF DeviceTableConsistent, SlotsOK, TableOK, NoneTwice, Taken
\* and from them.
LEMMA TableFrom ==
    TableOK /\ CommandsInTable => DeviceTableConsistent
  BY DEF DeviceTableConsistent, TableOK, Taken, CommandsInTable

\* There are MaxFixedFiles slots.
LEMMA SlotsFinite ==
    /\ IsFiniteSet(Slots) /\ Cardinality(Slots) = MaxFixedFiles
    /\ IsFiniteSet(Taken) /\ Cardinality(Taken) \in Nat
<1>1. MaxFixedFiles \in Nat /\ 0 \in Int /\ MaxFixedFiles - 1 \in Int
  BY NvmeConstants
<1>2. IsFiniteSet(Slots) /\ Cardinality(Slots) = MaxFixedFiles
  BY <1>1, FS_Interval DEF Slots
<1>3. Taken \in SUBSET Slots
  BY DEF Taken
<1>4. QED  BY <1>2, <1>3, FS_Subset, FS_CardinalityType

\* A device that goes gives its slot back.
LEMMA SlotGivenBack ==
    ASSUME TypeOK, TableOK, NEW d \in Devices, FixedFd[d] # -1,
           RegisteredContainers' = [RegisteredContainers EXCEPT ![d] = {}],
           ktable' = [ktable EXCEPT ![FixedFd[d]] = None],
           FreeRegisteredFiles' = Append(FreeRegisteredFiles, FixedFd[d]),
           FixedFd' = [FixedFd EXCEPT ![d] = -1],
           \A e \in Devices : \A f \in RegisteredContainers'[e] :
              f \in containers' \/ Contains(FilesToUnregister', f)
    PROVE  TableOK'
<1> DEFINE x == FixedFd[d]
           s == FreeRegisteredFiles
<1>1. /\ x \in Slots /\ ktable[x] = d /\ d # None /\ None \notin Devices
      /\ FixedFd \in [Devices -> Slots \cup {-1}] /\ ktable \in [Slots -> Devices \cup {None}]
      /\ RegisteredContainers \in [Devices -> SUBSET Files] /\ s \in Seq(Slots)
      /\ Len(s) \in Nat /\ MaxFixedFiles \in Nat
      /\ -1 \notin Slots
  BY NvmeConstants, LenProperties DEF TypeOK, TableOK, Slots
<1>2. /\ ~Contains(s, x) /\ NoneTwice(s)
  BY <1>1 DEF TableOK
<1> HIDE DEF x, s
<1>3. /\ ktable' = [ktable EXCEPT ![x] = None] /\ FreeRegisteredFiles' = Append(s, x)
      /\ \A t \in Slots : ktable'[t] = IF t = x THEN None ELSE ktable[t]
      /\ \A e \in Devices : FixedFd'[e] = IF e = d THEN -1 ELSE FixedFd[e]
      /\ \A e \in Devices : RegisteredContainers'[e] = IF e = d THEN {} ELSE RegisteredContainers[e]
  BY <1>1 DEF x, s
<1>4. \A t : Contains(FreeRegisteredFiles', t) <=> Contains(s, t) \/ t = x
  BY <1>1, <1>3, ContainsAppend
<1>5. NoneTwice(FreeRegisteredFiles)'
  <2>1. NoneTwice(Append(s, x))
    BY <1>1, <1>2, ContainsAppend
  <2>2. QED  BY <1>3, <2>1 DEF NoneTwice
<1>6. Len(FreeRegisteredFiles') <= MaxFixedFiles - Cardinality(Taken')
  <2>1. Taken' = Taken \ {x} /\ x \in Taken
    BY <1>1, <1>3 DEF Taken
  <2>2. Cardinality(Taken') = Cardinality(Taken) - 1 /\ Cardinality(Taken) \in Nat
    BY <2>1, SlotsFinite, FS_RemoveElement
  <2>3. Len(FreeRegisteredFiles') = Len(s) + 1
    BY <1>1, <1>3, AppendProperties
  <2>4. Len(s) <= MaxFixedFiles - Cardinality(Taken)
    BY DEF TableOK, s
  <2>5. QED  BY <1>1, <2>2, <2>3, <2>4
<1>7. \A e \in Devices : e # d /\ FixedFd[e] # -1 => FixedFd[e] # x
  BY <1>1 DEF TableOK
<1>8. \A e \in Devices : FixedFd'[e] # -1 => ktable'[FixedFd'[e]] = e
  <2>1. TAKE e \in Devices
  <2>2. HAVE FixedFd'[e] # -1
  <2>3. e # d /\ FixedFd'[e] = FixedFd[e] /\ FixedFd[e] # x /\ FixedFd[e] \in Slots
    BY <1>1, <1>3, <1>7, <2>2
  <2>4. QED  BY <1>3, <2>2, <2>3 DEF TableOK
<1>9. \A t \in Slots : ktable'[t] # None => FixedFd'[ktable'[t]] = t
  <2>1. TAKE t \in Slots
  <2>2. HAVE ktable'[t] # None
  <2>3. t # x /\ ktable'[t] = ktable[t] /\ ktable[t] \in Devices /\ FixedFd[ktable[t]] = t
    BY <1>1, <1>3, <2>2 DEF TableOK
  <2>4. ktable[t] # d
    BY <2>3 DEF x
  <2>5. QED  BY <1>3, <2>3, <2>4
<1>10. \A t \in Slots : (ktable'[t] = None) <=> Contains(FreeRegisteredFiles', t)
  BY <1>3, <1>4 DEF TableOK, s
<1>11. \A e \in Devices : (FixedFd'[e] # -1) <=> (RegisteredContainers'[e] # {})
  BY <1>3 DEF TableOK
<1>12. \A e \in Devices : \A f \in RegisteredContainers'[e] :
          DeviceOf[f] = e /\ (f \in containers' \/ Contains(FilesToUnregister', f))
  BY <1>3 DEF TableOK
<1>13. QED  BY <1>5, <1>6, <1>8, <1>9, <1>10, <1>11, <1>12 DEF TableOK

\* A new device takes the last free slot.
LEMMA SlotTaken ==
    ASSUME TypeOK, TableOK, NEW d \in Devices, FixedFd[d] = -1, FreeRegisteredFiles # <<>>,
           NEW f \in Files, DeviceOf[f] = d, f \in containers,
           RegisteredContainers' = [RegisteredContainers EXCEPT ![d] = RegisteredContainers[d] \cup {f}],
           ktable' = [ktable EXCEPT ![Last(FreeRegisteredFiles)] = d],
           FreeRegisteredFiles' = Front(FreeRegisteredFiles),
           FixedFd' = [FixedFd EXCEPT ![d] = Last(FreeRegisteredFiles)],
           UNCHANGED <<containers, FilesToUnregister>>
    PROVE  TableOK'
<1> DEFINE x == Last(FreeRegisteredFiles)
           s == FreeRegisteredFiles
<1>1. /\ d # None /\ None \notin Devices
      /\ FixedFd \in [Devices -> Slots \cup {-1}] /\ ktable \in [Slots -> Devices \cup {None}]
      /\ RegisteredContainers \in [Devices -> SUBSET Files] /\ s \in Seq(Slots)
      /\ Len(s) \in Nat /\ MaxFixedFiles \in Nat
      /\ -1 \notin Slots /\ NoneTwice(s)
  BY NvmeConstants, LenProperties DEF TypeOK, TableOK, Slots
<1>2. /\ x \in Slots /\ Len(Front(s)) = Len(s) - 1
      /\ \A t : Contains(Front(s), t) <=> Contains(s, t) /\ t # x
      /\ NoneTwice(Front(s)) /\ Contains(s, x)
  BY <1>1, ContainsFront, FrontLastProperties
<1>2a. ktable[x] = None
  BY <1>2 DEF TableOK
<1> HIDE DEF x, s
<1>3. /\ FreeRegisteredFiles' = Front(s)
      /\ \A t \in Slots : ktable'[t] = IF t = x THEN d ELSE ktable[t]
      /\ \A e \in Devices : FixedFd'[e] = IF e = d THEN x ELSE FixedFd[e]
      /\ \A e \in Devices : RegisteredContainers'[e] =
            IF e = d THEN RegisteredContainers[e] \cup {f} ELSE RegisteredContainers[e]
  BY <1>1 DEF x, s
<1>5. NoneTwice(FreeRegisteredFiles)'
  BY <1>2, <1>3 DEF NoneTwice
<1>6. Len(FreeRegisteredFiles') <= MaxFixedFiles - Cardinality(Taken')
  <2>1. Taken' = Taken \cup {x} /\ x \notin Taken
    BY <1>1, <1>2, <1>2a, <1>3 DEF Taken
  <2>2. Cardinality(Taken') = Cardinality(Taken) + 1 /\ Cardinality(Taken) \in Nat
    BY <2>1, SlotsFinite, FS_AddElement
  <2>3. Len(FreeRegisteredFiles') = Len(s) - 1
    BY <1>2, <1>3
  <2>4. Len(s) <= MaxFixedFiles - Cardinality(Taken)
    BY DEF TableOK, s
  <2>5. QED  BY <1>1, <2>2, <2>3, <2>4
<1>8. \A e \in Devices : FixedFd'[e] # -1 => ktable'[FixedFd'[e]] = e
  <2>1. TAKE e \in Devices
  <2>2. HAVE FixedFd'[e] # -1
  <2>3. CASE e = d
    BY <1>2, <1>3, <2>3
  <2>4. CASE e # d
    <3>1. FixedFd'[e] = FixedFd[e] /\ FixedFd[e] \in Slots /\ ktable[FixedFd[e]] = e /\ e # None
      BY <1>1, <1>3, <2>2, <2>4 DEF TableOK
    <3>2. FixedFd[e] # x
      BY <1>2a, <3>1
    <3>3. QED  BY <1>3, <3>1, <3>2
  <2>5. QED  BY <2>3, <2>4
<1>9. \A t \in Slots : ktable'[t] # None => FixedFd'[ktable'[t]] = t
  <2>1. TAKE t \in Slots
  <2>2. HAVE ktable'[t] # None
  <2>3. CASE t = x
    BY <1>3, <2>3
  <2>4. CASE t # x
    <3>1. ktable'[t] = ktable[t] /\ ktable[t] \in Devices /\ FixedFd[ktable[t]] = t
      BY <1>1, <1>3, <2>2, <2>4 DEF TableOK
    <3>2. ktable[t] # d
      BY <1>1, <3>1
    <3>3. QED  BY <1>3, <3>1, <3>2
  <2>5. QED  BY <2>3, <2>4
<1>10. \A t \in Slots : (ktable'[t] = None) <=> Contains(FreeRegisteredFiles', t)
  BY <1>1, <1>2, <1>3 DEF TableOK, s
<1>11. \A e \in Devices : (FixedFd'[e] # -1) <=> (RegisteredContainers'[e] # {})
  BY <1>1, <1>2, <1>3 DEF TableOK
<1>12. \A e \in Devices : \A g \in RegisteredContainers'[e] :
          DeviceOf[g] = e /\ (g \in containers' \/ Contains(FilesToUnregister', g))
  BY <1>3 DEF TableOK
<1>13. QED  BY <1>5, <1>6, <1>8, <1>9, <1>10, <1>11, <1>12 DEF TableOK

\* A step that gives and takes no slot, nor the last container, keeps the table.
LEMMA TableSame ==
    ASSUME TableOK, UNCHANGED <<FixedFd, ktable, FreeRegisteredFiles>>,
           \A d \in Devices : \A f \in RegisteredContainers'[d] :
              DeviceOf[f] = d /\ (f \in containers' \/ Contains(FilesToUnregister', f)),
           \A d \in Devices : RegisteredContainers'[d] = {} <=> RegisteredContainers[d] = {}
    PROVE  TableOK'
  BY DEF TableOK, Taken, NoneTwice

\* Every step keeps the table of devices.
LEMMA TableStep ==
    ASSUME IInv, Next
    PROVE  TableOK'
<1>0. /\ TypeOK /\ RingTypes /\ ControlOK /\ RequestsOK /\ RegisteredOK
      /\ DeviceTableConsistent /\ SlotsOK /\ TrackersOK /\ CountsOK /\ PartsApart /\ SplitOK
      /\ DeviceOf \in [Files -> Devices] /\ TableOK
      /\ RegisteredContainers \in [Devices -> SUBSET Files]
      /\ FilesToUnregister \in Seq(Files)
  BY NvmeConstants, TableForm DEF IInv, TypeOK
<1>1. ASSUME UNCHANGED <<fileVars, deviceVars>> PROVE TableOK'
  BY <1>0, <1>1 DEF TableOK, Taken, NoneTwice, fileVars, deviceVars
<1>2. ASSUME NEW f \in Files, OpenContainer(f) PROVE TableOK'
  <2>1. containers' = containers \cup {f} /\ UNCHANGED <<FilesToUnregister, deviceVars>>
    BY <1>2 DEF OpenContainer
  <2>2. QED  BY <1>0, <2>1, TableSame DEF TableOK, deviceVars
<1>3. ASSUME NEW f \in Files, CloseContainer(f) PROVE TableOK'
  <2>1. /\ containers' = containers \ {f} /\ UNCHANGED deviceVars
        /\ FilesToUnregister' = Append(FilesToUnregister, f)
    BY <1>3 DEF CloseContainer
  <2>2. \A g : Contains(FilesToUnregister', g) <=> Contains(FilesToUnregister, g) \/ g = f
    BY <1>0, <2>1, ContainsAppend
  <2>3. QED  BY <1>0, <2>1, <2>2, TableSame DEF TableOK, deviceVars
<1>4. ASSUME NEW f \in Files, UnregisterNvmeFile(f) PROVE TableOK'
  <2> DEFINE d == DeviceOf[f]
  <2>1. /\ FilesToUnregister # <<>> /\ f = Head(FilesToUnregister)
        /\ FilesToUnregister' = Tail(FilesToUnregister) /\ UNCHANGED containers
        /\ RegisteredContainers' = [RegisteredContainers EXCEPT ![d] = RegisteredContainers[d] \ {f}]
        /\ IF FixedFd[d] # -1 /\ RegisteredContainers[d] \ {f} = {}
            THEN /\ ktable' = [ktable EXCEPT ![FixedFd[d]] = None]
                 /\ FreeRegisteredFiles' = Append(FreeRegisteredFiles, FixedFd[d])
                 /\ FixedFd' = [FixedFd EXCEPT ![d] = -1]
            ELSE UNCHANGED <<ktable, FreeRegisteredFiles, FixedFd>>
    BY <1>4 DEF UnregisterNvmeFile, ContainersLeft, SlotsAfter
  <2>2. d \in Devices
    BY <1>0
  <2>3. \A e \in Devices : RegisteredContainers'[e] =
           IF e = d THEN RegisteredContainers[e] \ {f} ELSE RegisteredContainers[e]
    BY <1>0, <2>1
  <2>4. \A g : g # f /\ Contains(FilesToUnregister, g) => Contains(FilesToUnregister', g)
    BY <1>0, <2>1, ContainsTail
  <2>5. ASSUME NEW e \in Devices, NEW g \in RegisteredContainers'[e]
        PROVE  DeviceOf[g] = e /\ (g \in containers' \/ Contains(FilesToUnregister', g))
    <3>1. g \in RegisteredContainers[e] /\ g # f
      <4>1. g \in RegisteredContainers[e]
        BY <2>3, <2>5
      <4>2. DeviceOf[g] = e
        BY <1>0, <4>1 DEF TableOK
      <4>3. QED  BY <2>3, <2>5, <4>1, <4>2
    <3>2. QED  BY <1>0, <2>1, <2>4, <3>1 DEF TableOK
  <2>6. CASE FixedFd[d] # -1 /\ RegisteredContainers[d] \ {f} = {}
    <3>1. RegisteredContainers' = [RegisteredContainers EXCEPT ![d] = {}]
      BY <2>1, <2>6
    <3>2. QED  BY <1>0, <2>1, <2>2, <2>5, <2>6, <3>1, SlotGivenBack
  <2>7. CASE ~(FixedFd[d] # -1 /\ RegisteredContainers[d] \ {f} = {})
    <3>1. \A e \in Devices : RegisteredContainers'[e] = {} <=> RegisteredContainers[e] = {}
      <4>1. RegisteredContainers'[d] = {} <=> RegisteredContainers[d] = {}
        BY <1>0, <2>2, <2>3, <2>7 DEF TableOK
      <4>2. QED  BY <2>3, <4>1
    <3>2. QED  BY <1>0, <2>1, <2>5, <2>7, <3>1, TableSame
  <2>8. QED  BY <2>6, <2>7
<1>5. ASSUME NEW r \in Requests, NEW ok \in BOOLEAN, RegisterNvmeFile(r, ok) PROVE TableOK'
  <2> DEFINE f == read[r].file
             d == DeviceOf[f]
             full == FixedFd[d] = -1 /\ FreeRegisteredFiles = <<>>
  <2>1. /\ pc = "open" /\ r = NextRequest /\ UNCHANGED fileVars
        /\ RegisteredContainers' =
             IF ok /\ ~full THEN [RegisteredContainers EXCEPT ![d] = RegisteredContainers[d] \cup {f}]
                            ELSE RegisteredContainers
        /\ IF ok /\ FixedFd[d] = -1 /\ ~full
             THEN /\ FixedFd' = [FixedFd EXCEPT ![d] = Last(FreeRegisteredFiles)]
                  /\ ktable' = [ktable EXCEPT ![Last(FreeRegisteredFiles)] = d]
                  /\ FreeRegisteredFiles' = Front(FreeRegisteredFiles)
             ELSE UNCHANGED <<FixedFd, ktable, FreeRegisteredFiles>>
    BY <1>5 DEF RegisterNvmeFile
  <2>2. /\ read[r] \in Reads /\ f \in Files /\ f \in containers /\ d \in Devices
    BY <1>0, <2>1, ReadsFit DEF RequestsOK, ControlOK, InHand
  <2>3. CASE ~ok \/ full
    BY <1>1, <2>1, <2>3 DEF deviceVars
  <2>4. CASE ok /\ ~full /\ FixedFd[d] = -1
    BY <1>0, <2>1, <2>2, <2>4, SlotTaken DEF fileVars
  <2>5. CASE ok /\ ~full /\ FixedFd[d] # -1
    <3>1. \A e \in Devices : RegisteredContainers'[e] =
             IF e = d THEN RegisteredContainers[e] \cup {f} ELSE RegisteredContainers[e]
      BY <1>0, <2>1, <2>5
    <3>2. RegisteredContainers[d] # {}
      BY <1>0, <2>2, <2>5 DEF TableOK
    <3>3. \A e \in Devices : RegisteredContainers'[e] = {} <=> RegisteredContainers[e] = {}
      BY <3>1, <3>2
    <3>4. \A e \in Devices : \A g \in RegisteredContainers'[e] :
             DeviceOf[g] = e /\ (g \in containers' \/ Contains(FilesToUnregister', g))
      BY <1>0, <2>1, <2>2, <3>1 DEF TableOK, fileVars
    <3>5. QED  BY <1>0, <2>1, <2>5, <3>3, <3>4, TableSame
  <2>6. QED  BY <2>3, <2>4, <2>5
<1>6. CASE ProcessCompletedRequests \/ WaitCqe
  BY <1>1, <1>6 DEF ProcessCompletedRequests, WaitCqe, ProcessCompletionEvents
<1>7. CASE SubmissionQueueFull \/ Poll \/ EnterRequestLoop \/ NothingToWaitFor \/ ServiceWait
  BY <1>1, <1>7 DEF SubmissionQueueFull, Poll, EnterRequestLoop, NothingToWaitFor, ServiceWait
<1>8. ASSUME NEW r \in Requests,
             \/ ReleaseRequest(r) \/ PrepareRequestNvme(r) \/ PreparePart(r) \/ SubmitRequest(r)
             \/ \E rd \in Reads : PushRequest(r, rd)
             \/ \E b \in Buffers : GetNextRequest(r, b)
             \/ \E hit \in BOOLEAN : AllocateMemory(r, hit)
      PROVE  TableOK'
  BY <1>1, <1>8 DEF ReleaseRequest, PrepareRequestNvme, PreparePart, SubmitRequest, PushRequest,
                    GetNextRequest, AllocateMemory
<1>9. ASSUME NEW b, NoNextRequest(b) PROVE TableOK'
  BY <1>1, <1>9 DEF NoNextRequest
<1>10. ASSUME NEW p, NEW ok, Complete(p, ok) PROVE TableOK'
  BY <1>1, <1>10 DEF Complete
<1>11. QED
  <2>1. CASE Engine
    BY <2>1, <1>2, <1>3, <1>8 DEF Engine
  <2>2. CASE Service
    BY <2>2, <1>4, <1>5, <1>6, <1>7, <1>8, <1>9 DEF Service
  <2>3. QED  BY <2>1, <2>2, <1>10 DEF Next

-----------------------------------------------------------------------------
\* A device keeps its slot while a command needs it.
LEMMA SlotsKept ==
    ASSUME TypeOK, RingTypes, RequestsOK, TrackersOK, CountsOK, SlotsOK, RegisteredOK,
           DeviceTableConsistent, TableOK', ToSet(sq') \subseteq ToSet(sq),
           \A p \in inflight' : p \in inflight \/ \E s \in ToSet(sq) : p = Command(s),
           \A t \in InUse' : /\ tracker'[t].req = tracker[t].req
                             /\ read'[tracker[t].req] = read[tracker[t].req]
                             /\ LET d == DeviceOf[read[tracker[t].req].file]
                                IN  FixedFd'[d] = FixedFd[d]
    PROVE  SlotsOK'
<1>1. \A p \in inflight' \cup ToSet(sq') : p.trk \in InUse'
  BY DEF InUse
<1>2. ASSUME NEW s \in ToSet(sq') PROVE s.fd = FixedFd'[DeviceOf[read'[Owner(s)'].file]]
  <2>1. s \in ToSet(sq) /\ s.fd = FixedFd[DeviceOf[read[tracker[s.trk].req].file]]
    BY DEF SlotsOK, Owner
  <2>2. QED  BY <1>1, <2>1 DEF Owner
<1>3. ASSUME NEW p \in inflight' PROVE p.dev = DeviceOf[read'[Owner(p)'].file]
  <2>1. p.dev = DeviceOf[read[tracker[p.trk].req].file]
    <3>1. CASE p \in inflight
      BY <3>1 DEF SlotsOK, Owner
    <3>2. ASSUME NEW s \in ToSet(sq), p = Command(s)
          PROVE  p.dev = DeviceOf[read[tracker[p.trk].req].file]
      BY <3>2, CommandOf DEF Owner
    <3>3. QED  BY <3>1, <3>2
  <2>2. QED  BY <1>1, <2>1 DEF Owner
<1>4. QED  BY <1>2, <1>3 DEF SlotsOK, TableOK, NoneTwice

\* No slot is free twice, and commands name the slot of their device.
LEMMA SlotsStep ==
    ASSUME IInv, Next
    PROVE  SlotsOK'
<1>0. /\ TypeOK /\ RingTypes /\ ControlOK /\ RequestsOK /\ RegisteredOK
      /\ DeviceTableConsistent /\ SlotsOK /\ TrackersOK /\ CountsOK /\ PartsApart /\ SplitOK
      /\ DeviceOf \in [Files -> Devices] /\ TableOK
      /\ RegisteredContainers \in [Devices -> SUBSET Files]
      /\ FixedFd \in [Devices -> Slots \cup {-1}]
      /\ TableOK' /\ RegisteredOK' /\ TypeOK' /\ RingTypes' /\ CountsOK' /\ TrackersOK'
      /\ RequestsOK'
      /\ read \in [Requests -> Reads \cup {None}]
  BY NvmeConstants, TableForm, TableStep, RegisteredStep, TypeStep, TrackersStep, RequestsStep
     DEF IInv, TypeOK
<1>a. ASSUME NEW t \in InUse
      PROVE  LET r == tracker[t].req
                 f == read[r].file
             IN  /\ t \in Trackers /\ r \in Requests /\ status[r] = "accepted" /\ Tracked(r)
                 /\ f \in Files /\ DeviceOf[f] \in Devices
                 /\ f \in RegisteredContainers[DeviceOf[f]] /\ FixedFd[DeviceOf[f]] # -1
  <2>1. t \in Trackers /\ tracker[t].req \in Requests /\ status[tracker[t].req] = "accepted"
    BY <1>0, InUseIsTracked
  <2>2. Tracked(tracker[t].req) /\ read[tracker[t].req] \in Reads
    BY <1>0, <2>1 DEF Tracked, RequestsOK
  <2>3. QED  BY <1>0, <2>1, <2>2, ReadsFit DEF RegisteredOK, TableOK
<1>1. ASSUME UNCHANGED <<sq, inflight, tracker>>, InUse' = InUse,
             \A t \in InUse : /\ read'[tracker[t].req] = read[tracker[t].req]
                              /\ LET d == DeviceOf[read[tracker[t].req].file]
                                 IN  FixedFd'[d] = FixedFd[d]
      PROVE  SlotsOK'
  BY <1>0, <1>1, SlotsKept
<1>2. ASSUME UNCHANGED <<sq, inflight, tracker, FixedFd, read>>, InUse' = InUse
      PROVE  SlotsOK'
  BY <1>1, <1>2
<1>3. ASSUME UNCHANGED <<trackerVars, requestVars, deviceVars, finished, cq, memoryVars,
                         NumPendingCompletions>>,
             Submit \/ UNCHANGED <<sq, inflight>>
      PROVE  SlotsOK'
  <2>1. InUse' = InUse
    BY <1>0, <1>3, SubmitKeeps DEF memoryVars, trackerVars
  <2>2. CASE Submit
    <3>1. /\ inflight' = inflight \cup {Command(s) : s \in ToSet(sq)} /\ sq' = <<>>
      BY <1>0, <2>2, SubmitEffects
    <3>2. ToSet(sq') = {}
      BY <3>1 DEF ToSet
    <3>3. QED  BY <1>0, <1>3, <2>1, <3>1, <3>2, SlotsKept DEF trackerVars, requestVars, deviceVars
  <2>3. CASE UNCHANGED <<sq, inflight>>
    BY <1>2, <1>3, <2>1, <2>3 DEF trackerVars, requestVars, deviceVars
  <2>4. QED  BY <1>3, <2>2, <2>3
<1>4. ASSUME NEW f \in Files, OpenContainer(f) \/ CloseContainer(f) PROVE SlotsOK'
  BY <1>2, <1>4, RingSame DEF OpenContainer, CloseContainer, trackerVars, requestVars, deviceVars,
                              ringVars
<1>5. ASSUME NEW r \in Requests, NEW rd \in Reads, PushRequest(r, rd) PROVE SlotsOK'
  <2>1. /\ status[r] = "idle" /\ read' = [read EXCEPT ![r] = rd]
        /\ UNCHANGED <<sq, inflight, finished, cq, tracker, FixedFd>>
    BY <1>5 DEF PushRequest, trackerVars, deviceVars, ringVars
  <2>2. QED  BY <1>0, <1>1, <1>a, <2>1, RingSame
<1>6. ASSUME NEW r \in Requests, ReleaseRequest(r) PROVE SlotsOK'
  <2>1. /\ status[r] = "completed" /\ read' = [read EXCEPT ![r] = None]
        /\ UNCHANGED <<sq, inflight, finished, cq, tracker, FixedFd>>
    BY <1>6 DEF ReleaseRequest, trackerVars, deviceVars, ringVars
  <2>2. QED  BY <1>0, <1>1, <1>a, <2>1, RingSame
<1>7. ASSUME NEW f \in Files, UnregisterNvmeFile(f) PROVE SlotsOK'
  <2> DEFINE d == DeviceOf[f]
  <2>1. /\ UNCHANGED <<sq, inflight, finished, cq, tracker, read>>
        /\ RegisteredContainers' = [RegisteredContainers EXCEPT ![d] = RegisteredContainers[d] \ {f}]
        /\ IF FixedFd[d] # -1 /\ RegisteredContainers[d] \ {f} = {}
             THEN FixedFd' = [FixedFd EXCEPT ![d] = -1]
             ELSE FixedFd' = FixedFd
    BY <1>7 DEF UnregisterNvmeFile, ContainersLeft, trackerVars, requestVars, ringVars
  <2>2. InUse' = InUse /\ d \in Devices
    BY <1>0, <2>1, RingSame
  <2>3. ASSUME NEW t \in InUse, DeviceOf[read[tracker[t].req].file] = d
        PROVE  RegisteredContainers[d] \ {f} # {}
    <3>1. Tracked(tracker[t].req)' /\ tracker'[t].req \in Requests
      BY <1>a, <2>1, <2>3 DEF Tracked
    <3>2. read[tracker[t].req].file \in RegisteredContainers'[d]
      BY <1>0, <2>1, <2>3, <3>1 DEF RegisteredOK
    <3>3. QED  BY <1>0, <2>1, <2>2, <3>2
  <2>4. QED  BY <1>0, <1>1, <1>a, <2>1, <2>2, <2>3
<1>8. ASSUME NEW b, NoNextRequest(b) PROVE SlotsOK'
  <2>1. /\ UNCHANGED <<trackerVars, requestVars, deviceVars, finished, cq, memoryVars,
                       NumPendingCompletions>>
        /\ (Submit \/ UNCHANGED <<sq, inflight>>)
    BY <1>8 DEF NoNextRequest
  <2>2. QED  BY <1>3, <2>1
<1>9. ASSUME NEW r \in Requests, NEW b \in Buffers, GetNextRequest(r, b) PROVE SlotsOK'
  BY <1>2, <1>9, RingSame DEF GetNextRequest, trackerVars, deviceVars, ringVars
<1>10. ASSUME NEW r \in Requests, NEW ok \in BOOLEAN, RegisterNvmeFile(r, ok) PROVE SlotsOK'
  <2> DEFINE d == DeviceOf[read[r].file]
  <2>1. /\ UNCHANGED <<sq, inflight, finished, cq, tracker, read>>
        /\ \/ FixedFd' = FixedFd
           \/ FixedFd[d] = -1 /\ \E x : FixedFd' = [FixedFd EXCEPT ![d] = x]
    BY <1>10 DEF RegisterNvmeFile, trackerVars, ringVars
  <2>2. InUse' = InUse
    BY <2>1, RingSame
  <2>3. \A t \in InUse : DeviceOf[read[tracker[t].req].file] = d => FixedFd[d] # -1
    BY <1>a
  <2>4. QED  BY <1>0, <1>1, <1>a, <2>1, <2>2, <2>3
<1>11. ASSUME NEW r \in Requests, NEW hit \in BOOLEAN, AllocateMemory(r, hit) PROVE SlotsOK'
  BY <1>2, <1>11, RingSame DEF AllocateMemory, trackerVars, deviceVars, ringVars
<1>12. ASSUME NEW r \in Requests, PrepareRequestNvme(r) PROVE SlotsOK'
  <2>1. /\ pc = "issue" /\ UNCHANGED <<read, deviceVars, ringVars>> /\ InUse' = InUse
        /\ \/ UNCHANGED tracker
           \/ /\ Tracker \notin InUse
              /\ \A t \in Trackers : tracker'[t].req = IF t = Tracker THEN r ELSE tracker[t].req
    BY <1>0, <1>12, PrepareEffects
  <2>2. \A t \in InUse : tracker'[t].req = tracker[t].req
    BY <1>a, <2>1
  <2>3. QED  BY <1>0, <2>1, <2>2, SlotsKept DEF deviceVars, ringVars
<1>13. ASSUME NEW r \in Requests, PreparePart(r) PROVE SlotsOK'
  <2>1. /\ pc = "split" /\ sq' = Append(sq, PartEntry)
        /\ \A t \in Trackers : tracker'[t].req = tracker[t].req
        /\ UNCHANGED <<read, FixedFd, inflight>> /\ sq \in Seq(Entries)
    BY <1>0, <1>13, PartEffects DEF requestVars, deviceVars, RingTypes
  <2>2. split.trk \in Trackers /\ tracker[split.trk].req = NextRequest /\ PartEntry \in Entries
    BY <1>0, <2>1, PartInHand
  <2>3. PartEntry.trk = split.trk /\ PartEntry.fd = FixedFd[DeviceOf[PartRead.file]]
    BY DEF PartEntry
  <2>4. ToSet(sq') = ToSet(sq) \cup {PartEntry}
    <3>1. \A e : Contains(sq', e) <=> Contains(sq, e) \/ e = PartEntry
      BY <2>1, <2>2, ContainsAppend
    <3>2. sq' \in Seq(Entries)
      BY <2>1, <2>2, AppendProperties
    <3>3. \A e : (e \in ToSet(sq') <=> Contains(sq', e)) /\ (e \in ToSet(sq) <=> Contains(sq, e))
      BY <2>1, <3>2, LenProperties DEF ToSet, Contains
    <3>4. QED  BY <3>1, <3>3
  <2>5. \A p \in inflight \cup ToSet(sq) : p.trk \in Trackers
    BY <1>a DEF InUse
  <2>6. \A p \in inflight : p.dev = DeviceOf[read'[tracker'[p.trk].req].file]
    BY <1>0, <2>1, <2>5 DEF SlotsOK, Owner
  <2>7. \A s \in ToSet(sq) : s.fd = FixedFd'[DeviceOf[read'[tracker'[s.trk].req].file]]
    BY <1>0, <2>1, <2>5 DEF SlotsOK, Owner
  <2>8. PartEntry.fd = FixedFd'[DeviceOf[read'[tracker'[PartEntry.trk].req].file]]
    BY <2>1, <2>2, <2>3 DEF PartRead
  <2>9. QED  BY <1>0, <2>1, <2>4, <2>6, <2>7, <2>8 DEF SlotsOK, Owner, TableOK, NoneTwice
<1>14. ASSUME NEW r \in Requests, SubmitRequest(r) PROVE SlotsOK'
  <2>1. /\ UNCHANGED <<trackerVars, requestVars, deviceVars, finished, cq, memoryVars,
                       NumPendingCompletions>>
        /\ (Submit \/ UNCHANGED <<sq, inflight>>)
    BY <1>14 DEF SubmitRequest
  <2>2. QED  BY <1>3, <2>1
<1>15. CASE SubmissionQueueFull
  BY <1>3, <1>15 DEF SubmissionQueueFull
<1>16. CASE Poll
  <2>1. InUse' = InUse
    BY <1>0, <1>16, PollKeeps
  <2>2. QED  BY <1>2, <1>16, <2>1 DEF Poll, trackerVars, requestVars, deviceVars
<1>17. CASE EnterRequestLoop \/ NothingToWaitFor \/ ServiceWait
  BY <1>2, <1>17, RingSame DEF EnterRequestLoop, NothingToWaitFor, ServiceWait,
                               trackerVars, requestVars, deviceVars, ringVars
<1>18. CASE ProcessCompletedRequests \/ WaitCqe
  <2>1. ASSUME NEW cqes, Reaps(cqes) PROVE SlotsOK'
    <3>1. /\ UNCHANGED <<read, FixedFd, sq, inflight>> /\ InUse' = InUse \ Finished(cqes)
          /\ \A t \in Trackers : tracker'[t].req =
                IF t \in Finished(cqes) THEN None ELSE tracker[t].req
      BY <1>0, <2>1, ReapEffects DEF deviceVars
    <3>2. \A t \in InUse' : tracker'[t].req = tracker[t].req
      BY <1>a, <3>1
    <3>3. QED  BY <1>0, <3>1, <3>2, SlotsKept
  <2>2. CASE UNCHANGED <<requestVars, deviceVars, trackerVars, ringVars>>
    BY <1>2, <2>2, RingSame DEF requestVars, deviceVars, trackerVars, ringVars
  <2>3. QED  BY <1>0, <1>18, <2>1, <2>2, ReapCases
<1>19. ASSUME NEW p \in inflight, NEW ok \in BOOLEAN, Complete(p, ok) PROVE SlotsOK'
  <2>1. /\ InUse' = InUse /\ sq' = sq /\ inflight' = inflight \ {p}
        /\ UNCHANGED <<read, FixedFd, tracker>>
    BY <1>0, <1>19, CompleteEffects DEF deviceVars, trackerVars
  <2>2. QED  BY <1>0, <2>1, SlotsKept
<1>20. QED
  <2>1. CASE Engine
    BY <2>1, <1>4, <1>5, <1>6 DEF Engine
  <2>2. CASE Service
    BY <2>2, <1>7, <1>8, <1>9, <1>10, <1>11, <1>12, <1>13, <1>14, <1>15, <1>16, <1>17, <1>18
       DEF Service
  <2>3. QED  BY <2>1, <2>2, <1>19 DEF Next

\* So every command names the slot its device has.
LEMMA CommandsFrom ==
    TypeOK /\ RingTypes /\ RequestsOK /\ TrackersOK /\ CountsOK /\ RegisteredOK /\ SlotsOK
       /\ TableOK => CommandsInTable
<1> SUFFICES ASSUME TypeOK, RingTypes, RequestsOK, TrackersOK, CountsOK, RegisteredOK, SlotsOK,
                    TableOK, NEW p \in ToSet(sq)
             PROVE  ktable[p.fd] = DeviceOf[read[tracker[p.trk].req].file]
  BY DEF CommandsInTable
<1> DEFINE r == tracker[p.trk].req
           f == read[r].file
<1>1. p.trk \in InUse
  BY DEF InUse
<1>2. p.trk \in Trackers /\ r \in Requests /\ status[r] = "accepted"
  BY <1>1, InUseIsTracked
<1>3. /\ f \in Files /\ DeviceOf[f] \in Devices /\ f \in RegisteredContainers[DeviceOf[f]]
  BY <1>2, ReadsFit, NvmeConstants DEF RegisteredOK, Tracked, RequestsOK
<1>4. FixedFd[DeviceOf[f]] # -1 /\ ktable[FixedFd[DeviceOf[f]]] = DeviceOf[f]
  BY <1>3 DEF TableOK
<1>5. p.fd = FixedFd[DeviceOf[f]]
  BY DEF SlotsOK, Owner
<1>6. QED  BY <1>4, <1>5

\* The same of the next state.
LEMMA CommandsFromNext ==
    TypeOK' /\ RingTypes' /\ RequestsOK' /\ TrackersOK' /\ CountsOK' /\ RegisteredOK' /\ SlotsOK'
       /\ TableOK' => CommandsInTable'
  BY CommandsFrom, PTL

\* TableFrom of the next state.
LEMMA TableFromNext == TableOK' /\ CommandsInTable' => DeviceTableConsistent'
  BY TableFrom, PTL

\* Every step keeps DeviceTableConsistent.
LEMMA DeviceStep ==
    ASSUME IInv, Next
    PROVE  DeviceTableConsistent'
  BY TypeStep, RequestsStep, TrackersStep, RegisteredStep, SlotsStep, TableStep,
     CommandsFromNext, TableFromNext

-----------------------------------------------------------------------------
(* The loop over extents                                                     *)

\* Where in the file the rest of the read starts.
RestAt == AlignedOffset(PartRead) + AlignedSize(PartRead) - BlockSize * split.remaining

\* In a read with no hole in it, a part after the first begins where its extent
\* does, inside the read, and where it ends with its extent the next one follows.
LEMMA MappedPart ==
    ASSUME TypeOK, ControlOK, RequestsOK, RegisteredOK, DeviceTableConsistent, SplitOK,
           pc = "split", WhollyMapped(FileExtents[PartRead.file], PartRead)
    PROVE  LET file == FileExtents[PartRead.file]
           IN  /\ split.extent # split.start =>
                    /\ AlignedOffset(PartRead) < PartExtent.LogicalOffset
                    /\ PartExtent.LogicalOffset <
                         AlignedOffset(PartRead) + AlignedSize(PartRead)
               /\ PartFrom(PartExtent, PartStart) = RestAt
               /\ PartNum # split.remaining =>
                    /\ split.extent + 1 \in 1 .. Len(file)
                    /\ file[split.extent + 1].LogicalOffset = RestAt + BlockSize * PartNum
<1> DEFINE file == FileExtents[PartRead.file]
           AO == AlignedOffset(PartRead)
           AS == AlignedSize(PartRead)
           rem == split.remaining
           M == moved[buffer[NextRequest]]
<1>1. /\ PartRead \in Reads /\ Layout(file) /\ split.extent \in 1 .. Len(file)
      /\ buffer[NextRequest] \in Buffers
      /\ rem \in Nat \ {0} /\ PartNum \in 1 .. rem
      /\ PartFrom(PartExtent, PartStart) \in Nat
      /\ PartExtent.LogicalOffset \in Nat /\ ExtentEnd(PartExtent) \in Nat
      /\ PartNum # rem =>
           BlockSize * PartNum = ExtentEnd(PartExtent) - PartFrom(PartExtent, PartStart)
  BY PartInHand
<1>2. AO \in Nat /\ AS \in Nat \ {0}
  BY <1>1, AlignedRead
<1>3. M \in Int
  BY <1>1 DEF TypeOK
<1>4. /\ split.ptr = M + AS - BlockSize * rem
      /\ split.extent = split.start => split.ptr = M
      /\ split.extent # split.start => split.ptr > M
      /\ IF split.extent = split.start
           THEN PartExtent.LogicalOffset <= RestAt
           ELSE PartExtent.LogicalOffset = RestAt
      /\ PartExtent = file[split.extent]
  BY DEF SplitOK, PartRead, PartExtent, RestAt
<1>5. /\ BlockSize * rem \in Int /\ BlockSize * rem > 0 /\ BlockSize * PartNum \in Int
      /\ PartNum # rem => BlockSize * PartNum < BlockSize * rem
      /\ BlockSize * PartNum > 0
  <2>1. BlockSize \in Nat \ {0}
    BY ExtentConstants
  <2>a. rem \in Int /\ rem >= 1 /\ PartNum \in Int /\ PartNum >= 1
    BY <1>1
  <2>2. BlockSize * rem >= BlockSize /\ BlockSize * rem \in Int
    BY <2>a, BlocksProduct
  <2>3. BlockSize * PartNum \in Int /\ BlockSize * PartNum >= BlockSize
    BY <2>a, BlocksProduct
  <2>4. ASSUME PartNum # rem PROVE BlockSize * PartNum < BlockSize * rem
    <3>1. PartNum + 1 <= rem /\ PartNum + 1 \in Int /\ PartNum \in Int /\ rem \in Int /\ 1 \in Int
      BY <1>1, <2>4
    <3>2. BlockSize * (PartNum + 1) = BlockSize * PartNum + BlockSize * 1
      BY <3>1, BlocksProduct
    <3>3. BlockSize * (PartNum + 1) <= BlockSize * rem
      BY <3>1, BlocksProduct
    <3>4. BlockSize * 1 = BlockSize
      BY <2>1
    <3> HIDE DEF rem
    <3>5. QED  BY <2>1, <2>2, <2>3, <3>2, <3>3, <3>4
  <2>5. QED  BY <2>1, <2>2, <2>3, <2>4
<1>6. RestAt = AO + AS - BlockSize * rem
  BY DEF RestAt
<1>7. /\ AO # -1
      /\ PartFrom(PartExtent, PartStart) =
           IF split.extent = split.start THEN AO ELSE PartExtent.LogicalOffset
  BY <1>2 DEF PartFrom, PartStart
<1> DEFINE R == BlockSize * rem
           N == BlockSize * PartNum
<1> HIDE DEF AO, AS, rem, M, R, N
<1>8. PartFrom(PartExtent, PartStart) = RestAt
  BY <1>2, <1>3, <1>4, <1>5, <1>6, <1>7 DEF R
<1>9. ASSUME split.extent # split.start
      PROVE  AO < PartExtent.LogicalOffset /\ PartExtent.LogicalOffset < AO + AS
  BY <1>2, <1>3, <1>4, <1>5, <1>6, <1>9 DEF R
<1>10. ASSUME PartNum # rem
       PROVE  /\ split.extent + 1 \in 1 .. Len(file)
              /\ file[split.extent + 1].LogicalOffset = RestAt + BlockSize * PartNum
  <2>1. ExtentEnd(file[split.extent]) = RestAt + BlockSize * PartNum
    BY <1>1, <1>4, <1>5, <1>8, <1>10 DEF N, rem
  <2>2. /\ ExtentEnd(file[split.extent]) \in Int
        /\ AO <= ExtentEnd(file[split.extent]) /\ ExtentEnd(file[split.extent]) <= AO + AS - 1
    <3>1. RestAt >= AO
      BY <1>2, <1>3, <1>4, <1>5, <1>6 DEF R
    <3>2. N \in Int /\ N > 0 /\ N < R /\ R \in Int
      BY <1>5, <1>10 DEF N, R
    <3>3. RestAt = AO + AS - R /\ ExtentEnd(file[split.extent]) = RestAt + N
      BY <1>6, <2>1 DEF R, N
    <3> HIDE DEF file
    <3>4. QED  BY <1>2, <3>1, <3>2, <3>3
  <2>3. DeviceByte(file, ExtentEnd(file[split.extent])) # -1
    BY <1>2, <2>2 DEF WhollyMapped, AO, AS
  <2>4. QED  BY <1>1, <2>1, <2>3, NextExtent
<1>11. QED  BY <1>8, <1>9, <1>10 DEF AO, AS, rem

\* A read that is set up starts with the extent that holds its first byte.
LEMMA MappedStart ==
    ASSUME NEW rd \in Reads, NEW file, Layout(file), WhollyMapped(file, rd)
    PROVE  LET k == FindStartExtent(file, AlignedOffset(rd))
           IN  /\ ~StartMissing(file, AlignedOffset(rd))
               /\ file[k].LogicalOffset <= AlignedOffset(rd)
<1> DEFINE AO == AlignedOffset(rd)
           k == FindStartExtent(file, AO)
<1>1. AO \in Nat /\ AlignedSize(rd) \in Nat \ {0}
  BY AlignedRead
<1>2. DeviceByte(file, AO) # -1
  <2>1. AO \in AO .. AO + AlignedSize(rd) - 1
    BY <1>1
  <2>2. QED  BY <2>1 DEF WhollyMapped
<1>3. PICK j \in 1 .. Len(file) : file[j].LogicalOffset <= AO /\ AO < ExtentEnd(file[j])
  BY <1>1, <1>2, MappedByte
<1>4. DOMAIN file = 1 .. Len(file) /\ Len(file) \in Nat
      /\ \A i \in 1 .. Len(file) : file[i].LogicalOffset \in Nat /\ ExtentEnd(file[i]) \in Nat
                                   /\ file[i].LogicalOffset < ExtentEnd(file[i])
  BY LayoutFacts
<1>5. Reaches(file[j], AO)
  BY <1>1, <1>3, <1>4 DEF Reaches
<1>6. /\ ~StartMissing(file, AO) /\ k \in 1 .. Len(file) /\ \A i \in 1 .. k - 1 : ~Reaches(file[i], AO)
  <2>1. \E i \in DOMAIN file : Reaches(file[i], AO)
    BY <1>4, <1>5
  <2>2. QED  BY <2>1, StartExtent
<1> HIDE DEF k, AO
<1>7. k <= j
  BY <1>3, <1>4, <1>5, <1>6
<1>8. file[k].LogicalOffset <= file[j].LogicalOffset
  <2>1. CASE k = j
    BY <1>4, <1>6, <2>1
  <2>2. CASE k < j
    <3>1. ExtentEnd(file[k]) <= file[j].LogicalOffset
      BY <1>3, <1>6, <2>2, LayoutFacts
    <3>2. QED  BY <1>3, <1>4, <1>6, <3>1
  <2>3. QED  BY <1>3, <1>4, <1>6, <1>7, <2>1, <2>2
<1>9. file[k].LogicalOffset <= AO
  BY <1>1, <1>3, <1>4, <1>6, <1>8
<1>10. QED  BY <1>6, <1>9 DEF k, AO

\* Every step keeps the loop over extents where it should be.
LEMMA SplitStep ==
    ASSUME IInv, Next
    PROVE  SplitOK'
<1>0. /\ TypeOK /\ RingTypes /\ ControlOK /\ RequestsOK /\ RegisteredOK
      /\ DeviceTableConsistent /\ SlotsOK /\ TrackersOK /\ CountsOK /\ PartsApart /\ SplitOK
      /\ moved \in [Buffers -> Int]
  BY DEF IInv, TypeOK
<1>1. ASSUME pc' # "split" PROVE SplitOK'
  BY <1>1 DEF SplitOK
<1>2. ASSUME UNCHANGED <<pc, split, NextRequest, moved>>,
             pc = "split" => read'[NextRequest] = read[NextRequest]
                             /\ buffer'[NextRequest] = buffer[NextRequest]
      PROVE  SplitOK'
  BY <1>0, <1>2 DEF SplitOK
<1>3. pc = "split" => NextRequest \in Requests /\ status[NextRequest] = "accepted"
  BY <1>0 DEF ControlOK, InHand
<1>4. ASSUME NEW f \in Files, OpenContainer(f) \/ CloseContainer(f) PROVE SplitOK'
  BY <1>2, <1>4 DEF OpenContainer, CloseContainer, loopVars, requestVars, memoryVars
<1>5. ASSUME NEW r \in Requests, NEW rd \in Reads, PushRequest(r, rd) PROVE SplitOK'
  <2>1. /\ status[r] = "idle" /\ read' = [read EXCEPT ![r] = rd]
        /\ UNCHANGED <<buffer, pc, split, NextRequest, moved>>
    BY <1>5 DEF PushRequest, loopVars, memoryVars
  <2>2. QED  BY <1>0, <1>2, <1>3, <2>1 DEF TypeOK
<1>6. ASSUME NEW r \in Requests, ReleaseRequest(r) PROVE SplitOK'
  <2>1. /\ status[r] = "completed" /\ read' = [read EXCEPT ![r] = None]
        /\ buffer' = [buffer EXCEPT ![r] = None]
        /\ UNCHANGED <<pc, split, NextRequest, moved>>
    BY <1>6 DEF ReleaseRequest, loopVars
  <2>2. QED  BY <1>0, <1>2, <1>3, <2>1 DEF TypeOK
<1>7. ASSUME NEW f \in Files, UnregisterNvmeFile(f) PROVE SplitOK'
  BY <1>1, <1>7 DEF UnregisterNvmeFile, loopVars
<1>8. ASSUME NEW b, NoNextRequest(b) PROVE SplitOK'
  BY <1>1, <1>8 DEF NoNextRequest
<1>9. ASSUME NEW r \in Requests,
             \/ \E b \in Buffers : GetNextRequest(r, b)
             \/ \E ok \in BOOLEAN : RegisterNvmeFile(r, ok)
             \/ \E hit \in BOOLEAN : AllocateMemory(r, hit)
             \/ SubmitRequest(r)
      PROVE  SplitOK'
  BY <1>1, <1>9 DEF GetNextRequest, RegisterNvmeFile, AllocateMemory, SubmitRequest
<1>10. CASE EnterRequestLoop \/ NothingToWaitFor \/ ServiceWait
  BY <1>1, <1>10 DEF EnterRequestLoop, NothingToWaitFor, ServiceWait
<1>11. CASE SubmissionQueueFull \/ Poll
  BY <1>2, <1>11 DEF SubmissionQueueFull, Poll, requestVars, loopVars, memoryVars
<1>12. CASE ProcessCompletedRequests \/ WaitCqe
  <2>1. pc' # "split"
    BY <1>0, <1>12 DEF ProcessCompletedRequests, WaitCqe, AfterProcess, ControlOK
  <2>2. QED  BY <1>1, <2>1
<1>13. ASSUME NEW p, NEW ok, Complete(p, ok) PROVE SplitOK'
  BY <1>2, <1>13 DEF Complete, loopVars
<1>14. ASSUME NEW r \in Requests, PrepareRequestNvme(r) PROVE SplitOK'
  <2> DEFINE rd == read[r]
             file == FileExtents[rd.file]
             start == FindStartExtent(file, AlignedOffset(rd))
             M == Rewound(buffer[r])
             rem == AlignedSize(rd) \div BlockSize
  <2>1. /\ r = NextRequest /\ UNCHANGED <<read, buffer, NextRequest>>
        /\ buffer[r] \in Buffers /\ rd \in Reads /\ Layout(file)
        /\ moved' = [moved EXCEPT ![buffer[r]] = M]
        /\ \/ pc' = "submit"
           \/ /\ pc' = "split" /\ ~StartMissing(file, AlignedOffset(rd))
              /\ split' = [trk |-> Tracker, start |-> start, extent |-> start,
                           ptr |-> M, remaining |-> rem]
    BY <1>0, <1>14, PrepareEffects
  <2>2. CASE pc' = "submit"
    BY <1>1, <2>2
  <2>3. CASE pc' = "split" /\ pc' # "submit"
    <3>1. start \in 1 .. Len(file) /\ Reaches(file[start], AlignedOffset(rd))
      BY <2>1, <2>3, StartExtent
    <3>2. DOMAIN file = 1 .. Len(file) /\ Len(file) \in Nat
      BY <2>1, LayoutFacts
    <3>3. AlignedSize(rd) = BlockSize * rem /\ AlignedOffset(rd) \in Nat /\ AlignedSize(rd) \in Nat
      BY <2>1, AlignedRead
    <3>4. WhollyMapped(file, rd) => file[start].LogicalOffset <= AlignedOffset(rd)
      BY <2>1, MappedStart
    <3>5. M \in Int /\ moved'[buffer[r]] = M
      BY <1>0, <2>1 DEF Rewound, TypeOK
    <3>6. split'.start = start /\ split'.extent = start /\ split'.ptr = M /\ split'.remaining = rem
      BY <2>1, <2>3
    <3> HIDE DEF start, M, rem
    <3>7. start \in 1 .. start
      BY <3>1, <3>2
    <3>8. /\ M = M + AlignedSize(rd) - BlockSize * rem
          /\ AlignedOffset(rd) + AlignedSize(rd) - BlockSize * rem = AlignedOffset(rd)
      BY <3>3, <3>5
    <3>9. QED  BY <2>1, <3>1, <3>2, <3>4, <3>5, <3>6, <3>7, <3>8 DEF SplitOK
  <2>4. QED  BY <2>1, <2>2, <2>3
<1>15. ASSUME NEW r \in Requests, PreparePart(r) PROVE SplitOK'
  <2>1. /\ pc = "split" /\ r = NextRequest /\ pc' \in {"fatal", "split", "submit"}
        /\ UNCHANGED <<requestVars, NextRequest, memoryVars>>
    BY <1>0, <1>15, PartEffects
  <2>2. CASE pc' # "split"
    BY <1>1, <2>2
  <2>3. CASE pc' = "split"
    <3> DEFINE file == FileExtents[PartRead.file]
               M == moved[buffer[NextRequest]]
               AO == AlignedOffset(PartRead)
               AS == AlignedSize(PartRead)
               rem == split.remaining
    <3>1. /\ PartNum # rem /\ split.extent # Len(file)
          /\ split' = [trk |-> split.trk, start |-> split.start, extent |-> split.extent + 1,
                       ptr |-> split.ptr + BlockSize * PartNum,
                       remaining |-> rem - PartNum]
      BY <1>0, <1>15, <2>3, SplitGoesOn
    <3>2. /\ split'.start = split.start /\ split'.extent = split.extent + 1
          /\ split'.ptr = split.ptr + BlockSize * PartNum /\ split'.remaining = rem - PartNum
      BY <3>1
    <3>3. /\ rem \in Nat \ {0} /\ PartNum \in 1 .. rem /\ split.ptr \in Int
          /\ split.start \in 1 .. split.extent /\ split.extent \in 1 .. Len(file)
          /\ Layout(file) /\ PartRead \in Reads /\ buffer[NextRequest] \in Buffers
      BY <1>0, <2>1, PartInHand
    <3>4. DOMAIN file = 1 .. Len(file) /\ Len(file) \in Nat /\ AO \in Nat /\ AS \in Nat
          /\ M \in Int
      BY <1>0, <3>3, LayoutFacts, AlignedRead
    <3>5. /\ Reaches(file[split.start], AO)
          /\ split.ptr = M + AS - BlockSize * rem
          /\ split.extent = split.start => split.ptr = M
          /\ split.extent # split.start => split.ptr > M
      BY <1>0, <2>1 DEF SplitOK, PartRead
    <3>a. /\ rem \in Int /\ PartNum \in Int /\ PartNum >= 1
      BY <3>3
    <3>6. /\ BlockSize * rem \in Int /\ BlockSize * PartNum \in Int /\ BlockSize * PartNum >= BlockSize
          /\ BlockSize * (rem - PartNum) = BlockSize * rem - BlockSize * PartNum
          /\ BlockSize \in Nat \ {0}
      BY <3>a, BlocksProduct, ExtentConstants
    <3>7. WhollyMapped(file, PartRead) =>
             file[split.extent + 1].LogicalOffset = RestAt + BlockSize * PartNum
      BY <1>0, <2>1, <3>1, MappedPart
    <3>8. RestAt = AO + AS - BlockSize * rem
      BY DEF RestAt
    <3>9. UNCHANGED <<PartRead>> /\ M' = M /\ file' = file /\ AO' = AO /\ AS' = AS
      BY <2>1 DEF PartRead, requestVars, memoryVars
    <3> HIDE DEF AO, AS, rem, M, file
    <3>10. /\ split.start \in 1 .. split.extent + 1 /\ split.extent + 1 \in DOMAIN file
           /\ split.extent + 1 # split.start
      BY <3>1, <3>3, <3>4
    <3>11. /\ split'.ptr = M + AS - BlockSize * split'.remaining
           /\ split'.ptr > M
      BY <3>2, <3>3, <3>4, <3>5, <3>6
    <3>12. RestAt + BlockSize * PartNum = AO + AS - BlockSize * split'.remaining
      BY <3>2, <3>4, <3>6, <3>8
    <3>13. /\ split'.start \in 1 .. split'.extent /\ split'.extent \in DOMAIN file
           /\ split'.extent # split'.start /\ Reaches(file[split'.start], AO)
           /\ WhollyMapped(file, PartRead) =>
                file[split'.extent].LogicalOffset = AO + AS - BlockSize * split'.remaining
      BY <3>2, <3>5, <3>7, <3>10, <3>12
    <3>14. /\ PartRead = read'[NextRequest'] /\ M = moved'[buffer'[NextRequest']]
      BY <2>1 DEF PartRead, M, requestVars, memoryVars
    <3>15. /\ AO = AlignedOffset(read'[NextRequest']) /\ AS = AlignedSize(read'[NextRequest'])
           /\ file = FileExtents[read'[NextRequest'].file]
      BY <3>14 DEF AO, AS, file
    <3>16. QED  BY <3>11, <3>13, <3>14, <3>15 DEF SplitOK
  <2>4. QED  BY <2>2, <2>3
<1>16. QED
  <2>1. CASE Engine
    BY <2>1, <1>4, <1>5, <1>6 DEF Engine
  <2>2. CASE Service
    BY <2>2, <1>7, <1>8, <1>9, <1>10, <1>11, <1>12, <1>14, <1>15 DEF Service
  <2>3. QED  BY <2>1, <2>2, <1>13 DEF Next

\* With every slot taken there are as many devices registered.
LEMMA SlotForEach ==
    ASSUME TypeOK, TableOK, FreeRegisteredFiles = <<>>, NEW d \in Devices, FixedFd[d] = -1
    PROVE  Cardinality(Devices) > MaxFixedFiles
<1>1. /\ ktable \in [Slots -> Devices \cup {None}] /\ IsFiniteSet(Devices)
      /\ MaxFixedFiles \in Nat /\ -1 \notin Slots
  BY NvmeConstants DEF TypeOK, Slots
<1>2. \A s \in Slots : ktable[s] # None
  BY LenProperties DEF TableOK, Contains
<1>3. \A s \in Slots : ktable[s] \in Devices \ {d} /\ FixedFd[ktable[s]] = s
  <2>1. TAKE s \in Slots
  <2>2. ktable[s] \in Devices /\ FixedFd[ktable[s]] = s
    BY <1>1, <1>2 DEF TableOK
  <2>3. ktable[s] # d
    BY <1>1, <2>2
  <2>4. QED  BY <2>2, <2>3
<1>4. ktable \in Injection(Slots, Devices \ {d})
  <2>1. ktable \in [Slots -> Devices \ {d}]
    BY <1>1, <1>3
  <2>2. \A s, t \in Slots : ktable[s] = ktable[t] => s = t
    BY <1>3
  <2>3. QED  BY <2>1, <2>2 DEF Injection, IsInjective
<1>5. /\ IsFiniteSet(Devices \ {d}) /\ Cardinality(Devices \ {d}) = Cardinality(Devices) - 1
      /\ Cardinality(Devices) \in Nat
  BY <1>1, FS_RemoveElement, FS_CardinalityType
<1>6. MaxFixedFiles <= Cardinality(Devices \ {d})
  BY <1>4, <1>5, FS_Injection, SlotsFinite
<1>7. QED  BY <1>1, <1>5, <1>6

\* No step but one of a read with a hole in it, or of a device too many, is fatal.
LEMMA FatalStep ==
    ASSUME IInv, Next
    PROVE  FatalOnlyIfUnmapped'
<1>0. /\ TypeOK /\ RingTypes /\ ControlOK /\ RequestsOK /\ RegisteredOK
      /\ DeviceTableConsistent /\ SlotsOK /\ TrackersOK /\ CountsOK /\ PartsApart /\ SplitOK
      /\ FatalOnlyIfUnmapped /\ TableOK
  BY TableForm DEF IInv
<1>1. ASSUME pc' # "fatal" PROVE FatalOnlyIfUnmapped'
  BY <1>1 DEF FatalOnlyIfUnmapped
<1>2. ASSUME UNCHANGED <<pc, NextRequest>>,
             pc = "fatal" => read'[NextRequest] = read[NextRequest]
      PROVE  FatalOnlyIfUnmapped'
  BY <1>0, <1>2 DEF FatalOnlyIfUnmapped
<1>3. pc = "fatal" => NextRequest \in Requests /\ status[NextRequest] = "accepted"
  BY <1>0 DEF ControlOK, InHand
<1>4. ASSUME NEW f \in Files, OpenContainer(f) \/ CloseContainer(f) PROVE FatalOnlyIfUnmapped'
  BY <1>2, <1>4 DEF OpenContainer, CloseContainer, loopVars, requestVars
<1>5. ASSUME NEW r \in Requests, NEW rd \in Reads, PushRequest(r, rd) PROVE FatalOnlyIfUnmapped'
  <2>1. /\ status[r] = "idle" /\ read' = [read EXCEPT ![r] = rd] /\ UNCHANGED <<pc, NextRequest>>
    BY <1>5 DEF PushRequest, loopVars
  <2>2. QED  BY <1>0, <1>2, <1>3, <2>1 DEF TypeOK
<1>6. ASSUME NEW r \in Requests, ReleaseRequest(r) PROVE FatalOnlyIfUnmapped'
  <2>1. /\ status[r] = "completed" /\ read' = [read EXCEPT ![r] = None]
        /\ UNCHANGED <<pc, NextRequest>>
    BY <1>6 DEF ReleaseRequest, loopVars
  <2>2. QED  BY <1>0, <1>2, <1>3, <2>1 DEF TypeOK
<1>7. ASSUME NEW f \in Files, UnregisterNvmeFile(f) PROVE FatalOnlyIfUnmapped'
  BY <1>1, <1>7 DEF UnregisterNvmeFile, loopVars
<1>8. ASSUME NEW b, NoNextRequest(b) PROVE FatalOnlyIfUnmapped'
  BY <1>1, <1>8 DEF NoNextRequest
<1>9. ASSUME NEW r \in Requests,
             \/ \E b \in Buffers : GetNextRequest(r, b)
             \/ \E hit \in BOOLEAN : AllocateMemory(r, hit)
             \/ PrepareRequestNvme(r) \/ SubmitRequest(r)
      PROVE  FatalOnlyIfUnmapped'
  BY <1>1, <1>9 DEF GetNextRequest, PrepareRequestNvme, AllocateMemory, SubmitRequest
<1>10. CASE EnterRequestLoop \/ NothingToWaitFor \/ ServiceWait
  BY <1>1, <1>10 DEF EnterRequestLoop, NothingToWaitFor, ServiceWait
<1>11. CASE SubmissionQueueFull \/ Poll
  BY <1>1, <1>11 DEF SubmissionQueueFull, Poll, loopVars
<1>12. CASE ProcessCompletedRequests \/ WaitCqe
  <2>1. pc' # "fatal"
    BY <1>0, <1>12 DEF ProcessCompletedRequests, WaitCqe, AfterProcess, ControlOK
  <2>2. QED  BY <1>1, <2>1
<1>13. ASSUME NEW p, NEW ok, Complete(p, ok) PROVE FatalOnlyIfUnmapped'
  BY <1>2, <1>13 DEF Complete, loopVars
<1>14. ASSUME NEW r \in Requests, NEW ok \in BOOLEAN, RegisterNvmeFile(r, ok)
       PROVE  FatalOnlyIfUnmapped'
  <2> DEFINE d == DeviceOf[read[r].file]
  <2>1. /\ pc = "open" /\ r = NextRequest
        /\ pc' = "fatal" => FixedFd[d] = -1 /\ FreeRegisteredFiles = <<>>
    BY <1>14 DEF RegisterNvmeFile
  <2>2. d \in Devices
    BY <1>0, <2>1, ReadsFit, NvmeConstants DEF RequestsOK, ControlOK, InHand
  <2>3. pc' = "fatal" => Cardinality(Devices) > MaxFixedFiles
    BY <1>0, <2>1, <2>2, SlotForEach
  <2>4. pc' = "fatal" => ~(Cardinality(Devices) <= MaxFixedFiles)
    <3>1. Cardinality(Devices) \in Nat /\ MaxFixedFiles \in Nat
      BY FS_CardinalityType, NvmeConstants
    <3>2. QED  BY <2>3, <3>1
  <2>5. QED  BY <2>4 DEF FatalOnlyIfUnmapped
<1>15. ASSUME NEW r \in Requests, PreparePart(r) PROVE FatalOnlyIfUnmapped'
  <2> DEFINE file == FileExtents[PartRead.file]
             AO == AlignedOffset(PartRead)
             AS == AlignedSize(PartRead)
  <2>1. /\ pc = "split" /\ r = NextRequest /\ UNCHANGED <<read, NextRequest>>
    BY <1>0, <1>15, PartEffects DEF requestVars
  <2>2. ASSUME WhollyMapped(file, PartRead) PROVE pc' # "fatal"
    <3>1. /\ split.extent # split.start =>
               AO < PartExtent.LogicalOffset /\ PartExtent.LogicalOffset < AO + AS
          /\ PartNum # split.remaining => split.extent + 1 \in 1 .. Len(file)
      BY <1>0, <2>1, <2>2, MappedPart
    <3>2. /\ Extents(PartRead.file) = file /\ Layout(file) /\ split.extent \in 1 .. Len(file)
          /\ PartRead \in Reads
          /\ PartExtent.LogicalOffset \in Nat
      BY <1>0, <2>1, PartInHand
    <3>3. Len(file) \in Nat /\ AO \in Nat /\ AS \in Nat
      BY <3>2, LayoutFacts, AlignedRead
    <3>4. PartNum # split.remaining => split.extent # Len(file)
      BY <3>1, <3>2, <3>3
    <3>5. AO + AS > PartExtent.LogicalOffset <=> PartExtent.LogicalOffset < AO + AS
      <4> HIDE DEF AO, AS
      <4>1. QED  BY <3>2, <3>3
    <3>6. pc' = LET first == split.extent = split.start
                    sane == first \/ (/\ AO < PartExtent.LogicalOffset
                                      /\ AO + AS > PartExtent.LogicalOffset)
                    done == PartNum = split.remaining
                IN  CASE ~sane \/ (~done /\ split.extent = Len(file)) -> "fatal"
                      [] sane /\ done -> "submit"
                      [] OTHER -> "split"
      BY <1>15, <2>1, <3>2 DEF PreparePart, PartNum, PartExtent, PartStart, PartRead
    <3> HIDE DEF AO, AS, file
    <3>7. QED  BY <3>1, <3>4, <3>5, <3>6
  <2>3. QED  BY <2>1, <2>2 DEF FatalOnlyIfUnmapped, PartRead
<1>16. QED
  <2>1. CASE Engine
    BY <2>1, <1>4, <1>5, <1>6 DEF Engine
  <2>2. CASE Service
    BY <2>2, <1>7, <1>8, <1>9, <1>10, <1>11, <1>12, <1>14, <1>15 DEF Service
  <2>3. QED  BY <2>1, <2>2, <1>13 DEF Next

-----------------------------------------------------------------------------
(* Commands of one read                                                      *)

\* Commands that were apart are when some are carried out,
LEMMA ApartKept ==
    ASSUME PartsApart, sq' = sq, inflight' \subseteq inflight,
           pc' = "split" => UNCHANGED <<pc, split>>,
           \A p \in Parts' : buffer'[tracker'[p.trk].req] = buffer[tracker[p.trk].req]
    PROVE  PartsApart'
<1>1. Parts' \subseteq Parts
  BY DEF Parts
<1>2. \A p \in Parts' :
         /\ p.buf = buffer'[Owner(p)']
         /\ pc' = "split" /\ p.trk = split'.trk => p.addr + BlockSize * p.num <= split'.ptr
  BY <1>1 DEF PartsApart, Owner
<1>3. /\ \A i, j \in DOMAIN sq' : i # j => Apart(sq'[i], sq'[j])
      /\ \A p, q \in inflight' : p # q => Apart(p, q)
      /\ \A s \in ToSet(sq'), p \in inflight' : Apart(s, p)
  BY DEF PartsApart
<1>4. QED  BY <1>2, <1>3 DEF PartsApart

\* submitted,
LEMMA ApartSubmit ==
    ASSUME TypeOK, RingTypes, RequestsOK, TrackersOK, CountsOK, SlotsOK, PartsApart,
           DeviceTableConsistent, Submit, UNCHANGED <<tracker, buffer>>,
           pc' = "split" => UNCHANGED <<pc, split>>
    PROVE  PartsApart'
<1>1. /\ inflight' = inflight \cup {Command(s) : s \in ToSet(sq)} /\ sq' = <<>>
      /\ \A p \in Parts' : p \in inflight \/ \E s \in ToSet(sq) : p = Command(s)
  BY SubmitEffects
<1>2. \A s \in ToSet(sq) :
         /\ Command(s).trk = s.trk /\ Command(s).buf = s.buf /\ Command(s).addr = s.addr
         /\ Command(s).num = s.num
  BY CommandOf
<1>3. ToSet(sq') = {} /\ DOMAIN sq' = {}
  BY <1>1 DEF ToSet
<1>4. ASSUME NEW p \in inflight', NEW q \in inflight', p # q PROVE Apart(p, q)
  <2>1. CASE p \in inflight /\ q \in inflight
    BY <1>4, <2>1 DEF PartsApart
  <2>2. ASSUME NEW s \in ToSet(sq), p = Command(s), q \in inflight PROVE Apart(p, q)
    BY <1>2, <2>2 DEF PartsApart, Apart
  <2>3. ASSUME NEW s \in ToSet(sq), q = Command(s), p \in inflight PROVE Apart(p, q)
    <3>1. Apart(s, p)
      BY <2>3 DEF PartsApart
    <3>2. QED  BY <1>2, <2>3, <3>1 DEF Apart
  <2>4. ASSUME NEW s \in ToSet(sq), NEW u \in ToSet(sq), p = Command(s), q = Command(u)
        PROVE  Apart(p, q)
    <3>1. PICK i \in DOMAIN sq, j \in DOMAIN sq : s = sq[i] /\ u = sq[j]
      BY DEF ToSet
    <3>2. i # j
      BY <1>4, <2>4, <3>1
    <3>3. Apart(s, u)
      BY <3>1, <3>2 DEF PartsApart
    <3>4. QED  BY <1>2, <2>4, <3>3 DEF Apart
  <2>5. QED  BY <1>1, <2>1, <2>2, <2>3, <2>4
<1>5. ASSUME NEW p \in Parts'
      PROVE  /\ p.buf = buffer'[Owner(p)']
             /\ pc' = "split" /\ p.trk = split'.trk => p.addr + BlockSize * p.num <= split'.ptr
  <2>1. PICK s \in Parts : /\ p.trk = s.trk /\ p.buf = s.buf /\ p.addr = s.addr
                           /\ p.num = s.num
    BY <1>1, <1>2 DEF Parts
  <2>2. QED  BY <2>1 DEF PartsApart, Owner
<1>6. QED  BY <1>3, <1>4, <1>5 DEF PartsApart

\* or another one is prepared.
LEMMA ApartPart ==
    ASSUME TypeOK, RingTypes, ControlOK, RequestsOK, RegisteredOK, DeviceTableConsistent,
           SplitOK, CountsOK, PartsApart, NEW r \in Requests, PreparePart(r)
    PROVE  PartsApart'
<1> DEFINE e == PartEntry
<1>1. /\ pc = "split" /\ sq' = Append(sq, e) /\ sq' \in Seq(Entries)
      /\ \A t \in Trackers : tracker'[t].req = tracker[t].req
      /\ UNCHANGED <<buffer, inflight>> /\ sq \in Seq(Entries)
      /\ Parts' = Parts \cup {e}
  BY PartEffects DEF requestVars, RingTypes
<1>2. /\ split.trk \in Trackers /\ tracker[split.trk].req = NextRequest /\ e \in Entries
      /\ split.ptr \in Int /\ split.remaining \in Nat \ {0} /\ PartNum \in 1 .. split.remaining
  BY <1>1, PartInHand
<1>3. /\ e.trk = split.trk /\ e.buf = buffer[NextRequest] /\ e.addr = split.ptr
      /\ e.num = PartNum
  BY DEF PartEntry
<1>4. BlockSize * PartNum \in Int /\ BlockSize * PartNum > 0
  <2>1. PartNum \in Int /\ PartNum >= 1
    BY <1>2
  <2>2. QED  BY <2>1, BlocksProduct, ExtentConstants
<1>5. \A p \in Parts : p.trk \in Trackers /\ p.addr \in Int /\ p.num \in Nat \ {0}
                       /\ BlockSize * p.num \in Int
  BY QueueElements, ExtentConstants
<1>6. \A p \in Parts : p.trk = e.trk => p.addr + BlockSize * p.num <= e.addr
  BY <1>1, <1>3 DEF PartsApart
<1> HIDE DEF e
<1>7. \A p \in Parts : Apart(p, e) /\ Apart(e, p)
  BY <1>6 DEF Apart
<1>8. /\ Len(sq) \in Nat /\ Len(sq') = Len(sq) + 1 /\ DOMAIN sq = 1 .. Len(sq)
      /\ DOMAIN sq' = 1 .. Len(sq') /\ sq'[Len(sq) + 1] = e
      /\ \A i \in 1 .. Len(sq) : sq'[i] = sq[i] /\ sq[i] \in Parts
  BY <1>1, <1>2, AppendProperties, LenProperties DEF Parts, ToSet
<1>9. ASSUME NEW i \in DOMAIN sq', NEW j \in DOMAIN sq', i # j PROVE Apart(sq'[i], sq'[j])
  <2>1. CASE i \in DOMAIN sq /\ j \in DOMAIN sq
    BY <1>8, <1>9, <2>1 DEF PartsApart
  <2>2. CASE i \in DOMAIN sq /\ j = Len(sq) + 1
    BY <1>7, <1>8, <2>2
  <2>3. CASE i = Len(sq) + 1 /\ j \in DOMAIN sq
    BY <1>7, <1>8, <2>3
  <2>4. QED  BY <1>8, <1>9, <2>1, <2>2, <2>3
<1>10. \A s \in ToSet(sq') : s \in ToSet(sq) \/ s = e
  <2>1. ASSUME NEW i \in DOMAIN sq' PROVE sq'[i] \in ToSet(sq) \/ sq'[i] = e
    <3>1. CASE i \in 1 .. Len(sq)
      BY <1>8, <3>1 DEF ToSet
    <3>2. CASE i = Len(sq) + 1
      BY <1>8, <3>2
    <3>3. QED  BY <1>8, <3>1, <3>2
  <2>2. QED  BY <2>1 DEF ToSet
<1>11. \A s \in ToSet(sq'), p \in inflight' : Apart(s, p)
  BY <1>1, <1>7, <1>10 DEF PartsApart, Parts
<1>12. ASSUME NEW p \in Parts'
       PROVE  /\ p.buf = buffer'[Owner(p)']
              /\ pc' = "split" /\ p.trk = split'.trk => p.addr + BlockSize * p.num <= split'.ptr
  <2>1. CASE p = e
    <3>1. p.buf = buffer'[Owner(p)']
      BY <1>1, <1>2, <1>3, <2>1 DEF Owner
    <3>2. ASSUME pc' = "split" PROVE p.addr + BlockSize * p.num <= split'.ptr
      <4>1. split'.ptr = split.ptr + BlockSize * PartNum
        BY <3>2, SplitGoesOn
      <4>2. QED  BY <1>2, <1>3, <1>4, <2>1, <4>1
    <3>3. QED  BY <3>1, <3>2
  <2>2. CASE p \in Parts
    <3>1. p.buf = buffer'[Owner(p)']
      BY <1>1, <1>5, <2>2 DEF PartsApart, Owner
    <3>2. ASSUME pc' = "split", p.trk = split'.trk
          PROVE  p.addr + BlockSize * p.num <= split'.ptr
      <4>1. split'.ptr = split.ptr + BlockSize * PartNum /\ split'.trk = split.trk
        BY <3>2, SplitGoesOn
      <4>2. p.addr + BlockSize * p.num <= split.ptr
        BY <1>3, <1>6, <2>2, <3>2, <4>1
      <4>3. QED  BY <1>2, <1>4, <1>5, <2>2, <4>1, <4>2
    <3>3. QED  BY <3>1, <3>2
  <2>3. QED  BY <1>1, <2>1, <2>2
<1>13. QED  BY <1>1, <1>9, <1>11, <1>12 DEF PartsApart

\* Every step keeps the commands of a read apart.
LEMMA ApartStep ==
    ASSUME IInv, Next
    PROVE  PartsApart'
<1>0. /\ TypeOK /\ RingTypes /\ ControlOK /\ RequestsOK /\ RegisteredOK
      /\ DeviceTableConsistent /\ SlotsOK /\ TrackersOK /\ CountsOK /\ PartsApart /\ SplitOK
      /\ buffer \in [Requests -> Buffers \cup {None}]
  BY DEF IInv, TypeOK
<1>a. \A t \in InUse : /\ t \in Trackers /\ tracker[t].req \in Requests /\ Tracked(tracker[t].req)
                       /\ status[tracker[t].req] = "accepted"
  BY <1>0, InUseIsTracked DEF Tracked
<1>b. \A p \in Parts : p.trk \in InUse
  BY DEF Parts, InUse
<1>1. ASSUME UNCHANGED <<sq, inflight, tracker>>, pc' = "split" => UNCHANGED <<pc, split>>,
             \A t \in InUse : buffer'[tracker[t].req] = buffer[tracker[t].req]
      PROVE  PartsApart'
  BY <1>0, <1>1, <1>b, ApartKept DEF Parts
<1>2. ASSUME UNCHANGED <<tracker, buffer>>, (Submit \/ UNCHANGED <<sq, inflight>>),
             pc' = "split" => UNCHANGED <<pc, split>>
      PROVE  PartsApart'
  <2>1. CASE Submit
    BY <1>0, <1>2, <2>1, ApartSubmit
  <2>2. CASE UNCHANGED <<sq, inflight>>
    BY <1>1, <1>2, <2>2
  <2>3. QED  BY <1>2, <2>1, <2>2
<1>4. ASSUME NEW f \in Files, OpenContainer(f) \/ CloseContainer(f) \/ UnregisterNvmeFile(f)
      PROVE  PartsApart'
  BY <1>2, <1>4 DEF OpenContainer, CloseContainer, UnregisterNvmeFile, loopVars, requestVars,
                    trackerVars, ringVars
<1>5. ASSUME NEW r \in Requests, NEW rd \in Reads, PushRequest(r, rd) PROVE PartsApart'
  BY <1>2, <1>5 DEF PushRequest, loopVars, trackerVars, ringVars
<1>6. ASSUME NEW r \in Requests, ReleaseRequest(r) PROVE PartsApart'
  <2>1. /\ status[r] = "completed" /\ buffer' = [buffer EXCEPT ![r] = None]
        /\ UNCHANGED <<pc, split, tracker, sq, inflight>>
    BY <1>6 DEF ReleaseRequest, loopVars, trackerVars, ringVars
  <2>2. \A q \in Requests : q # r => buffer'[q] = buffer[q]
    BY <1>0, <2>1
  <2>3. QED  BY <1>1, <1>a, <2>1, <2>2
<1>7. ASSUME NEW b, NoNextRequest(b) PROVE PartsApart'
  BY <1>2, <1>7 DEF NoNextRequest, trackerVars, requestVars
<1>8. ASSUME NEW r \in Requests,
             \/ \E b \in Buffers : GetNextRequest(r, b)
             \/ \E ok \in BOOLEAN : RegisterNvmeFile(r, ok)
      PROVE  PartsApart'
  BY <1>2, <1>8 DEF GetNextRequest, RegisterNvmeFile, trackerVars, ringVars
<1>9. ASSUME NEW r \in Requests, SubmitRequest(r) PROVE PartsApart'
  BY <1>2, <1>9 DEF SubmitRequest, trackerVars, requestVars
<1>10. ASSUME NEW r \in Requests, NEW hit \in BOOLEAN, AllocateMemory(r, hit) PROVE PartsApart'
  <2>1. /\ pc = "alloc" /\ r = NextRequest /\ buffer' = [buffer EXCEPT ![r] = AcquiredBuffer]
        /\ pc' # "split" /\ UNCHANGED <<tracker, sq, inflight>>
    BY <1>10 DEF AllocateMemory, trackerVars, ringVars
  <2>2. ~Tracked(r) /\ \A q \in Requests : q # r => buffer'[q] = buffer[q]
    BY <1>0, <2>1 DEF ControlOK
  <2>3. QED  BY <1>1, <1>a, <2>1, <2>2
<1>11. CASE EnterRequestLoop \/ NothingToWaitFor \/ ServiceWait
  BY <1>2, <1>11 DEF EnterRequestLoop, NothingToWaitFor, ServiceWait, trackerVars, requestVars,
                     ringVars
<1>12. CASE SubmissionQueueFull \/ Poll
  BY <1>2, <1>12 DEF SubmissionQueueFull, Poll, requestVars, loopVars, trackerVars
<1>13. CASE ProcessCompletedRequests \/ WaitCqe
  <2>1. pc' # "split"
    BY <1>0, <1>13 DEF ProcessCompletedRequests, WaitCqe, AfterProcess, ControlOK
  <2>2. ASSUME NEW cqes, Reaps(cqes) PROVE PartsApart'
    <3>1. /\ UNCHANGED <<buffer, sq, inflight>> /\ InUse' = InUse \ Finished(cqes)
          /\ \A t \in Trackers : tracker'[t].req =
                IF t \in Finished(cqes) THEN None ELSE tracker[t].req
      BY <1>0, <2>2, ReapEffects
    <3>2. \A p \in Parts' : p.trk \in InUse'
      BY DEF Parts, InUse
    <3>3. QED  BY <1>0, <1>a, <2>1, <3>1, <3>2, ApartKept
  <2>3. CASE UNCHANGED <<requestVars, trackerVars, ringVars>>
    BY <1>2, <2>1, <2>3 DEF requestVars, trackerVars, ringVars
  <2>4. QED  BY <1>0, <1>13, <2>2, <2>3, ReapCases
<1>14. ASSUME NEW p \in inflight, NEW ok \in BOOLEAN, Complete(p, ok) PROVE PartsApart'
  <2>1. /\ sq' = sq /\ inflight' = inflight \ {p} /\ UNCHANGED <<buffer, tracker, pc, split>>
    BY <1>0, <1>14, CompleteEffects DEF loopVars, trackerVars
  <2>2. QED  BY <1>0, <2>1, ApartKept
<1>15. ASSUME NEW r \in Requests, PrepareRequestNvme(r) PROVE PartsApart'
  <2>1. /\ pc = "issue" /\ UNCHANGED <<buffer, ringVars>> /\ InUse' = InUse
        /\ \/ pc' = "submit" /\ UNCHANGED tracker
           \/ /\ Tracker \notin InUse /\ split'.trk = Tracker
              /\ \A t \in Trackers : tracker'[t].req = IF t = Tracker THEN r ELSE tracker[t].req
    BY <1>0, <1>15, PrepareEffects
  <2>2. CASE pc' = "submit" /\ UNCHANGED tracker
    BY <1>2, <2>1, <2>2 DEF ringVars
  <2>3. CASE /\ Tracker \notin InUse /\ split'.trk = Tracker
             /\ \A t \in Trackers : tracker'[t].req = IF t = Tracker THEN r ELSE tracker[t].req
    <3>1. Parts' = Parts /\ \A p \in Parts : p.trk # Tracker /\ p.trk \in Trackers
      BY <1>a, <1>b, <2>1, <2>3 DEF Parts, ringVars
    <3>2. \A p \in Parts : /\ p.buf = buffer'[tracker'[p.trk].req]
                           /\ p.trk # split'.trk
      BY <1>0, <2>1, <2>3, <3>1 DEF PartsApart, Owner
    <3>3. /\ \A i, j \in DOMAIN sq' : i # j => Apart(sq'[i], sq'[j])
          /\ \A p, q \in inflight' : p # q => Apart(p, q)
          /\ \A s \in ToSet(sq'), p \in inflight' : Apart(s, p)
      BY <1>0, <2>1 DEF PartsApart, ringVars
    <3>4. QED  BY <3>1, <3>2, <3>3 DEF PartsApart, Owner
  <2>4. QED  BY <2>1, <2>2, <2>3
<1>16. ASSUME NEW r \in Requests, PreparePart(r) PROVE PartsApart'
  BY <1>0, <1>16, ApartPart
<1>17. QED
  <2>1. CASE Engine
    BY <2>1, <1>4, <1>5, <1>6 DEF Engine
  <2>2. CASE Service
    BY <2>2, <1>4, <1>7, <1>8, <1>9, <1>10, <1>11, <1>12, <1>13, <1>15, <1>16 DEF Service
  <2>3. QED  BY <2>1, <2>2, <1>14 DEF Next

-----------------------------------------------------------------------------
(* The invariant, and what follows from it                                   *)

\* The list of free slots at the start.
LEMMA FirstSlots ==
    ASSUME FreeRegisteredFiles = [i \in 1 .. MaxFixedFiles |-> MaxFixedFiles - i],
           ktable = [s \in Slots |-> None]
    PROVE  /\ FreeRegisteredFiles \in Seq(Slots) /\ Len(FreeRegisteredFiles) = MaxFixedFiles
           /\ NoneTwice(FreeRegisteredFiles) /\ Taken = {}
           /\ \A s \in Slots : Contains(FreeRegisteredFiles, s)
<1> DEFINE free == [i \in 1 .. MaxFixedFiles |-> MaxFixedFiles - i]
<1>1. MaxFixedFiles \in Nat
  BY NvmeConstants
<1>2. \A i \in 1 .. MaxFixedFiles : MaxFixedFiles - i \in Slots
  BY <1>1 DEF Slots
<1>3. free \in Seq(Slots) /\ Len(free) = MaxFixedFiles
  BY <1>1, <1>2, IsASeq, LenProperties
<1>4. NoneTwice(free)
  <2>1. \A i, j \in 1 .. MaxFixedFiles : MaxFixedFiles - i = MaxFixedFiles - j => i = j
    BY <1>1
  <2>2. QED  BY <2>1 DEF NoneTwice
<1>5. ASSUME NEW s \in Slots PROVE Contains(free, s)
  <2>1. MaxFixedFiles - s \in 1 .. Len(free) /\ free[MaxFixedFiles - s] = s
    <3>1. MaxFixedFiles - s \in 1 .. MaxFixedFiles /\ MaxFixedFiles - (MaxFixedFiles - s) = s
      BY <1>1 DEF Slots
    <3>2. QED  BY <1>3, <3>1
  <2>2. QED  BY <2>1 DEF Contains
<1>6. Taken = {}
  BY DEF Taken
<1>7. QED  BY <1>3, <1>4, <1>5, <1>6

\* The inductive invariant holds at the start,
LEMMA InitIInv ==
    ASSUME Init
    PROVE  IInv
<1>1. /\ None \notin Requests /\ None \notin Buffers /\ None \notin Devices
      /\ MaxFixedFiles \in Nat /\ GBatchSubmitSize \in Nat \ {0} /\ -1 \notin Slots
  BY NvmeConstants DEF Slots
<1>2. /\ FreeRegisteredFiles \in Seq(Slots) /\ Len(FreeRegisteredFiles) = MaxFixedFiles
      /\ NoneTwice(FreeRegisteredFiles) /\ Taken = {}
      /\ \A s \in Slots : Contains(FreeRegisteredFiles, s)
  BY FirstSlots DEF Init
<1>3. /\ ToSet(sq) = {} /\ DOMAIN sq = {} /\ Len(sq) = 0 /\ Parts = {}
      /\ Len(finished) = 0 /\ Len(cq) = 0 /\ finished \o cq = <<>>
      /\ Cardinality(inflight) = 0 /\ IsFiniteSet(inflight)
  BY FS_EmptySet DEF Init, ToSet, Parts
<1>4. TypeOK
  <2>1. numPendingSubmits \in 0 .. GBatchSubmitSize - 1
    BY <1>1 DEF Init
  <2>2. FixedFd \in [Devices -> Slots \cup {-1}] /\ ktable \in [Slots -> Devices \cup {None}]
        /\ moved \in [Buffers -> Int] /\ FixupOffset \in [Buffers -> Nat]
    BY DEF Init
  <2>3. tracker \in [Trackers -> [req : Requests \cup {None}, RemainingRequests : Int]]
    BY DEF Init, Unused
  <2>4. NvmeRequestPool \in Seq(Trackers) /\ FilesToUnregister \in Seq(Files)
    BY EmptySeq DEF Init
  <2>5. QED  BY <1>2, <2>1, <2>2, <2>3, <2>4 DEF Init, TypeOK
<1>5. RingTypes
  <2>1. sq \in Seq(Entries) /\ finished \in Seq(Cqes) /\ cq \in Seq(Cqes)
    BY EmptySeq DEF Init
  <2>2. QED  BY <1>3, <2>1 DEF Init, RingTypes
<1>6. ControlOK
  BY DEF Init, ControlOK, InHand
<1>7. RequestsOK /\ BuffersOK
  BY <1>1 DEF Init, RequestsOK, BuffersOK
<1>8. \A r \in Requests : ~Tracked(r)
  BY <1>1 DEF Init, Tracked, Unused
<1>9. RegisteredOK
  BY <1>8 DEF Init, RegisteredOK
<1>10. TableOK
  BY <1>1, <1>2, FS_EmptySet DEF Init, TableOK
<1>11. CommandsInTable
  BY <1>3 DEF CommandsInTable
<1>12. DeviceTableConsistent
  BY <1>10, <1>11, TableFrom
<1>13. SlotsOK
  BY <1>2, <1>3 DEF Init, SlotsOK, NoneTwice
<1>14. TrackersOK
  BY DEF Init, TrackersOK, Unused
<1>15. CountsOK
  <2>1. \A t : /\ {i \in DOMAIN sq : sq[i].trk = t} = {} /\ {p \in inflight : p.trk = t} = {}
               /\ EventsOf(t, finished \o cq) = {}
    BY <1>3 DEF Init, EventsOf
  <2>2. \A t : /\ Cardinality({i \in DOMAIN sq : sq[i].trk = t}) = 0
               /\ Cardinality({p \in inflight : p.trk = t}) = 0
               /\ Cardinality(EventsOf(t, finished \o cq)) = 0
    BY <2>1, FS_EmptySet
  <2>3. \A t \in Trackers : tracker[t].RemainingRequests = 0
    BY DEF Init, Unused
  <2>4. NumPendingCompletions = 0
    BY DEF Init
  <2>5. QED  BY <1>3, <2>2, <2>3, <2>4 DEF CountsOK
<1>16. PartsApart
  BY <1>3 DEF Init, PartsApart
<1>17. SplitOK /\ FatalOnlyIfUnmapped
  BY DEF Init, SplitOK, FatalOnlyIfUnmapped
<1>18. QED
  BY <1>4, <1>5, <1>6, <1>7, <1>9, <1>12, <1>13, <1>14, <1>15, <1>16, <1>17 DEF IInv

\* is kept by every step,
LEMMA NextIInv ==
    ASSUME IInv, Next
    PROVE  IInv'
  BY TypeStep, ControlStep, RequestsStep, BuffersStep, RegisteredStep, DeviceStep, SlotsStep,
     TrackersStep, ApartStep, SplitStep, FatalStep DEF IInv

\* and by none.
LEMMA StutterIInv ==
    ASSUME IInv, UNCHANGED vars
    PROVE  IInv'
<1>1. UNCHANGED <<status, read, bFailed, buffer, partFailed, containers, FilesToUnregister,
                  FixedFd, RegisteredContainers, FreeRegisteredFiles, ktable, moved, FixupOffset,
                  content, NvmeRequestPool, tracker, pc, from, NextRequest, AcquiredBuffer, split,
                  numPendingSubmits, NumPendingCompletions, sq, inflight, finished, cq>>
  BY DEF vars, requestVars, fileVars, deviceVars, memoryVars, trackerVars, loopVars, countVars,
         ringVars
<1>2. UNCHANGED <<InUse, Parts>>
  BY <1>1 DEF InUse, Parts
<1>3. TypeOK' /\ RingTypes' /\ ControlOK' /\ RequestsOK' /\ BuffersOK' /\ RegisteredOK'
  BY <1>1 DEF IInv, TypeOK, RingTypes, ControlOK, InHand, RequestsOK, BuffersOK, RegisteredOK, Tracked
<1>4. DeviceTableConsistent' /\ SlotsOK' /\ TrackersOK' /\ CountsOK'
  <2>1. DeviceTableConsistent'
    BY <1>1 DEF IInv, DeviceTableConsistent
  <2>2. SlotsOK'
    BY <1>1 DEF IInv, SlotsOK, Owner
  <2>3. TrackersOK'
    BY <1>1, <1>2 DEF IInv, TrackersOK
  <2>4. CountsOK'
    BY <1>1 DEF IInv, CountsOK, EventsOf
  <2>5. QED  BY <2>1, <2>2, <2>3, <2>4
<1>5. PartsApart' /\ SplitOK' /\ FatalOnlyIfUnmapped'
  BY <1>1, <1>2 DEF IInv, PartsApart, Apart, SplitOK, FatalOnlyIfUnmapped, Owner
<1>6. QED  BY <1>3, <1>4, <1>5 DEF IInv

\* The inductive invariant holds of every behaviour of the specification.
THEOREM Invariance == Spec => []IInv
<1>1. IInv /\ [Next]_vars => IInv'
  BY NextIInv, StutterIInv
<1>2. QED  BY InitIInv, <1>1, PTL DEF Spec

\* Every variable has its type: slots, trackers and counts stay in the ranges
\* that the arrays and counters of the dispatcher have.
THEOREM TypeCorrect == Spec => []TypeOK
<1>1. IInv => TypeOK
  BY DEF IInv
<1>2. QED  BY Invariance, <1>1, PTL

\* RegisterNvmeFile and UnregisterNvmeFile keep a device in the registered-file
\* table exactly while it has containers, in one slot, and no command names the
\* slot of another device.
THEOREM DevicesInTable == Spec => []DeviceTableConsistent
<1>1. IInv => DeviceTableConsistent
  BY DEF IInv
<1>2. QED  BY Invariance, <1>1, PTL

\* PrepareRequestNvme's check()s on the extents after the first and on what is
\* left behind the loop never fail for a read without holes, whatever the layout.
THEOREM MappedReadsNotFatal == Spec => []FatalOnlyIfUnmapped
<1>1. IInv => FatalOnlyIfUnmapped
  BY DEF IInv
<1>2. QED  BY Invariance, <1>1, PTL

\* RegisterContainer's loop over FIEMAP calls returns the whole map of a file, for
\* any number of extents and any room per call.
THEOREM WholeMapHeld == Spec => []ExtentsComplete
<1>1. IInv => ExtentsComplete
  <2>1. SUFFICES ASSUME IInv, NEW d \in Devices, NEW f \in RegisteredContainers[d]
                 PROVE  Extents(f) = FileExtents[f]
    BY DEF ExtentsComplete
  <2>2. f \in Files
    BY <2>1 DEF IInv, TypeOK
  <2>3. QED  BY <2>2, ExtentsOfFile
<1>2. QED  BY Invariance, <1>1, PTL

\* RemainingRequests of an FNvmeRequest counts the commands of its read that are
\* queued, at the device or completed and not processed, and the pool holds no
\* tracker that has some, nor one twice.
THEOREM TrackersCounted == Spec => []TrackersCount
<1>1. IInv => TrackersCount
  <2>1. SUFFICES ASSUME IInv PROVE TrackersCount
    OBVIOUS
  <2>2. TypeOK /\ RingTypes /\ TrackersOK /\ CountsOK /\ None \notin Requests
    BY <2>1, NvmeConstants DEF IInv
  <2>3. ASSUME NEW t \in Trackers, t \in InUse
        PROVE  /\ tracker[t].RemainingRequests =
                    Cardinality({i \in DOMAIN sq : sq[i].trk = t})
                    + Cardinality({p \in inflight : p.trk = t})
                    + Cardinality(EventsOf(t, finished \o cq))
               /\ status[tracker[t].req] = "accepted" /\ ~Contains(NvmeRequestPool, t)
               /\ \A u \in InUse \ {t} : tracker[u].req # tracker[t].req
    <3>1. tracker[t].req # None /\ \A u \in InUse : u \in Trackers
      BY <2>2, <2>3, InUseIsTracked
    <3>2. QED  BY <2>2, <2>3, <3>1 DEF TrackersOK, CountsOK
  <2>4. QED  BY <2>2, <2>3 DEF TrackersCount, TrackersOK, CountsOK
<1>2. QED  BY Invariance, <1>1, PTL

-----------------------------------------------------------------------------
(* The data: for reads that start in the mapped part, or on a block          *)

\* A read with no extent to start in is on a block: FixupOffset, which is set for
\* it although Memory is not moved, is 0 then.
StartsHeld ==
    \A rd \in Reads :
       \/ FixupOf(rd) = 0
       \/ \E i \in DOMAIN FileExtents[rd.file] :
             Reaches(FileExtents[rd.file][i], AlignedOffset(rd))

\* Memory is at the start of its block while its read is under way, and as far
\* from it as the last read wanted at any other time.
MemoryOK ==
    /\ \A b \in Buffers : FixupOffset[b] \in 0 .. BlockSize - 1
    /\ \A r \in Requests : Tracked(r) =>
          moved[buffer[r]] = 0 /\ FixupOffset[buffer[r]] = FixupOf(read[r])
    /\ \A b \in Buffers : (\E r \in Requests : Tracked(r) /\ buffer[r] = b)
                           \/ moved[b] = FixupOffset[b]

PartsInRead ==
    \A p \in Parts : p.addr >= 0 /\ p.addr + BlockSize * p.num <= AlignedSize(read[Owner(p)])

PositionsOf(p) == p.addr .. p.addr + BlockSize * p.num - 1
\* What the read of a tracker has in its buffer, and what its commands will put
\* there: the bytes of the file, each of them.
DataOf(t) ==
    LET r == tracker[t].req
        rd == read[r]
        byte(k) == FileByte(rd.file, AlignedOffset(rd) + k)
    IN  r # None /\ r \notin partFailed /\ WhollyMapped(FileExtents[rd.file], rd) =>
          /\ \A p \in Parts : p.trk = t => \A k \in PositionsOf(p) :
               <<DeviceOf[rd.file], p.lb * BlockSize + k - p.addr>> = byte(k)
          /\ \A k \in 0 .. AlignedSize(rd) - 1 :
               \/ content[buffer[r]][k] = byte(k)
               \/ \E p \in Parts : p.trk = t /\ k \in PositionsOf(p)
               \/ pc = "split" /\ split.trk = t /\ k >= split.ptr
DataOK == \A t \in Trackers : DataOf(t)

DInv == MemoryOK /\ PartsInRead /\ DataOK /\ SuccessMeansData

-----------------------------------------------------------------------------
(* Where memory is                                                           *)

\* A read with a tracker is accepted and has a buffer of its own.
LEMMA TrackedFacts ==
    ASSUME TypeOK, RequestsOK, BuffersOK, TrackersOK
    PROVE  /\ \A r \in Requests : Tracked(r) =>
                /\ status[r] = "accepted" /\ buffer[r] \in Buffers /\ read[r] \in Reads
                /\ \A q \in Requests : q # r => buffer[q] # buffer[r]
                /\ buffer[r] # AcquiredBuffer
           /\ \A t \in Trackers : tracker[t].req # None =>
                tracker[t].req \in Requests /\ Tracked(tracker[t].req)
<1>1. None \notin Requests /\ None \notin Buffers
  BY NvmeConstants
<1>2. ASSUME NEW r \in Requests, Tracked(r)
      PROVE  /\ status[r] = "accepted" /\ buffer[r] \in Buffers /\ read[r] \in Reads
             /\ buffer[r] # None
  BY <1>1, <1>2 DEF Tracked, TrackersOK, RequestsOK
<1>3. ASSUME NEW r \in Requests, Tracked(r), NEW q \in Requests, q # r PROVE buffer[q] # buffer[r]
  BY <1>2, <1>3 DEF BuffersOK
<1>4. ASSUME NEW r \in Requests, Tracked(r) PROVE buffer[r] # AcquiredBuffer
  BY <1>2, <1>4 DEF BuffersOK
<1>5. \A t \in Trackers : tracker[t].req # None =>
         tracker[t].req \in Requests /\ Tracked(tracker[t].req)
  BY DEF TypeOK, Tracked
<1>6. QED  BY <1>2, <1>3, <1>4, <1>5

\* Where the last read to use a buffer left its memory.
LEMMA MemoryStep ==
    ASSUME StartsHeld, IInv, MemoryOK, Next
    PROVE  MemoryOK'
<1>0. /\ TypeOK /\ RingTypes /\ ControlOK /\ RequestsOK /\ BuffersOK /\ RegisteredOK
      /\ DeviceTableConsistent /\ SlotsOK /\ TrackersOK /\ CountsOK /\ PartsApart /\ SplitOK
      /\ None \notin Requests
      /\ buffer \in [Requests -> Buffers \cup {None}]
      /\ read \in [Requests -> Reads \cup {None}]
      /\ moved \in [Buffers -> Int] /\ FixupOffset \in [Buffers -> Nat]
  BY NvmeConstants DEF IInv, TypeOK
<1>a. /\ \A r \in Requests : Tracked(r) =>
           /\ status[r] = "accepted" /\ buffer[r] \in Buffers /\ read[r] \in Reads
           /\ \A q \in Requests : q # r => buffer[q] # buffer[r]
           /\ buffer[r] # AcquiredBuffer
           /\ moved[buffer[r]] = 0 /\ FixupOffset[buffer[r]] = FixupOf(read[r])
  BY <1>0, TrackedFacts DEF MemoryOK
<1>b. BlockSize \in Nat \ {0}
  BY ExtentConstants
<1>1. ASSUME UNCHANGED <<moved, FixupOffset>>,
             \A r \in Requests : Tracked(r)' <=> Tracked(r),
             \A r \in Requests : Tracked(r) => buffer'[r] = buffer[r] /\ read'[r] = read[r]
      PROVE  MemoryOK'
  <2>1. \A r \in Requests : Tracked(r)' =>
           moved'[buffer'[r]] = 0 /\ FixupOffset'[buffer'[r]] = FixupOf(read'[r])
    BY <1>1 DEF MemoryOK
  <2>2. \A b \in Buffers : (\E r \in Requests : Tracked(r)' /\ buffer'[r] = b)
                            \/ moved'[b] = FixupOffset'[b]
    BY <1>1 DEF MemoryOK
  <2>3. QED  BY <1>1, <2>1, <2>2 DEF MemoryOK
<1>2. ASSUME UNCHANGED <<moved, FixupOffset, tracker>>,
             \A r \in Requests : Tracked(r) => buffer'[r] = buffer[r] /\ read'[r] = read[r]
      PROVE  MemoryOK'
  <2>1. \A r \in Requests : Tracked(r)' <=> Tracked(r)
    BY <1>2 DEF Tracked
  <2>2. QED  BY <1>1, <1>2, <2>1
<1>3. ASSUME UNCHANGED <<moved, FixupOffset, tracker, buffer, read>> PROVE MemoryOK'
  BY <1>2, <1>3
<1>4. ASSUME NEW f \in Files, OpenContainer(f) \/ CloseContainer(f) \/ UnregisterNvmeFile(f)
      PROVE  MemoryOK'
  BY <1>3, <1>4 DEF OpenContainer, CloseContainer, UnregisterNvmeFile, requestVars, memoryVars,
                    trackerVars
<1>5. ASSUME NEW r \in Requests, NEW rd \in Reads, PushRequest(r, rd) PROVE MemoryOK'
  <2>1. /\ status[r] = "idle" /\ read' = [read EXCEPT ![r] = rd]
        /\ UNCHANGED <<moved, FixupOffset, tracker, buffer>>
    BY <1>5 DEF PushRequest, memoryVars, trackerVars
  <2>2. \A q \in Requests : q # r => read'[q] = read[q]
    BY <1>0, <2>1
  <2>3. QED  BY <1>2, <1>a, <2>1, <2>2
<1>6. ASSUME NEW r \in Requests, ReleaseRequest(r) PROVE MemoryOK'
  <2>1. /\ status[r] = "completed" /\ read' = [read EXCEPT ![r] = None]
        /\ buffer' = [buffer EXCEPT ![r] = None]
        /\ UNCHANGED <<moved, FixupOffset, tracker>>
    BY <1>6 DEF ReleaseRequest, trackerVars
  <2>2. \A q \in Requests : q # r => read'[q] = read[q] /\ buffer'[q] = buffer[q]
    BY <1>0, <2>1
  <2>3. QED  BY <1>2, <1>a, <2>1, <2>2
<1>7. ASSUME NEW b, NoNextRequest(b) PROVE MemoryOK'
  BY <1>3, <1>7 DEF NoNextRequest, requestVars, memoryVars, trackerVars
<1>8. ASSUME NEW r \in Requests,
             \/ \E b \in Buffers : GetNextRequest(r, b)
             \/ \E ok \in BOOLEAN : RegisterNvmeFile(r, ok)
      PROVE  MemoryOK'
  BY <1>3, <1>8 DEF GetNextRequest, RegisterNvmeFile, memoryVars, trackerVars
<1>9. ASSUME NEW r \in Requests, NEW hit \in BOOLEAN, AllocateMemory(r, hit) PROVE MemoryOK'
  <2>1. /\ pc = "alloc" /\ r = NextRequest /\ buffer' = [buffer EXCEPT ![r] = AcquiredBuffer]
        /\ UNCHANGED <<moved, FixupOffset, tracker, read>>
    BY <1>9 DEF AllocateMemory, trackerVars
  <2>2. ~Tracked(r) /\ \A q \in Requests : q # r => buffer'[q] = buffer[q]
    BY <1>0, <2>1 DEF ControlOK
  <2>3. QED  BY <1>2, <2>1, <2>2
<1>10. ASSUME NEW r \in Requests, PreparePart(r) \/ SubmitRequest(r) PROVE MemoryOK'
  <2>1. CASE PreparePart(r)
    <3>1. /\ UNCHANGED <<requestVars, memoryVars>>
          /\ \A t \in Trackers : tracker'[t].req = tracker[t].req
      BY <1>0, <2>1, PartEffects
    <3>2. \A q \in Requests : Tracked(q)' <=> Tracked(q)
      BY <3>1 DEF Tracked
    <3>3. QED  BY <1>1, <3>1, <3>2 DEF requestVars, memoryVars
  <2>2. CASE SubmitRequest(r)
    BY <1>3, <2>2 DEF SubmitRequest, requestVars, memoryVars, trackerVars
  <2>3. QED  BY <1>10, <2>1, <2>2
<1>11. CASE EnterRequestLoop \/ NothingToWaitFor \/ ServiceWait \/ SubmissionQueueFull \/ Poll
  BY <1>3, <1>11 DEF EnterRequestLoop, NothingToWaitFor, ServiceWait, SubmissionQueueFull, Poll,
                     requestVars, memoryVars, trackerVars
<1>12. ASSUME NEW p, NEW ok, Complete(p, ok) PROVE MemoryOK'
  BY <1>3, <1>12 DEF Complete, trackerVars
<1>13. CASE ProcessCompletedRequests \/ WaitCqe
  <2>1. ASSUME NEW cqes, Reaps(cqes) PROVE MemoryOK'
    <3> DEFINE D == Done(cqes)
    <3>1. /\ UNCHANGED <<read, buffer, FixupOffset>>
          /\ \A t \in Trackers : tracker'[t].req =
                IF t \in Finished(cqes) THEN None ELSE tracker[t].req
          /\ \A t \in Trackers \ Finished(cqes) : tracker[t].req \notin D
          /\ Finished(cqes) \subseteq InUse /\ Finished(cqes) \subseteq Trackers
      BY <1>0, <2>1, ReapEffects
    <3>2. moved' = [b \in Buffers |-> IF \E r \in D : buffer[r] = b
                                        THEN moved[b] + FixupOffset[b] ELSE moved[b]]
      BY <2>1 DEF Reaps, ProcessCompletionEvents, Done
    <3>3. \A r \in D : r \in Requests /\ Tracked(r)
      BY <1>0, <3>1, InUseIsTracked DEF Done, Tracked
    <3> HIDE DEF D
    <3>4. \A r \in Requests : Tracked(r)' <=> Tracked(r) /\ r \notin D
      <4>1. ASSUME NEW r \in Requests, Tracked(r)' PROVE Tracked(r) /\ r \notin D
        BY <1>0, <3>1, <4>1 DEF Tracked
      <4>2. ASSUME NEW r \in Requests, Tracked(r), r \notin D PROVE Tracked(r)'
        <5>1. PICK t \in Trackers : tracker[t].req = r
          BY <4>2 DEF Tracked
        <5>2. t \notin Finished(cqes)
          BY <4>2, <5>1 DEF D, Done
        <5>3. tracker'[t].req = r
          BY <3>1, <5>1, <5>2
        <5>4. QED  BY <5>3 DEF Tracked
      <4>3. QED  BY <4>1, <4>2
    <3>5. ASSUME NEW r \in Requests, Tracked(r)'
          PROVE  moved'[buffer'[r]] = 0 /\ FixupOffset'[buffer'[r]] = FixupOf(read'[r])
      <4>1. Tracked(r) /\ r \notin D
        BY <3>4, <3>5
      <4>2. buffer[r] \in Buffers /\ \A q \in D : buffer[q] # buffer[r]
        BY <1>a, <3>3, <4>1
      <4>3. moved'[buffer[r]] = moved[buffer[r]]
        BY <3>2, <4>2
      <4>4. QED  BY <1>a, <3>1, <4>1, <4>3
    <3>6. ASSUME NEW b \in Buffers
          PROVE  (\E r \in Requests : Tracked(r)' /\ buffer'[r] = b)
                   \/ moved'[b] = FixupOffset'[b]
      <4>1. ASSUME NEW r \in D, buffer[r] = b PROVE moved'[b] = FixupOffset'[b]
        <5>1. moved[b] = 0 /\ moved'[b] = moved[b] + FixupOffset[b]
          BY <1>a, <3>2, <3>3, <4>1
        <5>2. FixupOffset[b] \in Nat
          BY <1>0
        <5>3. QED  BY <3>1, <5>1, <5>2
      <4>2. CASE ~\E r \in D : buffer[r] = b
        <5>1. moved'[b] = moved[b]
          BY <3>2, <4>2
        <5>2. QED  BY <3>1, <3>4, <4>2, <5>1 DEF MemoryOK
      <4>3. QED  BY <4>1, <4>2
    <3>7. QED  BY <3>1, <3>5, <3>6 DEF MemoryOK
  <2>2. CASE UNCHANGED <<requestVars, memoryVars, trackerVars>>
    BY <1>3, <2>2 DEF requestVars, memoryVars, trackerVars
  <2>3. QED  BY <1>0, <1>13, <2>1, <2>2, ReapCases
<1>14. ASSUME NEW r \in Requests, PrepareRequestNvme(r) PROVE MemoryOK'
  <2> DEFINE c == buffer[r]
             rd == read[r]
             x == FixupOf(rd)
  <2>1. /\ pc = "issue" /\ r = NextRequest /\ ~Tracked(r) /\ c \in Buffers /\ rd \in Reads
        /\ Layout(FileExtents[rd.file])
        /\ moved' = [moved EXCEPT ![c] = Rewound(c)]
        /\ FixupOffset' = [FixupOffset EXCEPT ![c] = x]
        /\ UNCHANGED <<read, buffer>>
        /\ \/ StartMissing(FileExtents[rd.file], AlignedOffset(rd)) /\ UNCHANGED tracker
           \/ /\ Tracker \in Trackers /\ tracker[Tracker].req = None
              /\ \A t \in Trackers : tracker'[t].req = IF t = Tracker THEN r ELSE tracker[t].req
    BY <1>0, <1>14, PrepareEffects
  <2>2. \A q \in Requests : Tracked(q) => q # r /\ buffer[q] # c
    BY <1>a, <2>1
  <2>3. Rewound(c) = 0
    <3>1. moved[c] = FixupOffset[c] /\ FixupOffset[c] \in Nat
      BY <1>0, <2>1, <2>2 DEF MemoryOK
    <3>2. QED  BY <3>1 DEF Rewound
  <2>4. x \in 0 .. BlockSize - 1
    BY <2>1, AlignedRead
  <2> HIDE DEF x, c
  <2>5. /\ moved'[c] = 0 /\ FixupOffset'[c] = x
        /\ \A b \in Buffers : b # c => moved'[b] = moved[b] /\ FixupOffset'[b] = FixupOffset[b]
    BY <1>0, <2>1, <2>3
  <2>6. \A q \in Requests : Tracked(q) =>
           moved'[buffer[q]] = 0 /\ FixupOffset'[buffer[q]] = FixupOf(read[q])
    BY <1>a, <2>2, <2>5
  <2>7. \A b \in Buffers : FixupOffset'[b] \in 0 .. BlockSize - 1
    BY <2>1, <2>4, <2>5 DEF MemoryOK
  <2>8. CASE StartMissing(FileExtents[rd.file], AlignedOffset(rd)) /\ UNCHANGED tracker
    <3>1. x = 0
      <4>1. ~\E i \in DOMAIN FileExtents[rd.file] :
                Reaches(FileExtents[rd.file][i], AlignedOffset(rd))
        BY <2>1, <2>8, StartExtent
      <4>2. QED  BY <2>1, <4>1 DEF StartsHeld, x
    <3>2. \A q \in Requests : Tracked(q)' <=> Tracked(q)
      BY <2>8 DEF Tracked
    <3>3. ASSUME NEW b \in Buffers
          PROVE  (\E q \in Requests : Tracked(q) /\ buffer[q] = b) \/ moved'[b] = FixupOffset'[b]
      <4>1. CASE b = c
        BY <2>5, <3>1, <4>1
      <4>2. CASE b # c
        BY <2>5, <4>2 DEF MemoryOK
      <4>3. QED  BY <4>1, <4>2
    <3>4. QED  BY <2>1, <2>6, <2>7, <3>2, <3>3 DEF MemoryOK
  <2>9. CASE /\ Tracker \in Trackers /\ tracker[Tracker].req = None
             /\ \A t \in Trackers : tracker'[t].req = IF t = Tracker THEN r ELSE tracker[t].req
    <3>1. \A q \in Requests : Tracked(q)' <=> Tracked(q) \/ q = r
      <4>1. ASSUME NEW q \in Requests, Tracked(q) PROVE Tracked(q)'
        BY <1>0, <2>9, <4>1 DEF Tracked
      <4>2. Tracked(r)'
        BY <2>9 DEF Tracked
      <4>3. ASSUME NEW q \in Requests, Tracked(q)' PROVE Tracked(q) \/ q = r
        BY <2>9, <4>3 DEF Tracked
      <4>4. QED  BY <4>1, <4>2, <4>3
    <3>2. ASSUME NEW q \in Requests, Tracked(q)'
          PROVE  moved'[buffer'[q]] = 0 /\ FixupOffset'[buffer'[q]] = FixupOf(read'[q])
      <4>1. CASE q = r
        BY <2>1, <2>5, <4>1 DEF x, c
      <4>2. CASE q # r
        BY <2>1, <2>6, <3>1, <3>2, <4>2
      <4>3. QED  BY <4>1, <4>2
    <3>3. ASSUME NEW b \in Buffers
          PROVE  (\E q \in Requests : Tracked(q)' /\ buffer'[q] = b) \/ moved'[b] = FixupOffset'[b]
      <4>1. CASE b = c
        BY <2>1, <3>1, <4>1 DEF c
      <4>2. CASE b # c
        BY <2>1, <2>5, <3>1, <4>2 DEF MemoryOK
      <4>3. QED  BY <4>1, <4>2
    <3>4. QED  BY <2>7, <3>2, <3>3 DEF MemoryOK
  <2>10. QED  BY <2>1, <2>8, <2>9
<1>15. QED
  <2>1. CASE Engine
    BY <2>1, <1>4, <1>5, <1>6 DEF Engine
  <2>2. CASE Service
    BY <2>2, <1>4, <1>7, <1>8, <1>9, <1>10, <1>11, <1>13, <1>14 DEF Service
  <2>3. QED  BY <2>1, <2>2, <1>12 DEF Next

-----------------------------------------------------------------------------
(* What a step is to a tracker                                               *)

SamePart(p, s) == p.trk = s.trk /\ p.addr = s.addr /\ p.num = s.num /\ p.lb = s.lb
SameParts(t) ==
    /\ \A p \in Parts' : p.trk = t => \E s \in Parts : SamePart(p, s)
    /\ \A s \in Parts : s.trk = t => \E p \in Parts' : SamePart(p, s)

\* A step that is none of the business of the read a tracker stands for.
Kept(t) ==
    LET r == tracker[t].req
    IN  /\ tracker'[t].req = r /\ read'[r] = read[r] /\ buffer'[r] = buffer[r]
        /\ content'[buffer[r]] = content[buffer[r]]
        /\ r \in partFailed => r \in partFailed'
        /\ SameParts(t)
        /\ pc = "split" /\ split.trk = t => UNCHANGED <<pc, split>>

\* Queue and devices left alone leave the commands of each tracker the same,
LEMMA SamePartsOf ==
    ASSUME Parts' = Parts
    PROVE  \A t : SameParts(t)
  BY DEF SameParts, SamePart

\* and so does submission.
LEMMA SubmitSameParts ==
    ASSUME TypeOK, RingTypes, RequestsOK, TrackersOK, CountsOK, SlotsOK, PartsApart,
           DeviceTableConsistent, Submit \/ UNCHANGED <<sq, inflight>>
    PROVE  \A t : SameParts(t)
<1>1. CASE Submit
  <2>1. inflight' = inflight \cup {Command(s) : s \in ToSet(sq)} /\ sq' = <<>>
        /\ \A p \in Parts' : p \in inflight \/ \E s \in ToSet(sq) : p = Command(s)
    BY <1>1, SubmitEffects
  <2>2. \A s \in ToSet(sq) : SamePart(Command(s), s)
    BY CommandOf DEF SamePart
  <2>3. \A p \in Parts' : \E s \in Parts : SamePart(p, s)
    BY <2>1, <2>2 DEF Parts, SamePart
  <2>4. \A s \in Parts : \E p \in Parts' : SamePart(p, s)
    BY <2>1, <2>2 DEF Parts, SamePart
  <2>5. QED  BY <2>3, <2>4 DEF SameParts
<1>2. CASE UNCHANGED <<sq, inflight>>
  BY <1>2, SamePartsOf DEF Parts
<1>3. QED  BY <1>1, <1>2

\* What a step is to a tracker: it is kept, or set up for a read, or the next
\* command of its read is prepared, or one of them carried out.
LEMMA TrackerCases ==
    ASSUME IInv, Next, NEW t \in Trackers, tracker'[t].req # None
    PROVE  \/ Kept(t) /\ tracker[t].req \in Requests /\ Tracked(tracker[t].req)
           \/ \E r \in Requests : PrepareRequestNvme(r) /\ t = Tracker /\ pc' = "split"
           \/ \E r \in Requests : PreparePart(r) /\ t = split.trk
           \/ \E p \in inflight, ok \in BOOLEAN : Complete(p, ok) /\ t = p.trk
<1> SUFFICES ASSUME ~\E r \in Requests : PrepareRequestNvme(r) /\ t = Tracker /\ pc' = "split",
                    ~\E r \in Requests : PreparePart(r) /\ t = split.trk,
                    ~\E p \in inflight, ok \in BOOLEAN : Complete(p, ok) /\ t = p.trk
             PROVE  Kept(t) /\ tracker[t].req \in Requests /\ Tracked(tracker[t].req)
  OBVIOUS
<1> DEFINE q == tracker[t].req
<1>0. /\ TypeOK /\ RingTypes /\ ControlOK /\ RequestsOK /\ BuffersOK /\ RegisteredOK
      /\ DeviceTableConsistent /\ SlotsOK /\ TrackersOK /\ CountsOK /\ PartsApart /\ SplitOK
      /\ None \notin Requests /\ None \notin Buffers
      /\ buffer \in [Requests -> Buffers \cup {None}]
      /\ read \in [Requests -> Reads \cup {None}]
  BY NvmeConstants DEF IInv, TypeOK
<1>a. ASSUME q # None
      PROVE  /\ q \in Requests /\ Tracked(q) /\ status[q] = "accepted" /\ buffer[q] \in Buffers
             /\ \A r \in Requests : r # q => buffer[r] # buffer[q]
             /\ buffer[q] # AcquiredBuffer
  BY <1>0, <1>a, TrackedFacts
<1>1. ASSUME tracker'[t].req = q, read'[q] = read[q], buffer'[q] = buffer[q],
             content'[buffer[q]] = content[buffer[q]], q \in partFailed => q \in partFailed',
             SameParts(t), pc = "split" /\ split.trk = t => UNCHANGED <<pc, split>>
      PROVE  Kept(t) /\ q \in Requests /\ Tracked(q)
  BY <1>1, <1>a DEF Kept
<1>2. ASSUME UNCHANGED <<tracker, read, buffer, content, partFailed, sq, inflight>>,
             pc = "split" => UNCHANGED <<pc, split>>
      PROVE  Kept(t) /\ q \in Requests /\ Tracked(q)
  BY <1>1, <1>2, SamePartsOf DEF Parts
<1>3. ASSUME UNCHANGED <<tracker, read, buffer, content, partFailed>>,
             Submit \/ UNCHANGED <<sq, inflight>>,
             pc = "split" => UNCHANGED <<pc, split>>
      PROVE  Kept(t) /\ q \in Requests /\ Tracked(q)
  BY <1>0, <1>1, <1>3, SubmitSameParts
<1>4. ASSUME NEW f \in Files, OpenContainer(f) \/ CloseContainer(f) \/ UnregisterNvmeFile(f)
      PROVE  Kept(t) /\ q \in Requests /\ Tracked(q)
  BY <1>2, <1>4 DEF OpenContainer, CloseContainer, UnregisterNvmeFile, requestVars, memoryVars,
                    trackerVars, ringVars, loopVars
<1>5. ASSUME NEW r \in Requests, NEW rd \in Reads, PushRequest(r, rd)
      PROVE  Kept(t) /\ q \in Requests /\ Tracked(q)
  <2>1. /\ status[r] = "idle" /\ read' = [read EXCEPT ![r] = rd]
        /\ UNCHANGED <<content, tracker, buffer, partFailed, sq, inflight, pc, split>>
    BY <1>5 DEF PushRequest, memoryVars, trackerVars, ringVars, loopVars
  <2>2. q # None
    BY <2>1
  <2>3. read'[q] = read[q]
    BY <1>0, <1>a, <2>1, <2>2
  <2>4. QED  BY <1>1, <2>1, <2>3, SamePartsOf DEF Parts
<1>6. ASSUME NEW r \in Requests, ReleaseRequest(r)
      PROVE  Kept(t) /\ q \in Requests /\ Tracked(q)
  <2>1. /\ status[r] = "completed" /\ read' = [read EXCEPT ![r] = None]
        /\ buffer' = [buffer EXCEPT ![r] = None] /\ partFailed' = partFailed \ {r}
        /\ content' = [b \in Buffers |-> IF b = buffer[r] THEN Blank ELSE content[b]]
        /\ UNCHANGED <<tracker, sq, inflight, pc, split>>
    BY <1>6 DEF ReleaseRequest, trackerVars, ringVars, loopVars
  <2>2. q # None
    BY <2>1
  <2>3. q # r /\ buffer[q] \in Buffers /\ buffer[q] # buffer[r]
    BY <1>a, <2>1, <2>2
  <2>4. read'[q] = read[q] /\ buffer'[q] = buffer[q] /\ content'[buffer[q]] = content[buffer[q]]
    BY <1>0, <1>a, <2>1, <2>2, <2>3
  <2>5. QED  BY <1>1, <2>1, <2>3, <2>4, SamePartsOf DEF Parts
<1>7. ASSUME NEW b, NoNextRequest(b) PROVE Kept(t) /\ q \in Requests /\ Tracked(q)
  BY <1>3, <1>7 DEF NoNextRequest, requestVars, memoryVars, trackerVars
<1>8. ASSUME NEW r \in Requests,
             \/ \E b \in Buffers : GetNextRequest(r, b)
             \/ \E ok \in BOOLEAN : RegisterNvmeFile(r, ok)
      PROVE  Kept(t) /\ q \in Requests /\ Tracked(q)
  BY <1>2, <1>8 DEF GetNextRequest, RegisterNvmeFile, memoryVars, trackerVars, ringVars
<1>9. ASSUME NEW r \in Requests, NEW hit \in BOOLEAN, AllocateMemory(r, hit)
      PROVE  Kept(t) /\ q \in Requests /\ Tracked(q)
  <2>1. /\ pc = "alloc" /\ r = NextRequest /\ buffer' = [buffer EXCEPT ![r] = AcquiredBuffer]
        /\ (content' = content \/ \E x : content' = [content EXCEPT ![AcquiredBuffer] = x])
        /\ UNCHANGED <<tracker, read, partFailed, sq, inflight>>
    BY <1>9 DEF AllocateMemory, trackerVars, ringVars
  <2>2. q # None
    BY <2>1
  <2>3. q # r /\ buffer[q] # AcquiredBuffer
    BY <1>0, <1>a, <2>1, <2>2 DEF ControlOK
  <2>4. buffer'[q] = buffer[q] /\ content'[buffer[q]] = content[buffer[q]]
    <3>1. content = [b \in Buffers |-> content[b]]
      BY <1>0 DEF RingTypes
    <3>2. QED  BY <1>0, <1>a, <2>1, <2>2, <2>3, <3>1
  <2>5. QED  BY <1>1, <2>1, <2>4, SamePartsOf DEF Parts
<1>10. ASSUME NEW r \in Requests, PreparePart(r)
       PROVE  Kept(t) /\ q \in Requests /\ Tracked(q)
  <2>1. /\ UNCHANGED <<requestVars, memoryVars>> /\ Parts' = Parts \cup {PartEntry}
        /\ \A u \in Trackers : tracker'[u].req = tracker[u].req
    BY <1>0, <1>10, PartEffects
  <2>2. t # split.trk /\ PartEntry.trk = split.trk
    BY <1>10 DEF PartEntry
  <2>3. SameParts(t)
    BY <2>1, <2>2 DEF SameParts, SamePart
  <2>4. QED  BY <1>1, <2>1, <2>2, <2>3 DEF requestVars, memoryVars
<1>11. ASSUME NEW r \in Requests, SubmitRequest(r) PROVE Kept(t) /\ q \in Requests /\ Tracked(q)
  BY <1>3, <1>11 DEF SubmitRequest, requestVars, memoryVars, trackerVars
<1>12. CASE EnterRequestLoop \/ NothingToWaitFor \/ ServiceWait \/ Poll
  BY <1>2, <1>12 DEF EnterRequestLoop, NothingToWaitFor, ServiceWait, Poll,
                     requestVars, memoryVars, trackerVars, ringVars
<1>13. CASE SubmissionQueueFull
  BY <1>3, <1>13 DEF SubmissionQueueFull, requestVars, memoryVars, trackerVars, loopVars
<1>14. ASSUME NEW p \in inflight, NEW ok \in BOOLEAN, Complete(p, ok)
       PROVE  Kept(t) /\ q \in Requests /\ Tracked(q)
  <2>1. /\ inflight' = inflight \ {p} /\ t # p.trk
        /\ \E x : content' = [content EXCEPT ![p.buf] = x]
        /\ partFailed \subseteq partFailed'
        /\ UNCHANGED <<tracker, read, buffer, sq, pc, split>>
    BY <1>14 DEF Complete, trackerVars, loopVars
  <2>2. q # None
    BY <2>1
  <2>3. p.trk \in InUse /\ p \in Parts
    BY DEF InUse, Parts
  <2>4. /\ p.trk \in Trackers /\ tracker[p.trk].req \in Requests
        /\ p.buf = buffer[tracker[p.trk].req]
    BY <1>0, <2>3, InUseIsTracked DEF PartsApart, Owner
  <2>5. p.buf # buffer[q]
    BY <1>0, <1>a, <2>1, <2>2, <2>4 DEF TrackersOK
  <2>6. content'[buffer[q]] = content[buffer[q]]
    <3>1. content = [b \in Buffers |-> content[b]]
      BY <1>0 DEF RingTypes
    <3>2. QED  BY <1>a, <2>1, <2>2, <2>5, <3>1
  <2>7. SameParts(t)
    BY <2>1 DEF SameParts, SamePart, Parts
  <2>8. QED  BY <1>1, <2>1, <2>6, <2>7
<1>15. CASE ProcessCompletedRequests \/ WaitCqe
  <2>1. pc # "split"
    BY <1>15 DEF ProcessCompletedRequests, WaitCqe
  <2>2. ASSUME NEW cqes, Reaps(cqes) PROVE Kept(t) /\ q \in Requests /\ Tracked(q)
    <3>1. /\ UNCHANGED <<read, buffer, partFailed, content, sq, inflight>>
          /\ tracker'[t].req = IF t \in Finished(cqes) THEN None ELSE tracker[t].req
      BY <1>0, <2>2, ReapEffects
    <3>2. QED  BY <1>1, <2>1, <3>1, SamePartsOf DEF Parts
  <2>3. CASE UNCHANGED <<requestVars, memoryVars, trackerVars, ringVars>>
    BY <1>2, <2>1, <2>3 DEF requestVars, memoryVars, trackerVars, ringVars
  <2>4. QED  BY <1>0, <1>15, <2>2, <2>3, ReapCases
<1>16. ASSUME NEW r \in Requests, PrepareRequestNvme(r)
       PROVE  Kept(t) /\ q \in Requests /\ Tracked(q)
  <2>1. /\ pc = "issue" /\ UNCHANGED <<read, buffer, partFailed, content, ringVars>>
        /\ \/ pc' = "submit" /\ UNCHANGED tracker
           \/ /\ pc' = "split"
              /\ \A u \in Trackers : tracker'[u].req = IF u = Tracker THEN r ELSE tracker[u].req
    BY <1>0, <1>16, PrepareEffects
  <2>2. tracker'[t].req = q
    BY <1>16, <2>1
  <2>3. QED  BY <1>1, <2>1, <2>2, SamePartsOf DEF Parts, ringVars
<1>17. QED
  <2>1. CASE Engine
    BY <2>1, <1>4, <1>5, <1>6 DEF Engine
  <2>2. CASE Service
    BY <2>2, <1>4, <1>7, <1>8, <1>9, <1>10, <1>11, <1>12, <1>13, <1>15, <1>16 DEF Service
  <2>3. QED  BY <2>1, <2>2, <1>14 DEF Next

\* Every command of a read moves a part of it.
LEMMA InReadStep ==
    ASSUME IInv, MemoryOK, PartsInRead, Next
    PROVE  PartsInRead'
<1>0. /\ TypeOK /\ RingTypes /\ ControlOK /\ RequestsOK /\ BuffersOK /\ RegisteredOK
      /\ DeviceTableConsistent /\ SlotsOK /\ TrackersOK /\ CountsOK /\ PartsApart /\ SplitOK
      /\ None \notin Requests
  BY NvmeConstants DEF IInv
<1>1. ASSUME NEW p \in Parts'
      PROVE  p.addr >= 0 /\ p.addr + BlockSize * p.num <= AlignedSize(read'[Owner(p)'])
  <2> DEFINE t == p.trk
  <2>1. t \in Trackers /\ tracker'[t].req # None /\ t \in InUse'
    <3>1. t \in InUse'
      BY DEF Parts, InUse
    <3>2. IInv'
      BY NextIInv
    <3>3. TypeOK' /\ RingTypes' /\ TrackersOK' /\ CountsOK'
      BY <3>2 DEF IInv
    <3>4. \A u \in Trackers : u \in InUse' => tracker'[u].req # None
      <4>1. \A u \in Trackers : tracker'[u].req = None => tracker'[u].RemainingRequests = 0
        BY <3>3 DEF TrackersOK
      <4>2. \A u \in Trackers : tracker'[u].RemainingRequests = Outstanding(u)'
        BY <3>3, CountsNext
      <4>3. QED  BY <3>3, <4>1, <4>2, OutstandingNext
    <3>5. t \in Trackers
      <4>1. Parts' \subseteq Entries \cup Commands
        BY <3>3 DEF RingTypes, Parts, ToSet
      <4>2. QED  BY <4>1 DEF Entries, Commands
    <3>6. QED  BY <3>1, <3>4, <3>5
  <2>2. CASE Kept(t)
    BY <2>2 DEF Kept, SameParts, SamePart, PartsInRead, Owner
  <2>3. ASSUME NEW r \in Requests, PrepareRequestNvme(r), t = Tracker, pc' = "split"
        PROVE  FALSE
    BY <1>0, <2>1, <2>3, PrepareEffects
  <2>4. ASSUME NEW r \in Requests, PreparePart(r), t = split.trk
        PROVE  p.addr >= 0 /\ p.addr + BlockSize * p.num <= AlignedSize(read'[Owner(p)'])
    <3>1. /\ pc = "split" /\ Parts' = Parts \cup {PartEntry} /\ UNCHANGED read
          /\ tracker'[t].req = tracker[t].req
      BY <1>0, <2>1, <2>4, PartEffects DEF requestVars
    <3>2. CASE p \in Parts
      BY <3>1, <3>2 DEF PartsInRead, Owner
    <3>3. CASE p = PartEntry
      <4> DEFINE AS == AlignedSize(PartRead)
                 R == BlockSize * split.remaining
                 N == BlockSize * PartNum
      <4>1. /\ PartRead \in Reads /\ tracker[split.trk].req = NextRequest
            /\ split.remaining \in Nat \ {0} /\ PartNum \in 1 .. split.remaining
            /\ NextRequest \in Requests /\ split.trk \in Trackers
        BY <1>0, <3>1, PartInHand
      <4>2. AS \in Nat /\ R \in Int /\ N \in Int /\ N <= R
        <5>1. split.remaining \in Int /\ PartNum \in Int /\ PartNum <= split.remaining
          BY <4>1
        <5>2. QED  BY <4>1, <5>1, AlignedRead, BlocksProduct
      <4>3. moved[buffer[NextRequest]] = 0
        BY <4>1 DEF MemoryOK, Tracked
      <4>4. split.ptr = 0 + AS - R /\ (split.ptr = 0 \/ split.ptr > 0)
        BY <1>0, <3>1, <4>3 DEF SplitOK, PartRead
      <4>5. p.addr = split.ptr /\ p.num = PartNum /\ read'[Owner(p)'] = PartRead
        BY <3>1, <3>3, <4>1 DEF PartEntry, Owner, PartRead
      <4>6. split.ptr + N <= AS /\ split.ptr >= 0
        <5> HIDE DEF AS, R, N
        <5>1. QED  BY <4>2, <4>4
      <4>7. QED  BY <4>5, <4>6
    <3>4. QED  BY <3>1, <3>2, <3>3
  <2>5. ASSUME NEW c \in inflight, NEW ok \in BOOLEAN, Complete(c, ok), t = c.trk
        PROVE  p.addr >= 0 /\ p.addr + BlockSize * p.num <= AlignedSize(read'[Owner(p)'])
    <3>1. Parts' \subseteq Parts /\ UNCHANGED <<tracker, read>>
      BY <1>0, <2>5, CompleteEffects DEF trackerVars
    <3>2. QED  BY <3>1 DEF PartsInRead, Owner
  <2>6. QED  BY <2>1, <2>2, <2>3, <2>4, <2>5, TrackerCases
<1>2. QED  BY <1>1 DEF PartsInRead

-----------------------------------------------------------------------------
(* The data of a read                                                        *)

\* A step that is none of the business of a read keeps its data.
LEMMA DataKept ==
    ASSUME NEW t, DataOf(t), Kept(t)
    PROVE  DataOf(t)'
<1> DEFINE r == tracker[t].req
           rd == read[r]
           byte(k) == FileByte(rd.file, AlignedOffset(rd) + k)
<1>1. /\ tracker'[t].req = r /\ read'[r] = rd /\ buffer'[r] = buffer[r]
      /\ content'[buffer[r]] = content[buffer[r]]
      /\ r \in partFailed => r \in partFailed'
      /\ pc = "split" /\ split.trk = t => UNCHANGED <<pc, split>>
  BY DEF Kept
<1>2. SUFFICES ASSUME r # None, r \notin partFailed', WhollyMapped(FileExtents[rd.file], rd)
               PROVE  /\ \A p \in Parts' : p.trk = t => \A k \in PositionsOf(p) :
                           <<DeviceOf[rd.file], p.lb * BlockSize + k - p.addr>> = byte(k)
                      /\ \A k \in 0 .. AlignedSize(rd) - 1 :
                           \/ content'[buffer[r]][k] = byte(k)
                           \/ \E p \in Parts' : p.trk = t /\ k \in PositionsOf(p)
                           \/ pc' = "split" /\ split'.trk = t /\ k >= split'.ptr
  BY <1>1 DEF DataOf
<1>3. /\ \A p \in Parts : p.trk = t => \A k \in PositionsOf(p) :
           <<DeviceOf[rd.file], p.lb * BlockSize + k - p.addr>> = byte(k)
      /\ \A k \in 0 .. AlignedSize(rd) - 1 :
           \/ content[buffer[r]][k] = byte(k)
           \/ \E p \in Parts : p.trk = t /\ k \in PositionsOf(p)
           \/ pc = "split" /\ split.trk = t /\ k >= split.ptr
  BY <1>1, <1>2 DEF DataOf
<1> HIDE DEF r, rd, byte
<1>4. /\ \A p \in Parts' : p.trk = t => \E s \in Parts : SamePart(p, s)
      /\ \A s \in Parts : s.trk = t => \E p \in Parts' : SamePart(p, s)
  BY DEF Kept, SameParts
<1>5. \A p, s : SamePart(p, s) => PositionsOf(p) = PositionsOf(s) /\ p.trk = s.trk
                                  /\ p.lb = s.lb /\ p.addr = s.addr
  BY DEF SamePart, PositionsOf
<1>6. \A p \in Parts' : p.trk = t => \A k \in PositionsOf(p) :
         <<DeviceOf[rd.file], p.lb * BlockSize + k - p.addr>> = byte(k)
  <2>1. TAKE p \in Parts'
  <2>2. HAVE p.trk = t
  <2>3. PICK s \in Parts : SamePart(p, s)
    BY <1>4, <2>2
  <2>4. s.trk = t /\ PositionsOf(p) = PositionsOf(s) /\ p.lb = s.lb /\ p.addr = s.addr
    BY <1>5, <2>2, <2>3
  <2>5. QED  BY <1>3, <2>4
<1>7. ASSUME NEW k \in 0 .. AlignedSize(rd) - 1
      PROVE  \/ content'[buffer[r]][k] = byte(k)
             \/ \E p \in Parts' : p.trk = t /\ k \in PositionsOf(p)
             \/ pc' = "split" /\ split'.trk = t /\ k >= split'.ptr
  <2>1. ASSUME NEW s \in Parts, s.trk = t, k \in PositionsOf(s)
        PROVE  \E p \in Parts' : p.trk = t /\ k \in PositionsOf(p)
    BY <1>4, <1>5, <2>1
  <2>2. QED  BY <1>1, <1>3, <2>1
<1>8. QED  BY <1>6, <1>7

\* A read that is set up has everything before it.
LEMMA DataPrepared ==
    ASSUME IInv, MemoryOK, NEW r \in Requests, PrepareRequestNvme(r), pc' = "split",
           NEW t, t = Tracker
    PROVE  DataOf(t)'
<1>0. /\ TypeOK /\ RingTypes /\ ControlOK /\ RequestsOK /\ TrackersOK /\ CountsOK
      /\ moved \in [Buffers -> Int] /\ FixupOffset \in [Buffers -> Nat] /\ BuffersOK
  BY DEF IInv, TypeOK
<1>1. /\ r = NextRequest /\ ~Tracked(r) /\ buffer[r] \in Buffers /\ read[r] \in Reads
      /\ UNCHANGED <<read, buffer>> /\ Parts' = Parts
      /\ Tracker \in Trackers \ InUse
      /\ pc = "issue"
      /\ tracker'[Tracker].req = r
      /\ split'.trk = Tracker /\ split'.ptr = Rewound(buffer[r])
  BY <1>0, PrepareEffects
<1>2. \A p \in Parts : p.trk # Tracker
  BY <1>1 DEF InUse, Parts
<1>3. \A q \in Requests : Tracked(q) => buffer[q] # buffer[r]
  BY <1>0, <1>1, TrackedFacts
<1>4. Rewound(buffer[r]) = 0
  <2>1. moved[buffer[r]] = FixupOffset[buffer[r]] /\ FixupOffset[buffer[r]] \in Nat
    BY <1>0, <1>1, <1>3 DEF MemoryOK
  <2>2. QED  BY <2>1 DEF Rewound
<1>5. /\ tracker'[t].req = r /\ \A p \in Parts' : p.trk # t
      /\ pc' = "split" /\ split'.trk = t /\ split'.ptr = 0
  BY <1>1, <1>2, <1>4
<1>6. \A k \in 0 .. AlignedSize(read'[r]) - 1 : k >= split'.ptr
  <2>1. AlignedSize(read'[r]) \in Int
    BY <1>1, AlignedRead
  <2>2. QED  BY <1>5, <2>1
<1>7. QED  BY <1>5, <1>6 DEF DataOf

\* The next command of a read takes the bytes up to where the one after it
\* starts from where they are on the device.
LEMMA DataPart ==
    ASSUME IInv, MemoryOK, NEW r \in Requests, PreparePart(r), NEW t, t = split.trk, DataOf(t)
    PROVE  DataOf(t)'
<1> DEFINE rd == PartRead
           file == FileExtents[rd.file]
           AO == AlignedOffset(rd)
           AS == AlignedSize(rd)
           N == BlockSize * PartNum
           R == BlockSize * split.remaining
           byte(k) == FileByte(rd.file, AO + k)
<1>0. /\ TypeOK /\ RingTypes /\ ControlOK /\ RequestsOK /\ TrackersOK /\ CountsOK
      /\ RegisteredOK /\ DeviceTableConsistent /\ SplitOK
  BY DEF IInv
<1>1. /\ pc = "split" /\ r = NextRequest /\ Parts' = Parts \cup {PartEntry}
      /\ UNCHANGED <<read, buffer, content, partFailed, NextRequest>>
      /\ pc' \in {"fatal", "split", "submit"}
      /\ \A u \in Trackers : tracker'[u].req = tracker[u].req
  BY <1>0, PartEffects DEF requestVars, memoryVars
<1>2. /\ rd \in Reads /\ Layout(file) /\ split.extent \in 1 .. Len(file)
      /\ t \in Trackers /\ tracker[t].req = r /\ r \in Requests
      /\ split.remaining \in Nat \ {0} /\ PartNum \in 1 .. split.remaining
      /\ PartExtent.LogicalOffset \in Nat /\ PartExtent.PhysicalOffset \in Nat
      /\ ExtentEnd(PartExtent) \in Nat
      /\ N <= ExtentEnd(PartExtent) - PartFrom(PartExtent, PartStart)
      /\ StartLb(PartExtent, PartStart) \in Int
      /\ BlockSize * StartLb(PartExtent, PartStart) =
           PartFrom(PartExtent, PartStart) - PartExtent.LogicalOffset
             + PartExtent.PhysicalOffset + PartitionStart * SectorSize
      /\ Extents(rd.file) = file
  BY <1>0, <1>1, PartInHand
<1>3. AO \in Nat /\ AS \in Nat /\ N \in Int /\ R \in Int /\ N <= R
  <2>1. split.remaining \in Int /\ PartNum \in Int /\ PartNum <= split.remaining
    BY <1>2
  <2>2. QED  BY <1>2, <2>1, AlignedRead, BlocksProduct
<1>4. tracker'[t].req = r /\ read'[r] = rd /\ buffer'[r] = buffer[r] /\ read[r] = rd
  BY <1>1, <1>2 DEF PartRead
<1>5. SUFFICES ASSUME r # None, r \notin partFailed, WhollyMapped(file, rd)
               PROVE  /\ \A p \in Parts' : p.trk = t => \A k \in PositionsOf(p) :
                           <<DeviceOf[rd.file], p.lb * BlockSize + k - p.addr>> = byte(k)
                      /\ \A k \in 0 .. AS - 1 :
                           \/ content[buffer[r]][k] = byte(k)
                           \/ \E p \in Parts' : p.trk = t /\ k \in PositionsOf(p)
                           \/ pc' = "split" /\ split'.trk = t /\ k >= split'.ptr
  BY <1>1, <1>4 DEF DataOf
<1>6. /\ \A p \in Parts : p.trk = t => \A k \in PositionsOf(p) :
           <<DeviceOf[rd.file], p.lb * BlockSize + k - p.addr>> = byte(k)
      /\ \A k \in 0 .. AS - 1 :
           \/ content[buffer[r]][k] = byte(k)
           \/ \E p \in Parts : p.trk = t /\ k \in PositionsOf(p)
           \/ pc = "split" /\ split.trk = t /\ k >= split.ptr
  BY <1>2, <1>4, <1>5 DEF DataOf
<1>7. /\ PartFrom(PartExtent, PartStart) = AO + AS - R
      /\ split.extent # split.start =>
           AO < PartExtent.LogicalOffset /\ PartExtent.LogicalOffset < AO + AS
      /\ PartNum # split.remaining => split.extent + 1 \in 1 .. Len(file)
  BY <1>0, <1>1, <1>5, MappedPart DEF RestAt
<1>8. split.ptr = AS - R
  <2>1. moved[buffer[NextRequest]] = 0
    BY <1>1, <1>2 DEF MemoryOK, Tracked
  <2>2. split.ptr = moved[buffer[NextRequest]] + AS - R
    BY <1>0, <1>1 DEF SplitOK, PartRead
  <2> HIDE DEF AS, R
  <2>3. QED  BY <1>3, <2>1, <2>2
<1>9. PartExtent.LogicalOffset <= PartFrom(PartExtent, PartStart)
  <2>1. CASE split.extent = split.start
    <3>1. PartExtent.LogicalOffset <= RestAt
      BY <1>0, <1>1, <1>5, <2>1 DEF SplitOK, RestAt, PartRead, PartExtent
    <3>2. QED  BY <1>7, <3>1 DEF RestAt
  <2>2. CASE split.extent # split.start
    <3>1. PartFrom(PartExtent, PartStart) = PartExtent.LogicalOffset
      BY <2>2 DEF PartFrom, PartStart
    <3>2. QED  BY <1>2, <3>1
  <2>3. QED  BY <2>1, <2>2
<1>10. /\ PartEntry.trk = t /\ PartEntry.addr = split.ptr /\ PartEntry.num = PartNum
       /\ PartEntry.lb = StartLb(PartExtent, PartStart)
       /\ PositionsOf(PartEntry) = split.ptr .. split.ptr + N - 1
  BY DEF PartEntry, PositionsOf
<1>11. ASSUME NEW k \in PositionsOf(PartEntry)
       PROVE  <<DeviceOf[rd.file], PartEntry.lb * BlockSize + k - PartEntry.addr>> = byte(k)
  <2> DEFINE e == PartExtent
             start == PartFrom(PartExtent, PartStart)
             lb == StartLb(PartExtent, PartStart)
             LB == BlockSize * StartLb(PartExtent, PartStart)
             PS == PartitionStart * SectorSize
  <2>1. /\ k \in split.ptr .. split.ptr + N - 1 /\ e = file[split.extent]
        /\ PS \in Int /\ lb * BlockSize = LB
    <3>1. lb * BlockSize = BlockSize * lb
      BY <1>2, ExtentConstants
    <3>2. PS \in Int
      BY ExtentConstants
    <3>3. QED  BY <1>10, <1>11, <3>1, <3>2 DEF PartExtent
  <2>2. /\ start = AO + AS - R /\ N <= ExtentEnd(e) - start
        /\ LB = start - e.LogicalOffset + e.PhysicalOffset + PS
        /\ e.LogicalOffset <= start
    BY <1>2, <1>7, <1>9
  <2>3. /\ e.LogicalOffset \in Nat /\ e.PhysicalOffset \in Nat /\ ExtentEnd(e) \in Nat
    BY <1>2
  <2> HIDE DEF e, start, LB, PS, N, R, AO, AS, lb
  <2>4. /\ AO + k \in Int /\ e.LogicalOffset <= AO + k /\ AO + k < ExtentEnd(e)
        /\ LB + k - split.ptr = PS + e.PhysicalOffset + (AO + k) - e.LogicalOffset
    BY <1>3, <1>8, <2>1, <2>2, <2>3
  <2>5. DeviceByte(file, AO + k) = PS + e.PhysicalOffset + (AO + k) - e.LogicalOffset
    BY <1>2, <2>1, <2>4, ByteInExtent DEF PS
  <2>6. byte(k) = <<DeviceOf[rd.file], LB + k - split.ptr>>
    BY <2>4, <2>5 DEF FileByte
  <2>7. PartEntry.lb * BlockSize = LB /\ PartEntry.addr = split.ptr
    BY <1>10, <2>1 DEF lb
  <2>8. QED  BY <2>6, <2>7
<1>12. ASSUME NEW k \in 0 .. AS - 1, k >= split.ptr
       PROVE  \/ k \in PositionsOf(PartEntry)
              \/ pc' = "split" /\ split'.trk = t /\ k >= split'.ptr
  <2>1. CASE PartNum = split.remaining
    <3>1. N = R
      BY <2>1
    <3> HIDE DEF AS, R, N, AO
    <3>2. QED  BY <1>3, <1>8, <1>10, <1>12, <3>1
  <2>2. CASE PartNum # split.remaining
    <3>1. pc' = "split"
      <4>1. split.extent # Len(file)
        BY <1>2, <1>7, <2>2, LayoutFacts
      <4>2. AO + AS > PartExtent.LogicalOffset <=> PartExtent.LogicalOffset < AO + AS
        <5> HIDE DEF AO, AS
        <5>1. QED  BY <1>2, <1>3
      <4>3. pc' = LET first == split.extent = split.start
                      sane == first \/ (/\ AO < PartExtent.LogicalOffset
                                        /\ AO + AS > PartExtent.LogicalOffset)
                      done == PartNum = split.remaining
                  IN  CASE ~sane \/ (~done /\ split.extent = Len(file)) -> "fatal"
                        [] sane /\ done -> "submit"
                        [] OTHER -> "split"
        BY <1>1, <1>2 DEF PreparePart, PartNum, PartExtent, PartStart, PartRead
      <4> HIDE DEF AO, AS, file
      <4>4. QED  BY <1>7, <2>2, <4>1, <4>2, <4>3
    <3>2. split'.trk = t /\ split'.ptr = split.ptr + N
      BY <1>0, <3>1, SplitGoesOn
    <3> HIDE DEF AS, R, N, AO
    <3>3. QED  BY <1>3, <1>8, <1>10, <1>12, <3>1, <3>2
  <2>3. QED  BY <2>1, <2>2
<1> HIDE DEF AS, byte
<1>13. \A p \in Parts' : p.trk = t => \A k \in PositionsOf(p) :
          <<DeviceOf[rd.file], p.lb * BlockSize + k - p.addr>> = byte(k)
  BY <1>1, <1>6, <1>11
<1>14. ASSUME NEW k \in 0 .. AS - 1
       PROVE  \/ content[buffer[r]][k] = byte(k)
              \/ \E p \in Parts' : p.trk = t /\ k \in PositionsOf(p)
              \/ pc' = "split" /\ split'.trk = t /\ k >= split'.ptr
  BY <1>1, <1>6, <1>10, <1>12
<1>15. QED  BY <1>13, <1>14

\* What a range of bytes is after others were put somewhere in it.
LEMMA WrittenAt ==
    ASSUME NEW c, NEW at \in Int, NEW n \in Int, NEW bytes, DOMAIN bytes = 0 .. n - 1,
           NEW k \in Positions
    PROVE  Written(c, at, bytes)[k] =
             IF k \in at .. at + n - 1 THEN bytes[k - at] ELSE c[k]
<1>1. k \in Int /\ k - at \in Int
  BY DEF Positions
<1>2. k \in at .. at + n - 1 <=> k - at \in 0 .. n - 1
  BY <1>1
<1>3. QED  BY <1>2 DEF Written

\* The memory of a buffer is so many bytes, no fewer than the engine asks for
\* and a block.
LEMMA BufferIsWhole ==
    ActualBufferSize \in Nat /\ BufferSize + BlockSize <= ActualBufferSize
<1>1. BufferSize \in Nat /\ BlockSize \in Nat \ {0}
  BY NvmeConstants, ExtentConstants
<1> DEFINE n == BufferSize + 2 * BlockSize
<1>2. n \in Nat /\ n >= BufferSize + BlockSize
  BY <1>1
<1> HIDE DEF n
<1>3. Align(n, BlockSize) \in Nat /\ n <= Align(n, BlockSize)
  BY <1>2, AlignProperties
<1>4. ActualBufferSize = Align(n, BlockSize)
  BY DEF ActualBufferSize, n
<1>5. QED  BY <1>1, <1>2, <1>3, <1>4

\* The count of blocks of a command of a read without holes fits in the field for it.
LEMMA CountFits ==
    ASSUME NEW rd \in Reads, WhollyMapped(FileExtents[rd.file], rd), NEW num \in Nat \ {0},
           BlockSize * num <= AlignedSize(rd)
    PROVE  BlocksRead(num) = num
<1> DEFINE n == AlignedSize(rd) \div BlockSize
<1>1. n \in Nat \ {0} /\ AlignedSize(rd) = BlockSize * n /\ n <= NlbModulus
  BY AlignedRead DEF WhollyMapped
<1>2. NlbModulus \in Nat \ {0} /\ BlockSize \in Nat \ {0}
  BY ExtentConstants
<1>3. num <= n
  <2>1. SUFFICES ASSUME n + 1 <= num PROVE FALSE
    BY <1>1
  <2>2. n \in Int /\ n + 1 \in Int /\ 1 \in Int /\ num \in Int
    BY <1>1
  <2>3. BlockSize * (n + 1) = BlockSize * n + BlockSize * 1 /\ BlockSize * n \in Int
    BY <2>2, BlocksProduct
  <2>4. BlockSize * (n + 1) <= BlockSize * num
    BY <2>1, <2>2, BlocksProduct
  <2>5. BlockSize * 1 = BlockSize /\ BlockSize * num \in Int /\ BlockSize * num <= BlockSize * n
    BY <1>1, <1>2, <2>2, BlocksProduct
  <2> HIDE DEF n
  <2>6. QED  BY <1>2, <2>3, <2>4, <2>5
<1>4. num - 1 \in 0 .. NlbModulus - 1
  BY <1>1, <1>2, <1>3
<1>5. (num - 1) % NlbModulus = num - 1
  <2> DEFINE m == num - 1
  <2>1. m \in 0 .. NlbModulus - 1 /\ 0 \in Int
    BY <1>4
  <2> HIDE DEF m
  <2>2. (NlbModulus * 0 + m) % NlbModulus = m
    BY <1>2, <2>1, DivisionUnique
  <2>3. NlbModulus * 0 + m = m
    BY <1>2, <2>1
  <2>4. m % NlbModulus = m
    BY <2>2, <2>3
  <2>5. QED  BY <2>4 DEF m
<1>6. QED  BY <1>5 DEF BlocksRead

\* A command carried out puts into the buffer what it stood for.
LEMMA DataComplete ==
    ASSUME IInv, PartsInRead, NEW p \in inflight, NEW ok \in BOOLEAN, Complete(p, ok),
           NEW t, t = p.trk, DataOf(t)
    PROVE  DataOf(t)'
<1> DEFINE r == tracker[t].req
           rd == read[r]
           AS == AlignedSize(rd)
           N == BlockSize * p.num
           byte(k) == FileByte(rd.file, AlignedOffset(rd) + k)
<1>0. /\ TypeOK /\ RingTypes /\ ControlOK /\ RequestsOK /\ TrackersOK /\ CountsOK
      /\ SlotsOK /\ PartsApart
  BY DEF IInv
<1>1. /\ inflight' = inflight \ {p}
      /\ partFailed' = IF ok THEN partFailed ELSE partFailed \cup {r}
      /\ content' = [content EXCEPT ![p.buf] =
           Written(content[p.buf], p.addr, [i \in 0 .. BlocksRead(p.num) * BlockSize - 1 |->
                               IF ok THEN <<p.dev, p.lb * BlockSize + i>> ELSE <<>>])]
      /\ UNCHANGED <<read, buffer, tracker, pc, split, sq>>
  BY DEF Complete, trackerVars, loopVars
<1>2. /\ p \in Parts /\ p.trk \in InUse /\ p.addr \in Int /\ p.num \in Nat \ {0} /\ p.lb \in Int
      /\ p.buf \in Buffers /\ p.buf = buffer[r] /\ p.dev = DeviceOf[rd.file]
  BY <1>0, QueueElements DEF PartsApart, Owner, SlotsOK, Parts
<1>3. r \in Requests /\ rd \in Reads
  <2>1. r \in Requests /\ status[r] = "accepted"
    BY <1>0, <1>2, InUseIsTracked
  <2>2. QED  BY <1>0, <2>1 DEF RequestsOK
<1>4. AS \in Nat /\ AS <= ActualBufferSize /\ N \in Int /\ p.addr >= 0 /\ p.addr + N <= AS
  <2>1. p.num \in Int
    BY <1>2
  <2>2. QED  BY <1>2, <1>3, <2>1, AlignedRead, BlocksProduct DEF PartsInRead, Owner
<1>5. SUFFICES ASSUME r # None, r \notin partFailed', WhollyMapped(FileExtents[rd.file], rd)
               PROVE  /\ \A s \in Parts' : s.trk = t => \A k \in PositionsOf(s) :
                           <<DeviceOf[rd.file], s.lb * BlockSize + k - s.addr>> = byte(k)
                      /\ \A k \in 0 .. AS - 1 :
                           \/ content'[buffer[r]][k] = byte(k)
                           \/ \E s \in Parts' : s.trk = t /\ k \in PositionsOf(s)
                           \/ pc = "split" /\ split.trk = t /\ k >= split.ptr
  BY <1>1 DEF DataOf
<1>6. ok /\ r \notin partFailed
  BY <1>1, <1>5
<1>7. /\ \A s \in Parts : s.trk = t => \A k \in PositionsOf(s) :
           <<DeviceOf[rd.file], s.lb * BlockSize + k - s.addr>> = byte(k)
      /\ \A k \in 0 .. AS - 1 :
           \/ content[buffer[r]][k] = byte(k)
           \/ \E s \in Parts : s.trk = t /\ k \in PositionsOf(s)
           \/ pc = "split" /\ split.trk = t /\ k >= split.ptr
  BY <1>5, <1>6 DEF DataOf
<1>8. BlocksRead(p.num) * BlockSize = N
  <2>1. N <= AS
    <3> HIDE DEF N, AS
    <3>1. QED  BY <1>2, <1>4
  <2>2. BlocksRead(p.num) = p.num
    BY <1>2, <1>3, <1>5, <2>1, CountFits
  <2>3. p.num * BlockSize = BlockSize * p.num
    BY <1>2, ExtentConstants
  <2>4. QED  BY <2>2, <2>3
<1> DEFINE bytes == [i \in 0 .. N - 1 |-> <<p.dev, p.lb * BlockSize + i>>]
<1>9. content'[buffer[r]] = Written(content[buffer[r]], p.addr, bytes)
  <2>1. content' = [content EXCEPT ![p.buf] = Written(content[p.buf], p.addr, bytes)]
    BY <1>1, <1>6, <1>8
  <2>2. content = [b \in Buffers |-> content[b]]
    BY <1>0 DEF RingTypes
  <2>3. QED  BY <1>2, <2>1, <2>2
<1>10. ASSUME NEW k \in 0 .. AS - 1
       PROVE  content'[buffer[r]][k] =
                IF k \in PositionsOf(p) THEN byte(k) ELSE content[buffer[r]][k]
  <2>1. k \in Positions /\ k \in Int
    <3>1. ActualBufferSize \in Nat
      BY BufferIsWhole
    <3> HIDE DEF AS
    <3>2. QED  BY <1>4, <3>1 DEF Positions
  <2>2. content'[buffer[r]][k] = IF k \in p.addr .. p.addr + N - 1 THEN bytes[k - p.addr]
                                                                   ELSE content[buffer[r]][k]
    <3>1. DOMAIN bytes = 0 .. N - 1
      OBVIOUS
    <3> HIDE DEF bytes, N
    <3>2. Written(content[buffer[r]], p.addr, bytes)[k] =
             IF k \in p.addr .. p.addr + N - 1 THEN bytes[k - p.addr]
                                               ELSE content[buffer[r]][k]
      BY <1>2, <1>4, <2>1, <3>1, WrittenAt
    <3>3. QED  BY <1>9, <3>2
  <2>3. PositionsOf(p) = p.addr .. p.addr + N - 1
    BY DEF PositionsOf
  <2>4. ASSUME k \in PositionsOf(p) PROVE bytes[k - p.addr] = byte(k)
    <3>1. k - p.addr \in 0 .. N - 1
      <4> HIDE DEF N
      <4>1. QED  BY <1>2, <1>4, <2>1, <2>3, <2>4
    <3>2. bytes[k - p.addr] = <<p.dev, p.lb * BlockSize + (k - p.addr)>>
      BY <3>1
    <3>3. p.lb * BlockSize + (k - p.addr) = p.lb * BlockSize + k - p.addr
      <4>1. p.lb * BlockSize \in Int
        BY <1>2, ExtentConstants
      <4>2. QED  BY <1>2, <2>1, <4>1
    <3>4. <<DeviceOf[rd.file], p.lb * BlockSize + k - p.addr>> = byte(k)
      BY <1>2, <1>7, <2>4
    <3>5. QED  BY <1>2, <3>2, <3>3, <3>4
  <2>5. QED  BY <2>2, <2>3, <2>4
<1>11. Parts \ {p} \subseteq Parts' /\ Parts' \subseteq Parts
  BY <1>1 DEF Parts
<1> HIDE DEF byte, AS
<1>12. ASSUME NEW k \in 0 .. AS - 1
       PROVE  \/ content'[buffer[r]][k] = byte(k)
              \/ \E s \in Parts' : s.trk = t /\ k \in PositionsOf(s)
              \/ pc = "split" /\ split.trk = t /\ k >= split.ptr
  BY <1>7, <1>10, <1>11
<1>13. \A s \in Parts' : s.trk = t => \A k \in PositionsOf(s) :
          <<DeviceOf[rd.file], s.lb * BlockSize + k - s.addr>> = byte(k)
  BY <1>7, <1>11
<1>14. QED  BY <1>12, <1>13

\* A read has, or will get, its bytes in its buffer.
LEMMA DataStep ==
    ASSUME IInv, MemoryOK, PartsInRead, DataOK, Next
    PROVE  DataOK'
<1>1. ASSUME NEW t \in Trackers PROVE DataOf(t)'
  <2>1. CASE tracker'[t].req = None
    BY <2>1 DEF DataOf
  <2>2. CASE tracker'[t].req # None
    <3>1. DataOf(t)
      BY DEF DataOK
    <3>2. CASE Kept(t)
      BY <3>1, <3>2, DataKept
    <3>3. ASSUME NEW r \in Requests, PrepareRequestNvme(r), t = Tracker, pc' = "split"
          PROVE  DataOf(t)'
      BY <3>3, DataPrepared
    <3>4. ASSUME NEW r \in Requests, PreparePart(r), t = split.trk PROVE DataOf(t)'
      BY <3>1, <3>4, DataPart
    <3>5. ASSUME NEW p \in inflight, NEW ok \in BOOLEAN, Complete(p, ok), t = p.trk
          PROVE  DataOf(t)'
      BY <3>1, <3>5, DataComplete
    <3>6. QED  BY <2>2, <3>2, <3>3, <3>4, <3>5, TrackerCases
  <2>3. QED  BY <2>1, <2>2
<1>2. QED  BY <1>1 DEF DataOK

-----------------------------------------------------------------------------
(* What is handed over                                                       *)

\* What SuccessMeansData says of one request.
Delivered(r) ==
    /\ status[r] = "completed" /\ buffer[r] # None /\ r \notin bFailed \cup partFailed
    /\ WhollyMapped(FileExtents[read[r].file], read[r])
    => \A i \in 0 .. read[r].Size - 1 :
         content[buffer[r]][moved[buffer[r]] + i] =
            FileByte(read[r].file, read[r].Offset + i)

\* A step that leaves a completed request and its buffer alone keeps its data.
LEMMA DeliveredKept ==
    ASSUME NEW r, Delivered(r),
           status'[r] = "completed" =>
              /\ status[r] = "completed" /\ read'[r] = read[r] /\ buffer'[r] = buffer[r]
              /\ r \in bFailed => r \in bFailed'
              /\ r \in partFailed => r \in partFailed'
              /\ buffer[r] # None => /\ content'[buffer[r]] = content[buffer[r]]
                                     /\ moved'[buffer[r]] = moved[buffer[r]]
    PROVE  Delivered(r)'
  BY DEF Delivered

\* A hit in the block cache: Memory is where the last read left it.
LEMMA DeliveredByCache ==
    ASSUME IInv, MemoryOK, NEW r \in Requests, AllocateMemory(r, TRUE)
    PROVE  Delivered(r)'
<1> DEFINE b == AcquiredBuffer
           rd == read[r]
           byte(i) == FileByte(rd.file, rd.Offset + i)
           bytes == [i \in 0 .. rd.Size - 1 |-> byte(i)]
<1>0. TypeOK /\ RingTypes /\ ControlOK /\ RequestsOK /\ BuffersOK /\ TrackersOK
  BY DEF IInv
<1>1. /\ pc = "alloc" /\ r = NextRequest
      /\ buffer' = [buffer EXCEPT ![r] = b]
      /\ content' = [content EXCEPT ![b] = Written(content[b], moved[b], bytes)]
      /\ UNCHANGED <<read, moved>>
  BY DEF AllocateMemory
<1>2. b \in Buffers /\ status[r] = "accepted" /\ rd \in Reads
  BY <1>0, <1>1 DEF ControlOK, InHand, RequestsOK
<1>3. rd.Size \in 1 .. BufferSize /\ rd.Size \in Int /\ BufferSize \in Nat
  BY <1>2, ReadsFit, NvmeConstants
<1>4. moved[b] = FixupOffset[b] /\ moved[b] \in 0 .. BlockSize - 1
  <2>1. \A q \in Requests : Tracked(q) => buffer[q] # b
    BY <1>0, TrackedFacts
  <2>2. QED  BY <1>2, <2>1 DEF MemoryOK
<1>5. buffer'[r] = b /\ content'[b] = Written(content[b], moved[b], bytes)
  <2>1. content = [c \in Buffers |-> content[c]]
    BY <1>0 DEF RingTypes
  <2>2. buffer'[r] = b
    BY <1>0, <1>1 DEF TypeOK
  <2>3. QED  BY <1>1, <1>2, <2>1, <2>2
<1>6. ASSUME NEW i \in 0 .. rd.Size - 1 PROVE content'[b][moved[b] + i] = byte(i)
  <2> DEFINE k == moved[b] + i
  <2>1. BlockSize \in Nat \ {0} /\ ActualBufferSize \in Nat
        /\ BufferSize + BlockSize <= ActualBufferSize
    BY ExtentConstants, BufferIsWhole
  <2>2. k \in Positions /\ k - moved[b] = i /\ k \in moved[b] .. moved[b] + rd.Size - 1
        /\ moved[b] \in Int
    BY <1>3, <1>4, <2>1 DEF Positions
  <2>3. DOMAIN bytes = 0 .. rd.Size - 1 /\ bytes[i] = byte(i)
    OBVIOUS
  <2> DEFINE at == moved[b]
             n == rd.Size
  <2>4. /\ at \in Int /\ n \in Int /\ DOMAIN bytes = 0 .. n - 1 /\ bytes[i] = byte(i)
        /\ k \in Positions /\ k - at = i /\ k \in at .. at + n - 1
        /\ content'[b] = Written(content[b], at, bytes)
    BY <1>3, <1>5, <2>2, <2>3
  <2> HIDE DEF bytes, at, n, byte, k
  <2>5. Written(content[b], at, bytes)[k] =
           IF k \in at .. at + n - 1 THEN bytes[k - at] ELSE content[b][k]
    <3> DEFINE c == content[b]
    <3> HIDE DEF c
    <3>1. \A j \in Positions : Written(c, at, bytes)[j] =
             IF j \in at .. at + n - 1 THEN bytes[j - at] ELSE c[j]
      BY <2>4, WrittenAt
    <3>2. QED  BY <2>4, <3>1 DEF c
  <2>6. content'[b][k] = byte(i)
    BY <2>4, <2>5
  <2>7. QED  BY <2>6 DEF k
<1>7. QED  BY <1>1, <1>5, <1>6 DEF Delivered

\* The last completion of a read: all of its bytes are there, and Memory is moved
\* to the first that was asked for.
LEMMA DeliveredByDevice ==
    ASSUME IInv, MemoryOK, DataOK, pc # "split", NEW cqes, Reaps(cqes),
           NEW t \in Finished(cqes), NEW r, r = tracker[t].req
    PROVE  Delivered(r)'
<1> DEFINE rd == read[r]
           b == buffer[r]
           AS == AlignedSize(rd)
           AO == AlignedOffset(rd)
<1>0. TypeOK /\ RingTypes /\ RequestsOK /\ BuffersOK /\ TrackersOK /\ CountsOK
      /\ None \notin Requests
  BY NvmeConstants DEF IInv
<1>1. /\ UNCHANGED <<read, buffer, partFailed, content, sq, inflight>>
      /\ Finished(cqes) \subseteq InUse /\ Finished(cqes) \subseteq Trackers
      /\ InUse' = InUse \ Finished(cqes)
  BY <1>0, ReapEffects
<1>2. r \in Requests /\ Tracked(r) /\ r \in Done(cqes) /\ r # None
  BY <1>0, <1>1, InUseIsTracked DEF Tracked, Done
<1>3. b \in Buffers /\ rd \in Reads /\ moved[b] = 0 /\ FixupOffset[b] = FixupOf(rd)
  BY <1>0, <1>2, TrackedFacts DEF MemoryOK
<1>4. moved'[b] = FixupOf(rd)
  <2>1. moved' = [c \in Buffers |-> IF \E q \in Done(cqes) : buffer[q] = c
                                      THEN moved[c] + FixupOffset[c] ELSE moved[c]]
    BY DEF Reaps, ProcessCompletionEvents, Done
  <2>2. FixupOf(rd) \in Int
    BY <1>3, AlignedRead
  <2>3. QED  BY <1>2, <1>3, <2>1, <2>2
<1>5. \A p \in Parts : p.trk # t
  <2>1. \A p \in Parts' : p.trk \in InUse'
    BY DEF Parts, InUse
  <2>2. Parts' = Parts
    BY <1>1 DEF Parts
  <2>3. QED  BY <1>1, <2>1, <2>2
<1>6. SUFFICES ASSUME r \notin partFailed, WhollyMapped(FileExtents[rd.file], rd)
               PROVE  \A i \in 0 .. rd.Size - 1 :
                        content[b][FixupOf(rd) + i] = FileByte(rd.file, rd.Offset + i)
  BY <1>1, <1>4 DEF Delivered
<1>7. \A k \in 0 .. AS - 1 : content[b][k] = FileByte(rd.file, AO + k)
  BY <1>1, <1>2, <1>5, <1>6 DEF DataOK, DataOf
<1>8. ASSUME NEW i \in 0 .. rd.Size - 1
      PROVE  content[b][FixupOf(rd) + i] = FileByte(rd.file, rd.Offset + i)
  <2> DEFINE x == FixupOf(rd)
  <2>1. /\ AS \in Nat /\ AO \in Nat /\ x \in Int /\ x >= 0 /\ x = rd.Offset - AO
        /\ rd.Offset \in Nat /\ rd.Size \in Nat /\ x + rd.Size <= AS
    BY <1>3, ExtentConstants, AlignedRead
  <2> HIDE DEF x, AS, AO
  <2>2. x + i \in 0 .. AS - 1 /\ AO + (x + i) = rd.Offset + i
    BY <2>1
  <2>3. QED  BY <1>7, <2>2 DEF x
<1>9. QED  BY <1>8

\* A request completed as good, or handed over since, has the data asked for.
LEMMA SuccessStep ==
    ASSUME IInv, MemoryOK, DataOK, SuccessMeansData, Next
    PROVE  SuccessMeansData'
<1>0. /\ TypeOK /\ RingTypes /\ ControlOK /\ RequestsOK /\ BuffersOK /\ RegisteredOK
      /\ DeviceTableConsistent /\ SlotsOK /\ TrackersOK /\ CountsOK /\ PartsApart /\ SplitOK
      /\ None \notin Requests /\ None \notin Buffers
      /\ status \in [Requests -> {"idle", "queued", "accepted", "completed"}]
      /\ buffer \in [Requests -> Buffers \cup {None}]
      /\ read \in [Requests -> Reads \cup {None}]
      /\ moved \in [Buffers -> Int]
      /\ content = [b \in Buffers |-> content[b]]
  BY NvmeConstants DEF IInv, TypeOK, RingTypes
<1>a. \A q \in Requests : Delivered(q)
  BY DEF SuccessMeansData, Delivered
<1>b. \A r, q \in Requests : r # q /\ buffer[q] # None => buffer[q] # buffer[r]
  BY <1>0 DEF BuffersOK
<1> SUFFICES ASSUME NEW q \in Requests PROVE Delivered(q)'
  BY DEF SuccessMeansData, Delivered
<1>1. ASSUME status'[q] # "completed" \/ q \in bFailed' PROVE Delivered(q)'
  BY <1>1 DEF Delivered
<1>2. ASSUME status'[q] = "completed" =>
                /\ status[q] = "completed" /\ read'[q] = read[q] /\ buffer'[q] = buffer[q]
                /\ q \in bFailed => q \in bFailed'
                /\ q \in partFailed => q \in partFailed'
                /\ buffer[q] # None => /\ content'[buffer[q]] = content[buffer[q]]
                                       /\ moved'[buffer[q]] = moved[buffer[q]]
      PROVE  Delivered(q)'
  BY <1>a, <1>2, DeliveredKept
<1>3. ASSUME UNCHANGED <<requestVars, memoryVars>> PROVE Delivered(q)'
  BY <1>2, <1>3 DEF requestVars, memoryVars
<1>4. ASSUME NEW f \in Files, OpenContainer(f) \/ CloseContainer(f) \/ UnregisterNvmeFile(f)
      PROVE  Delivered(q)'
  BY <1>3, <1>4 DEF OpenContainer, CloseContainer, UnregisterNvmeFile
<1>5. ASSUME NEW r \in Requests, NEW rd \in Reads, PushRequest(r, rd) PROVE Delivered(q)'
  <2>1. /\ status' = [status EXCEPT ![r] = "queued"] /\ read' = [read EXCEPT ![r] = rd]
        /\ UNCHANGED <<bFailed, buffer, partFailed, content, moved>>
    BY <1>5 DEF PushRequest, memoryVars
  <2>2. CASE q = r
    BY <1>0, <1>1, <2>1, <2>2
  <2>3. CASE q # r
    BY <1>0, <1>2, <2>1, <2>3
  <2>4. QED  BY <2>2, <2>3
<1>6. ASSUME NEW r \in Requests, ReleaseRequest(r) PROVE Delivered(q)'
  <2>1. /\ status' = [status EXCEPT ![r] = "idle"] /\ read' = [read EXCEPT ![r] = None]
        /\ bFailed' = bFailed \ {r} /\ partFailed' = partFailed \ {r}
        /\ buffer' = [buffer EXCEPT ![r] = None]
        /\ content' = [b \in Buffers |-> IF b = buffer[r] THEN Blank ELSE content[b]]
        /\ moved' = moved
    BY <1>6 DEF ReleaseRequest
  <2>2. CASE q = r
    BY <1>0, <1>1, <2>1, <2>2
  <2>3. CASE q # r
    <3>1. buffer[q] # None => buffer[q] \in Buffers /\ buffer[q] # buffer[r]
      BY <1>0, <1>b, <2>3
    <3>2. buffer[q] # None => content'[buffer[q]] = content[buffer[q]]
      BY <2>1, <3>1
    <3>3. status'[q] = status[q] /\ read'[q] = read[q] /\ buffer'[q] = buffer[q]
      BY <1>0, <2>1, <2>3
    <3>4. QED  BY <1>2, <2>1, <2>3, <3>2, <3>3
  <2>4. QED  BY <2>2, <2>3
<1>7. ASSUME NEW b, NoNextRequest(b) PROVE Delivered(q)'
  BY <1>3, <1>7 DEF NoNextRequest
<1>8. ASSUME NEW r \in Requests, NEW b \in Buffers, GetNextRequest(r, b) PROVE Delivered(q)'
  <2>1. /\ status' = [status EXCEPT ![r] = "accepted"]
        /\ UNCHANGED <<read, bFailed, buffer, partFailed, content, moved>>
    BY <1>8 DEF GetNextRequest, memoryVars
  <2>2. CASE q = r
    BY <1>0, <1>1, <2>1, <2>2
  <2>3. CASE q # r
    BY <1>0, <1>2, <2>1, <2>3
  <2>4. QED  BY <2>2, <2>3
<1>9. ASSUME NEW r \in Requests, NEW ok \in BOOLEAN, RegisterNvmeFile(r, ok)
      PROVE  Delivered(q)'
  <2>1. /\ UNCHANGED <<read, buffer, partFailed, content, moved>>
        /\ \/ UNCHANGED <<status, bFailed>>
           \/ bFailed' = bFailed \cup {r} /\ status' = [status EXCEPT ![r] = "completed"]
    BY <1>9 DEF RegisterNvmeFile, OnRequestComplete, memoryVars
  <2>2. CASE UNCHANGED <<status, bFailed>>
    BY <1>2, <2>1, <2>2
  <2>3. CASE bFailed' = bFailed \cup {r} /\ status' = [status EXCEPT ![r] = "completed"]
    <3>1. CASE q = r
      BY <1>1, <2>3, <3>1
    <3>2. CASE q # r
      BY <1>0, <1>2, <2>1, <2>3, <3>2
    <3>3. QED  BY <3>1, <3>2
  <2>4. QED  BY <2>1, <2>2, <2>3
<1>10. ASSUME NEW r \in Requests, NEW hit \in BOOLEAN, AllocateMemory(r, hit)
       PROVE  Delivered(q)'
  <2>1. /\ pc = "alloc" /\ r = NextRequest /\ buffer' = [buffer EXCEPT ![r] = AcquiredBuffer]
        /\ (content' = content \/ \E x : content' = [content EXCEPT ![AcquiredBuffer] = x])
        /\ \/ hit /\ status' = [status EXCEPT ![r] = "completed"]
           \/ ~hit /\ status' = status
        /\ UNCHANGED <<read, bFailed, partFailed, moved>>
    BY <1>10 DEF AllocateMemory, OnRequestComplete
  <2>2. CASE q = r /\ hit
    BY <1>10, <2>2, DeliveredByCache
  <2>3. CASE q = r /\ ~hit
    <3>1. status'[q] = "accepted"
      BY <1>0, <2>1, <2>3 DEF ControlOK, InHand
    <3>2. QED  BY <1>1, <3>1
  <2>4. CASE q # r
    <3>1. buffer[q] # None => buffer[q] \in Buffers /\ buffer[q] # AcquiredBuffer
      BY <1>0 DEF BuffersOK
    <3>2. buffer[q] # None => content'[buffer[q]] = content[buffer[q]]
      BY <1>0, <2>1, <3>1
    <3>3. status'[q] = status[q] /\ buffer'[q] = buffer[q]
      BY <1>0, <2>1, <2>4
    <3>4. QED  BY <1>2, <2>1, <3>2, <3>3
  <2>5. QED  BY <2>2, <2>3, <2>4
<1>11. ASSUME NEW r \in Requests, PrepareRequestNvme(r) PROVE Delivered(q)'
  <2>1. /\ status[r] = "accepted" /\ moved' = [moved EXCEPT ![buffer[r]] = Rewound(buffer[r])]
        /\ UNCHANGED <<read, buffer, partFailed, content>>
        /\ \A s \in Requests \ {r} : status'[s] = status[s]
        /\ \/ bFailed' = bFailed \cup {r}
           \/ UNCHANGED <<status, bFailed>>
    BY <1>0, <1>11, PrepareEffects
  <2>2. CASE q = r
    BY <1>1, <2>1, <2>2
  <2>3. CASE q # r
    <3>1. buffer[q] # None => buffer[q] \in Buffers /\ buffer[q] # buffer[r]
      BY <1>0, <1>b, <2>3
    <3>2. buffer[q] # None => moved'[buffer[q]] = moved[buffer[q]]
      BY <1>0, <2>1, <3>1
    <3>3. QED  BY <1>2, <2>1, <2>3, <3>2
  <2>4. QED  BY <2>2, <2>3
<1>12. ASSUME NEW r \in Requests, PreparePart(r) \/ SubmitRequest(r) PROVE Delivered(q)'
  BY <1>3, <1>12 DEF PreparePart, SubmitRequest
<1>13. CASE EnterRequestLoop \/ NothingToWaitFor \/ ServiceWait \/ SubmissionQueueFull \/ Poll
  BY <1>3, <1>13 DEF EnterRequestLoop, NothingToWaitFor, ServiceWait, SubmissionQueueFull, Poll
<1>14. CASE ProcessCompletedRequests \/ WaitCqe
  <2>1. ASSUME NEW cqes, Reaps(cqes) PROVE Delivered(q)'
    <3>1. /\ UNCHANGED <<read, buffer, partFailed, content>>
          /\ q \notin Done(cqes) => status'[q] = status[q]
          /\ Finished(cqes) \subseteq InUse
      BY <1>0, <2>1, ReapEffects
    <3>2. /\ moved' = [b \in Buffers |-> IF \E r \in Done(cqes) : buffer[r] = b
                                           THEN moved[b] + FixupOffset[b] ELSE moved[b]]
          /\ bFailed \subseteq bFailed'
      BY <2>1 DEF Reaps, ProcessCompletionEvents, Done
    <3>3. CASE q \in Done(cqes)
      <4>1. PICK t \in Finished(cqes) : q = tracker[t].req
        BY <3>3 DEF Done
      <4>2. pc # "split"
        BY <1>14 DEF ProcessCompletedRequests, WaitCqe
      <4>3. QED  BY <2>1, <4>1, <4>2, DeliveredByDevice
    <3>4. CASE q \notin Done(cqes)
      <4>1. \A r \in Done(cqes) : r \in Requests /\ r # q
        BY <1>0, <3>1, <3>4, InUseIsTracked DEF Done
      <4>2. buffer[q] # None => moved'[buffer[q]] = moved[buffer[q]]
        <5>1. ASSUME buffer[q] # None
              PROVE  buffer[q] \in Buffers /\ ~\E r \in Done(cqes) : buffer[r] = buffer[q]
          BY <1>0, <1>b, <4>1, <5>1
        <5>2. QED  BY <3>2, <5>1
      <4>3. QED  BY <1>2, <3>1, <3>2, <3>4, <4>2
    <3>5. QED  BY <3>3, <3>4
  <2>2. CASE UNCHANGED <<requestVars, memoryVars>>
    BY <1>3, <2>2
  <2>3. QED  BY <1>0, <1>14, <2>1, <2>2, ReapCases
<1>15. ASSUME NEW p \in inflight, NEW ok \in BOOLEAN, Complete(p, ok) PROVE Delivered(q)'
  <2>1. /\ \E x : content' = [content EXCEPT ![p.buf] = x]
        /\ partFailed \subseteq partFailed'
        /\ UNCHANGED <<status, read, bFailed, buffer, moved>>
    BY <1>15 DEF Complete
  <2>2. CASE status[q] # "completed"
    BY <1>1, <2>1, <2>2
  <2>3. CASE status[q] = "completed"
    <3>1. p \in Parts /\ p.trk \in InUse
      BY DEF Parts, InUse
    <3>2. /\ tracker[p.trk].req \in Requests /\ tracker[p.trk].req # q
          /\ p.buf = buffer[tracker[p.trk].req]
      BY <1>0, <2>3, <3>1, InUseIsTracked DEF PartsApart, Owner
    <3>3. buffer[q] # None => buffer[q] \in Buffers /\ buffer[q] # p.buf
      BY <1>0, <1>b, <3>2
    <3>4. buffer[q] # None => content'[buffer[q]] = content[buffer[q]]
      BY <1>0, <2>1, <3>3
    <3>5. QED  BY <1>2, <2>1, <3>4
  <2>4. QED  BY <2>2, <2>3
<1>16. QED
  <2>1. CASE Engine
    BY <2>1, <1>4, <1>5, <1>6 DEF Engine
  <2>2. CASE Service
    BY <2>2, <1>4, <1>7, <1>8, <1>9, <1>10, <1>11, <1>12, <1>13, <1>14 DEF Service
  <2>3. QED  BY <2>1, <2>2, <1>15 DEF Next

\* The invariant of the data holds at the start,
LEMMA InitDInv ==
    ASSUME Init
    PROVE  DInv
<1>1. /\ status = [r \in Requests |-> "idle"]
      /\ moved = [b \in Buffers |-> 0] /\ FixupOffset = [b \in Buffers |-> 0]
      /\ tracker = [t \in Trackers |-> Unused] /\ sq = <<>> /\ inflight = {}
  BY DEF Init
<1>2. Parts = {} /\ \A t \in Trackers : tracker[t].req = None
  BY <1>1 DEF Parts, ToSet, Unused
<1>3. \A r \in Requests : ~Tracked(r)
  BY <1>2, NvmeConstants DEF Tracked
<1>4. MemoryOK
  <2>1. BlockSize \in Nat \ {0}
    BY ExtentConstants
  <2>2. \A b \in Buffers : moved[b] = 0 /\ FixupOffset[b] = 0 /\ 0 \in 0 .. BlockSize - 1
    BY <1>1, <2>1
  <2>3. QED  BY <1>3, <2>2 DEF MemoryOK
<1>5. PartsInRead
  BY <1>2 DEF PartsInRead
<1>6. DataOK
  BY <1>2 DEF DataOK, DataOf
<1>7. SuccessMeansData
  BY <1>1 DEF SuccessMeansData
<1>8. QED  BY <1>4, <1>5, <1>6, <1>7 DEF DInv

\* and is kept by no step.
LEMMA StutterDInv ==
    ASSUME DInv, UNCHANGED vars
    PROVE  DInv'
<1>1. UNCHANGED <<read, moved, FixupOffset, tracker, buffer, sq, inflight, content,
                  partFailed, bFailed, status, pc, split>>
  BY DEF vars, requestVars, memoryVars, trackerVars, loopVars, ringVars
<1>2. Parts' = Parts
  BY <1>1 DEF Parts
<1>3. \A r : Tracked(r)' <=> Tracked(r)
  BY <1>1 DEF Tracked
<1>4. MemoryOK'
  BY <1>1, <1>3 DEF DInv, MemoryOK
<1>5. PartsInRead'
  BY <1>1, <1>2 DEF DInv, PartsInRead, Owner
<1>6. \A t : DataOf(t) => DataOf(t)'
  BY <1>1, <1>2 DEF DataOf
<1>7. DataOK'
  BY <1>6 DEF DInv, DataOK
<1>8. SuccessMeansData'
  BY <1>1 DEF DInv, SuccessMeansData
<1>9. QED  BY <1>4, <1>5, <1>7, <1>8 DEF DInv

\* For reads that start in the mapped part or on a block: buffers' memory is where
\* FixupOffset says, commands stay inside their read, and what they have moved and
\* will move are the bytes of the file.
THEOREM ReadsWhereTheyBelong ==
    ASSUME StartsHeld
    PROVE  Spec => []DInv
<1>1. Init => DInv
  BY InitDInv
<1>2. IInv /\ DInv /\ [Next]_vars => DInv'
  <2>1. IInv /\ DInv /\ Next => DInv'
    BY MemoryStep, InReadStep, DataStep, SuccessStep DEF DInv
  <2>2. DInv /\ UNCHANGED vars => DInv'
    BY StutterDInv
  <2>3. QED  BY <2>1, <2>2
<1>3. QED  BY <1>1, <1>2, Invariance, PTL DEF Spec

\* Of such reads, no command that PrepareRequestNvme queues reaches out of the memory
\* AllocateMemory gave the read, however often Memory was moved and moved back.
THEOREM CommandsInBuffer ==
    ASSUME StartsHeld
    PROVE  Spec => []PartsInBuffer
<1>1. IInv /\ PartsInRead => PartsInBuffer
  <2> SUFFICES ASSUME IInv, PartsInRead, NEW p \in Parts
               PROVE  p.addr >= 0 /\ p.addr + p.num * BlockSize <= ActualBufferSize
    BY DEF PartsInBuffer
  <2>0. TypeOK /\ RingTypes /\ RequestsOK /\ TrackersOK /\ CountsOK
    BY DEF IInv
  <2>1. p.trk \in InUse /\ p.addr \in Int /\ p.num \in Nat \ {0}
    BY <2>0, QueueElements
  <2>2. Owner(p) \in Requests /\ read[Owner(p)] \in Reads
    BY <2>0, <2>1, InUseIsTracked DEF Owner, RequestsOK
  <2>3. /\ AlignedSize(read[Owner(p)]) \in Nat
        /\ AlignedSize(read[Owner(p)]) <= ActualBufferSize
    BY <2>2, AlignedRead
  <2>4. ActualBufferSize \in Nat /\ BlockSize * p.num \in Int
        /\ p.num * BlockSize = BlockSize * p.num
    BY <2>1, BufferIsWhole, ExtentConstants
  <2>5. p.addr >= 0 /\ p.addr + BlockSize * p.num <= AlignedSize(read[Owner(p)])
    BY DEF PartsInRead
  <2>6. QED  BY <2>1, <2>3, <2>4, <2>5
<1>2. DInv => PartsInRead
  BY DEF DInv
<1>3. QED  BY <1>1, <1>2, Invariance, ReadsWhereTheyBelong, PTL

\* Of such reads, what ProcessCompletionEvent hands over as good has, from Memory on,
\* the bytes asked for: the extents were split, addressed, counted in 16 bits and
\* moved by FixupOffset right, in any order of completions.
THEOREM DataDelivered ==
    ASSUME StartsHeld
    PROVE  Spec => []SuccessMeansData
<1>1. DInv => SuccessMeansData
  BY DEF DInv
<1>2. QED  BY <1>1, ReadsWhereTheyBelong, PTL
=============================================================================
