--------------------------- MODULE SequenceLemmas ---------------------------
(***************************************************************************)
(* What the operators of SequencesExt that the models use return, stated   *)
(* as the theorems of SequenceTheorems state it for the basic operators.   *)
(***************************************************************************)
EXTENDS Integers, Sequences, SequencesExt, SequenceTheorems, FiniteSetTheorems, TLAPS

\* Removing one element leaves a sequence one shorter, of elements of the first.
LEMMA RemoveAtProperties ==
    ASSUME NEW S, NEW s \in Seq(S), NEW i \in 1 .. Len(s)
    PROVE  /\ RemoveAt(s, i) \in Seq(S)
           /\ Len(RemoveAt(s, i)) = Len(s) - 1
           /\ \A j \in 1 .. Len(s) - 1 :
                RemoveAt(s, i)[j] = IF j < i THEN s[j] ELSE s[j + 1]
<1> DEFINE a == SubSeq(s, 1, i - 1)
           b == SubSeq(s, i + 1, Len(s))
<1>0. Len(s) \in Nat /\ \A j \in 1 .. Len(s) : s[j] \in S
  BY LenProperties, ElementOfSeq
<1>1. a \in Seq(S) /\ Len(a) = i - 1 /\ \A j \in 1 .. i - 1 : a[j] = s[j]
  <2>1. \A j \in 1 .. i - 1 : s[j] \in S
    BY <1>0
  <2>2. /\ SubSeq(s, 1, i - 1) \in Seq(S)
        /\ Len(SubSeq(s, 1, i - 1)) = IF 1 <= i - 1 THEN (i - 1) - 1 + 1 ELSE 0
        /\ \A j \in 1 .. (i - 1) - 1 + 1 : SubSeq(s, 1, i - 1)[j] = s[1 + j - 1]
    BY <1>0, <2>1, SubSeqProperties, i - 1 \in Int
  <2>3. QED  BY <1>0, <2>2
<1>2. /\ b \in Seq(S) /\ Len(b) = Len(s) - i
      /\ \A j \in 1 .. Len(s) - i : b[j] = s[i + j]
  <2>1. \A j \in i + 1 .. Len(s) : s[j] \in S
    BY <1>0
  <2>2. /\ SubSeq(s, i + 1, Len(s)) \in Seq(S)
        /\ Len(SubSeq(s, i + 1, Len(s))) =
              IF i + 1 <= Len(s) THEN Len(s) - (i + 1) + 1 ELSE 0
        /\ \A j \in 1 .. Len(s) - (i + 1) + 1 :
              SubSeq(s, i + 1, Len(s))[j] = s[(i + 1) + j - 1]
    BY <1>0, <2>1, SubSeqProperties, i + 1 \in Int
  <2>3. QED  BY <1>0, <2>2
<1>3. /\ a \o b \in Seq(S) /\ Len(a \o b) = Len(a) + Len(b)
      /\ \A j \in 1 .. Len(a) + Len(b) :
           (a \o b)[j] = IF j <= Len(a) THEN a[j] ELSE b[j - Len(a)]
  BY <1>1, <1>2, ConcatProperties
<1>4. RemoveAt(s, i) = a \o b
  BY DEF RemoveAt
<1> HIDE DEF a, b
<1>5. ASSUME NEW j \in 1 .. Len(s) - 1
      PROVE  (a \o b)[j] = IF j < i THEN s[j] ELSE s[j + 1]
  <2>1. j \in 1 .. Len(a) + Len(b)
    BY <1>0, <1>1, <1>2
  <2>2. CASE j < i
    BY <1>1, <1>3, <2>1, <2>2
  <2>3. CASE j >= i
    <3>1. (a \o b)[j] = b[j - (i - 1)]
      BY <1>0, <1>1, <1>3, <2>1, <2>3
    <3>2. j - (i - 1) \in 1 .. Len(s) - i /\ i + (j - (i - 1)) = j + 1
      BY <1>0, <2>3
    <3>3. QED  BY <1>2, <2>3, <3>1, <3>2
  <2>4. j < i \/ j >= i
    BY <1>0
  <2>5. QED  BY <2>2, <2>3, <2>4, Zenon
<1>6. QED  BY <1>0, <1>1, <1>2, <1>3, <1>4, <1>5

\* The sequence without its first n elements.
LEMMA DropProperties ==
    ASSUME NEW S, NEW s \in Seq(S), NEW n \in 0 .. Len(s)
    PROVE  /\ SubSeq(s, n + 1, Len(s)) \in Seq(S)
           /\ Len(SubSeq(s, n + 1, Len(s))) = Len(s) - n
           /\ \A j \in 1 .. Len(s) - n : SubSeq(s, n + 1, Len(s))[j] = s[n + j]
<1>0. Len(s) \in Nat /\ \A j \in 1 .. Len(s) : s[j] \in S
  BY LenProperties, ElementOfSeq
<1>1. \A j \in n + 1 .. Len(s) : s[j] \in S
  BY <1>0
<1>2. /\ SubSeq(s, n + 1, Len(s)) \in Seq(S)
      /\ Len(SubSeq(s, n + 1, Len(s))) =
            IF n + 1 <= Len(s) THEN Len(s) - (n + 1) + 1 ELSE 0
      /\ \A j \in 1 .. Len(s) - (n + 1) + 1 :
            SubSeq(s, n + 1, Len(s))[j] = s[(n + 1) + j - 1]
  BY <1>0, <1>1, SubSeqProperties, n + 1 \in Int
<1>3. QED  BY <1>0, <1>2

\* The first n elements of a sequence.
LEMMA TakeProperties ==
    ASSUME NEW S, NEW s \in Seq(S), NEW n \in 0 .. Len(s)
    PROVE  /\ SubSeq(s, 1, n) \in Seq(S)
           /\ Len(SubSeq(s, 1, n)) = n
           /\ \A j \in 1 .. n : SubSeq(s, 1, n)[j] = s[j]
<1>0. Len(s) \in Nat /\ \A j \in 1 .. Len(s) : s[j] \in S
  BY LenProperties, ElementOfSeq
<1>1. \A j \in 1 .. n : s[j] \in S
  BY <1>0
<1>2. /\ SubSeq(s, 1, n) \in Seq(S)
      /\ Len(SubSeq(s, 1, n)) = IF 1 <= n THEN n - 1 + 1 ELSE 0
      /\ \A j \in 1 .. n - 1 + 1 : SubSeq(s, 1, n)[j] = s[1 + j - 1]
  BY <1>0, <1>1, SubSeqProperties
<1>3. QED  BY <1>0, <1>2

\* The front of a sequence is all of it but its last element.
LEMMA FrontLastProperties ==
    ASSUME NEW S, NEW s \in Seq(S), s # <<>>
    PROVE  /\ Front(s) \in Seq(S) /\ Len(Front(s)) = Len(s) - 1
           /\ \A j \in 1 .. Len(s) - 1 : Front(s)[j] = s[j]
           /\ Last(s) \in S /\ Len(s) \in 1 .. Len(s)
<1>1. Len(s) \in Nat \ {0}
  BY EmptySeq
<1>2. Last(s) \in S
  BY <1>1, ElementOfSeq DEF Last
<1>3. Len(s) - 1 \in 0 .. Len(s) /\ Len(s) \in 1 .. Len(s)
  BY <1>1
<1>4. QED  BY <1>2, <1>3, TakeProperties DEF Front

-----------------------------------------------------------------------------
(* Counting                                                                  *)

\* How many elements of a sequence are in a set.
Occurrences(s, P) == Cardinality({i \in DOMAIN s : s[i] \in P})

LEMMA OccurrencesType ==
    ASSUME NEW S, NEW s \in Seq(S), NEW P
    PROVE  /\ IsFiniteSet({i \in DOMAIN s : s[i] \in P}) /\ Occurrences(s, P) \in Nat
           /\ Occurrences(s, P) = 0 <=> \A i \in DOMAIN s : s[i] \notin P
<1> DEFINE A == {i \in DOMAIN s : s[i] \in P}
<1>1. Len(s) \in Nat /\ DOMAIN s = 1 .. Len(s)
  BY LenProperties
<1>2. IsFiniteSet(1 .. Len(s)) /\ A \in SUBSET (1 .. Len(s))
  BY <1>1, FS_Interval
<1>3. IsFiniteSet(A)
  BY <1>2, FS_Subset
<1>4. Cardinality(A) \in Nat /\ (Cardinality(A) = 0 <=> A = {})
  BY <1>3, FS_CardinalityType, FS_EmptySet
<1>5. A = {} <=> \A i \in DOMAIN s : s[i] \notin P
  OBVIOUS
<1>6. QED  BY <1>3, <1>4, <1>5 DEF Occurrences

\* Two sequences that agree, place by place, on what is counted.
LEMMA OccurrencesSame ==
    ASSUME NEW s, NEW t, NEW P, NEW Q, DOMAIN s = DOMAIN t,
           \A i \in DOMAIN s : s[i] \in P <=> t[i] \in Q
    PROVE  Occurrences(s, P) = Occurrences(t, Q)
<1>1. {i \in DOMAIN s : s[i] \in P} = {i \in DOMAIN t : t[i] \in Q}
  OBVIOUS
<1>2. QED  BY <1>1 DEF Occurrences

LEMMA OccurrencesEmpty ==
    ASSUME NEW P
    PROVE  Occurrences(<<>>, P) = 0
<1>1. {i \in DOMAIN <<>> : <<>>[i] \in P} = {}
  OBVIOUS
<1>2. QED  BY <1>1, FS_EmptySet DEF Occurrences

LEMMA OccurrencesConcat ==
    ASSUME NEW S, NEW s \in Seq(S), NEW t \in Seq(S), NEW P
    PROVE  Occurrences(s \o t, P) = Occurrences(s, P) + Occurrences(t, P)
<1> DEFINE m == Len(s)
           n == Len(t)
           A == {i \in DOMAIN s : s[i] \in P}
           B == {j \in DOMAIN t : t[j] \in P}
           C == {i \in m + 1 .. m + n : t[i - m] \in P}
           st == s \o t
           AC == {i \in DOMAIN st : st[i] \in P}
           shift == [j \in B |-> j + m]
<1>1. m \in Nat /\ DOMAIN s = 1 .. m /\ n \in Nat /\ DOMAIN t = 1 .. n
  BY LenProperties
<1>2. /\ st \in Seq(S) /\ Len(st) = m + n
      /\ \A i \in 1 .. m + n : st[i] = IF i <= m THEN s[i] ELSE t[i - m]
  BY ConcatProperties
<1>3. DOMAIN st = 1 .. m + n
  BY <1>2, LenProperties
<1> HIDE DEF m, n, st
<1>4. AC = A \cup C
  <2>1. ASSUME NEW i PROVE i \in AC <=> i \in A \/ i \in C
    <3>1. CASE i \in 1 .. m
      <4>1. i \in 1 .. m + n /\ i \notin C /\ st[i] = s[i]
        BY <1>1, <1>2, <3>1
      <4>2. QED  BY <1>1, <1>3, <3>1, <4>1
    <3>2. CASE i \in m + 1 .. m + n
      <4>1. i \in 1 .. m + n /\ i \notin A /\ st[i] = t[i - m]
        BY <1>1, <1>2, <3>2
      <4>2. QED  BY <1>3, <3>2, <4>1
    <3>3. CASE i \notin 1 .. m /\ i \notin m + 1 .. m + n
      <4>1. i \notin 1 .. m + n
        BY <1>1, <3>3
      <4>2. QED  BY <1>1, <1>3, <3>3, <4>1
    <3>4. QED  BY <3>1, <3>2, <3>3
  <2> HIDE DEF A, C, AC
  <2>2. QED  BY <2>1
<1>5. A \cap C = {}
  BY <1>1
<1>6. shift \in Bijection(B, C)
  <2>1. \A j \in B : j + m \in C
    <3>1. \A j \in 1 .. n : j + m \in m + 1 .. m + n /\ (j + m) - m = j
      BY <1>1
    <3>2. QED  BY <1>1, <3>1
  <2>2. \A i \in C : i - m \in B /\ (i - m) + m = i
    <3>1. \A i \in m + 1 .. m + n : i - m \in 1 .. n /\ (i - m) + m = i
      BY <1>1
    <3>2. QED  BY <1>1, <3>1
  <2>3. \A j, k \in B : j + m = k + m => j = k
    <3>1. \A j, k \in 1 .. n : j + m = k + m => j = k
      BY <1>1
    <3>2. QED  BY <1>1, <3>1
  <2> HIDE DEF B, C
  <2>4. shift \in [B -> C]
    BY <2>1
  <2>5. shift \in Injection(B, C)
    BY <2>3, <2>4 DEF Injection, IsInjective
  <2>6. shift \in Surjection(B, C)
    BY <2>2, <2>4 DEF Surjection
  <2>7. QED  BY <2>5, <2>6 DEF Bijection
<1>7. IsFiniteSet(A) /\ IsFiniteSet(B)
  BY OccurrencesType
<1>8. IsFiniteSet(C) /\ Cardinality(C) = Cardinality(B)
  BY <1>6, <1>7, FS_Bijection DEF ExistsBijection
<1> HIDE DEF A, B, C, AC
<1>9. Cardinality(A \cup C) = Cardinality(A) + Cardinality(C) - Cardinality(A \cap C)
  BY <1>7, <1>8, FS_Union
<1>10. Cardinality(A \cap C) = 0 /\ Cardinality(A) \in Nat /\ Cardinality(B) \in Nat
  BY <1>5, <1>7, FS_EmptySet, FS_CardinalityType
<1>11. Cardinality(AC) = Cardinality(A) + Cardinality(B)
  BY <1>4, <1>8, <1>9, <1>10
<1>12. QED  BY <1>11 DEF Occurrences, A, B, AC, st

LEMMA OccurrencesOne ==
    ASSUME NEW e, NEW P
    PROVE  Occurrences(<<e>>, P) = IF e \in P THEN 1 ELSE 0
<1>1. DOMAIN <<e>> = {1} /\ <<e>>[1] = e
  OBVIOUS
<1>2. CASE e \in P
  <2>1. {i \in DOMAIN <<e>> : <<e>>[i] \in P} = {1}
    BY <1>1, <1>2
  <2>2. QED  BY <1>2, <2>1, FS_Singleton DEF Occurrences
<1>3. CASE e \notin P
  <2>1. {i \in DOMAIN <<e>> : <<e>>[i] \in P} = {}
    BY <1>1, <1>3
  <2>2. QED  BY <1>3, <2>1, FS_EmptySet DEF Occurrences
<1>4. QED  BY <1>2, <1>3

LEMMA OccurrencesAppend ==
    ASSUME NEW S, NEW s \in Seq(S), NEW e \in S, NEW P
    PROVE  Occurrences(Append(s, e), P) = Occurrences(s, P) + (IF e \in P THEN 1 ELSE 0)
<1>1. Append(s, e) = s \o <<e>> /\ <<e>> \in Seq(S)
  BY AppendIsConcat
<1>2. Occurrences(s \o <<e>>, P) = Occurrences(s, P) + Occurrences(<<e>>, P)
  BY <1>1, OccurrencesConcat
<1>3. Occurrences(<<e>>, P) = IF e \in P THEN 1 ELSE 0
  BY OccurrencesOne
<1>4. QED  BY <1>1, <1>2, <1>3

\* A sequence is its first n elements and the others.
LEMMA OccurrencesSplit ==
    ASSUME NEW S, NEW s \in Seq(S), NEW n \in 0 .. Len(s), NEW P
    PROVE  Occurrences(s, P) =
             Occurrences(SubSeq(s, 1, n), P) + Occurrences(SubSeq(s, n + 1, Len(s)), P)
<1> DEFINE a == SubSeq(s, 1, n)
           b == SubSeq(s, n + 1, Len(s))
<1>1. a \in Seq(S) /\ Len(a) = n /\ \A j \in 1 .. n : a[j] = s[j]
  BY TakeProperties
<1>2. /\ b \in Seq(S) /\ Len(b) = Len(s) - n
      /\ \A j \in 1 .. Len(s) - n : b[j] = s[n + j]
  BY DropProperties
<1> HIDE DEF a, b
<1>3. /\ a \o b \in Seq(S) /\ Len(a \o b) = Len(a) + Len(b)
      /\ \A j \in 1 .. Len(a) + Len(b) :
           (a \o b)[j] = IF j <= Len(a) THEN a[j] ELSE b[j - Len(a)]
  BY <1>1, <1>2, ConcatProperties
<1>4. Len(s) \in Nat
  BY LenProperties
<1>5. Len(a \o b) = Len(s)
  BY <1>1, <1>2, <1>3, <1>4
<1>6. ASSUME NEW j \in 1 .. Len(s) PROVE (a \o b)[j] = s[j]
  <2>1. j \in 1 .. Len(a) + Len(b)
    BY <1>1, <1>2, <1>4
  <2>2. CASE j <= n
    BY <1>1, <1>3, <1>4, <2>1, <2>2
  <2>3. CASE ~(j <= n)
    <3>1. (a \o b)[j] = b[j - n]
      BY <1>1, <1>3, <1>4, <2>1, <2>3
    <3>2. j - n \in 1 .. Len(s) - n /\ n + (j - n) = j
      BY <1>4, <2>3
    <3>3. QED  BY <1>2, <3>1, <3>2
  <2>4. QED  BY <2>2, <2>3
<1>7. DOMAIN (a \o b) = 1 .. Len(s) /\ DOMAIN s = 1 .. Len(s)
  BY <1>3, <1>5, LenProperties
<1>8. Occurrences(s, P) = Occurrences(a \o b, P)
  <2>1. \A i \in DOMAIN s : s[i] \in P <=> (a \o b)[i] \in P
    BY <1>6, <1>7
  <2>2. DOMAIN s = DOMAIN (a \o b)
    BY <1>7
  <2> DEFINE ab == a \o b
  <2> HIDE DEF ab
  <2>3. DOMAIN s = DOMAIN ab /\ \A i \in DOMAIN s : s[i] \in P <=> ab[i] \in P
    BY <2>1, <2>2 DEF ab
  <2>4. Occurrences(s, P) = Occurrences(ab, P)
    BY <2>3, OccurrencesSame
  <2>5. QED  BY <2>4 DEF ab
<1>9. QED  BY <1>1, <1>2, <1>8, OccurrencesConcat DEF a, b

LEMMA OccurrencesRemoveAt ==
    ASSUME NEW S, NEW s \in Seq(S), NEW i \in 1 .. Len(s), NEW P
    PROVE  Occurrences(s, P) =
             Occurrences(RemoveAt(s, i), P) + (IF s[i] \in P THEN 1 ELSE 0)
<1> DEFINE a == SubSeq(s, 1, i - 1)
           b == SubSeq(s, i, Len(s))
           c == SubSeq(b, 1, 1)
           d == SubSeq(b, 2, Len(b))
           e == SubSeq(s, i + 1, Len(s))
<1>1. Len(s) \in Nat /\ i - 1 \in 0 .. Len(s) /\ (i - 1) + 1 = i /\ i \in 0 .. Len(s)
  BY LenProperties
<1>2. a \in Seq(S)
  BY <1>1, TakeProperties
<1>3. /\ b \in Seq(S) /\ Len(b) = Len(s) - (i - 1)
      /\ \A j \in 1 .. Len(s) - (i - 1) : b[j] = s[(i - 1) + j]
  BY <1>1, DropProperties
<1>4. e \in Seq(S) /\ Len(e) = Len(s) - i /\ \A j \in 1 .. Len(s) - i : e[j] = s[i + j]
  BY <1>1, DropProperties
<1>5. Occurrences(s, P) = Occurrences(a, P) + Occurrences(b, P)
  BY <1>1, OccurrencesSplit
<1> HIDE DEF a, b, e
<1>6. 1 \in 0 .. Len(b) /\ Len(b) - 1 = Len(s) - i
  BY <1>1, <1>3
<1>7. c \in Seq(S) /\ Len(c) = 1 /\ c[1] = b[1]
  BY <1>3, <1>6, TakeProperties, 1 \in 1 .. 1
<1>8. d \in Seq(S) /\ Len(d) = Len(b) - 1 /\ \A j \in 1 .. Len(b) - 1 : d[j] = b[1 + j]
  BY <1>3, <1>6, DropProperties, 1 + 1 = 2
<1>9. Occurrences(b, P) = Occurrences(c, P) + Occurrences(d, P)
  BY <1>3, <1>6, OccurrencesSplit, 1 + 1 = 2
<1> HIDE DEF c, d
<1>10. Occurrences(c, P) = IF s[i] \in P THEN 1 ELSE 0
  <2>1. 1 \in 1 .. Len(s) - (i - 1) /\ (i - 1) + 1 = i
    BY <1>1
  <2>2. b[1] = s[i]
    BY <1>3, <2>1
  <2>3. DOMAIN c = 1 .. 1 /\ DOMAIN <<s[i]>> = 1 .. 1 /\ <<s[i]>>[1] = s[i]
    BY <1>7, LenProperties
  <2>4. Occurrences(c, P) = Occurrences(<<s[i]>>, P)
    BY <1>7, <2>2, <2>3, OccurrencesSame
  <2>5. QED  BY <2>4, OccurrencesOne
<1>11. Occurrences(d, P) = Occurrences(e, P)
  <2>1. DOMAIN d = 1 .. Len(s) - i /\ DOMAIN e = 1 .. Len(s) - i
    BY <1>4, <1>6, <1>8, LenProperties
  <2>2. ASSUME NEW j \in 1 .. Len(s) - i PROVE d[j] = e[j]
    <3>1. 1 + j \in 1 .. Len(s) - (i - 1) /\ (i - 1) + (1 + j) = i + j
      BY <1>1
    <3>2. QED  BY <1>3, <1>4, <1>6, <1>8, <3>1
  <2>3. QED  BY <2>1, <2>2, OccurrencesSame
<1>12. Occurrences(RemoveAt(s, i), P) = Occurrences(a, P) + Occurrences(e, P)
  BY <1>2, <1>4, OccurrencesConcat DEF RemoveAt, a, e
<1>13. /\ Occurrences(a, P) \in Nat /\ Occurrences(e, P) \in Nat
  BY <1>2, <1>4, OccurrencesType
<1>14. QED  BY <1>5, <1>9, <1>10, <1>11, <1>12, <1>13

LEMMA OccurrencesTail ==
    ASSUME NEW S, NEW s \in Seq(S), s # <<>>, NEW P
    PROVE  Occurrences(s, P) = Occurrences(Tail(s), P) + (IF Head(s) \in P THEN 1 ELSE 0)
<1>1. Len(s) \in Nat \ {0} /\ 1 \in 1 .. Len(s) /\ s[1] = Head(s)
  BY EmptySeq
<1>2. RemoveAt(s, 1) \in Seq(S) /\ Len(RemoveAt(s, 1)) = Len(s) - 1
      /\ \A j \in 1 .. Len(s) - 1 : RemoveAt(s, 1)[j] = s[j + 1]
  <2>1. \A j \in 1 .. Len(s) - 1 : ~(j < 1)
    BY <1>1
  <2>2. QED  BY <1>1, <2>1, RemoveAtProperties
<1>3. /\ Tail(s) \in Seq(S) /\ Len(Tail(s)) = Len(s) - 1
      /\ \A j \in 1 .. Len(s) - 1 : Tail(s)[j] = s[j + 1]
  BY HeadTailProperties
<1>4. DOMAIN RemoveAt(s, 1) = 1 .. Len(s) - 1 /\ DOMAIN Tail(s) = 1 .. Len(s) - 1
  BY <1>2, <1>3, LenProperties
<1>5. Occurrences(RemoveAt(s, 1), P) = Occurrences(Tail(s), P)
  <2> DEFINE a == RemoveAt(s, 1)
             b == Tail(s)
  <2>1. DOMAIN a = DOMAIN b
    BY <1>4
  <2>2. \A i \in DOMAIN a : a[i] \in P <=> b[i] \in P
    BY <1>2, <1>3, <1>4
  <2> HIDE DEF a, b
  <2>3. Occurrences(a, P) = Occurrences(b, P)
    BY <2>1, <2>2, OccurrencesSame
  <2>4. QED  BY <2>3 DEF a, b
<1>6. Occurrences(s, P) = Occurrences(RemoveAt(s, 1), P) + (IF s[1] \in P THEN 1 ELSE 0)
  BY <1>1, OccurrencesRemoveAt
<1>7. CASE Head(s) \in P
  BY <1>1, <1>5, <1>6, <1>7
<1>8. CASE Head(s) \notin P
  BY <1>1, <1>5, <1>6, <1>8
<1>9. QED  BY <1>7, <1>8
=============================================================================
