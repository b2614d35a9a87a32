------------------------- MODULE OutputFilesProofs -------------------------
(***************************************************************************)
(* The streams of the last pass, for buffers, tape blocks and records of     *)
(* any size, any directives and any length of the source.                    *)
(***************************************************************************)
EXTENDS OutputFiles, FiniteSetTheorems, WellFoundedInduction, TLAPS

-----------------------------------------------------------------------------
(* Bytes of a stream.                                                      *)

\* Emitted bytes and parities.
Byte == SUBSET Nat
Stream == Seq(Byte)

LEMMA SolidType ==
  ASSUME NEW b \in Stream
  PROVE  /\ Solid(b) \in SUBSET (1 .. Len(b)) /\ IsFiniteSet(Solid(b))
         /\ Cardinality(Solid(b)) \in Nat
         /\ \A k \in Solid(b) : Rank(Solid(b), k) \in 1 .. Cardinality(Solid(b))
<1> DEFINE S == Solid(b)
<1>1. S \in SUBSET (1 .. Len(b)) /\ Len(b) \in Nat
  BY DEF Solid, Stream
<1>2. IsFiniteSet(S)
  <2>1. IsFiniteSet(1 .. Len(b))
    BY <1>1, FS_Interval
  <2> HIDE DEF S
  <2> QED
    BY <1>1, <2>1, FS_Subset
<1>3. Cardinality(S) \in Nat
  BY <1>2, FS_CardinalityType
<1>4. ASSUME NEW k \in S PROVE Rank(S, k) \in 1 .. Cardinality(S)
  <2> DEFINE B == {j \in S : j <= k}
  <2>1. B \in SUBSET S /\ k \in B
    BY <1>1
  <2>2. IsFiniteSet(B) /\ Cardinality(B) <= Cardinality(S)
    BY <1>2, <2>1, FS_Subset
  <2>3. Cardinality(B) \in Nat /\ Cardinality(B) # 0
    BY <2>1, <2>2, FS_CardinalityType, FS_EmptySet
  <2> HIDE DEF B, S
  <2>4. Cardinality(B) \in 1 .. Cardinality(S)
    BY <1>3, <2>2, <2>3
  <2> QED
    BY <2>4 DEF Rank, B
<1> QED
  BY <1>1, <1>2, <1>3, <1>4

\* One byte more at the end of both.
LEMMA HoldsMore ==
  ASSUME NEW b \in Stream, NEW w \in Stream, NEW x \in Byte, x # {}, Holds(b, w)
  PROVE  Holds(Append(b, x), Append(w, x))
<1> DEFINE S == Solid(b)
           n == Len(b) + 1
           T == Solid(Append(b, x))
           c == Cardinality(S)
<1>1. Len(b) \in Nat /\ Len(w) \in Nat /\ Len(w) = c
  BY DEF Holds, Stream
<1>2. S \in SUBSET (1 .. Len(b)) /\ IsFiniteSet(S) /\ c \in Nat
      /\ \A k \in S : Rank(S, k) \in 1 .. c
  BY SolidType
<1>3. T = S \cup {n}
  BY <1>1 DEF Solid, Stream
<1>4. IsFiniteSet(T) /\ Cardinality(T) = c + 1
  <2>1. n \notin S
    BY <1>1, <1>2
  <2> QED
    BY <1>2, <1>3, <2>1, FS_AddElement
<1>5. Append(b, x)[n] = x /\ Append(w, x)[c + 1] = x /\ Len(Append(w, x)) = c + 1
  BY <1>1 DEF Stream
<1>6. ASSUME NEW k \in S PROVE Append(b, x)[k] = Append(w, x)[Rank(T, k)]
  <2>1. {j \in T : j <= k} = {j \in S : j <= k}
    BY <1>1, <1>2, <1>3
  <2>2. Rank(T, k) = Rank(S, k)
    BY <2>1 DEF Rank
  <2>3. Append(b, x)[k] = b[k]
    BY <1>2 DEF Stream
  <2>4. Append(w, x)[Rank(S, k)] = w[Rank(S, k)]
    BY <1>1, <1>2 DEF Stream
  <2>5. b[k] = w[Rank(S, k)]
    BY DEF Holds, Begins
  <2> QED
    BY <2>2, <2>3, <2>4, <2>5
<1>7. Rank(T, n) = c + 1
  <2>1. {j \in T : j <= n} = T
    BY <1>1, <1>2, <1>3
  <2> QED
    BY <2>1, <1>4 DEF Rank
<1>8. \A k \in T : Append(b, x)[k] = Append(w, x)[Rank(T, k)]
  BY <1>3, <1>5, <1>6, <1>7
<1> HIDE DEF S, T, n, c
<1>9. Cardinality(T) <= Len(Append(w, x)) /\ Cardinality(T) = Len(Append(w, x))
  BY <1>2, <1>4, <1>5
<1> QED
  BY <1>8, <1>9 DEF Holds, Begins, T

\* Zeros at the end.
LEMMA HoldsZeros ==
  ASSUME NEW b \in Stream, NEW w, NEW z \in Stream, \A k \in DOMAIN z : z[k] = {}, Holds(b, w)
  PROVE  Holds(b \o z, w)
<1>1. Len(b) \in Nat /\ Len(z) \in Nat /\ DOMAIN z = 1 .. Len(z) /\ DOMAIN b = 1 .. Len(b)
  BY DEF Stream
<1>2. \A k \in 1 .. Len(b) : (b \o z)[k] = b[k]
  BY DEF Stream
<1>3. \A k \in 1 .. Len(b) + Len(z) : k \notin 1 .. Len(b) => (b \o z)[k] = {}
  BY <1>1 DEF Stream
<1>4. DOMAIN (b \o z) = 1 .. Len(b) + Len(z)
  BY <1>1 DEF Stream
<1>5. Solid(b \o z) = Solid(b)
  BY <1>1, <1>2, <1>3, <1>4 DEF Solid
<1>6. \A k \in Solid(b) : (b \o z)[k] = b[k]
  BY <1>1, <1>2 DEF Solid
<1> QED
  BY <1>5, <1>6 DEF Holds, Begins

\* A part from the beginning.
LEMMA BeginsPart ==
  ASSUME NEW b \in Stream, NEW w \in Stream, NEW n \in 0 .. Len(b), Begins(b, w)
  PROVE  Begins(SubSeq(b, 1, n), w)
<1> DEFINE S == Solid(b)
           p == SubSeq(b, 1, n)
           T == Solid(p)
<1>1. Len(b) \in Nat /\ DOMAIN b = 1 .. Len(b)
  BY DEF Stream
<1>2. DOMAIN p = 1 .. n /\ \A k \in 1 .. n : p[k] = b[k]
  BY <1>1 DEF Stream
<1>3. T = {k \in S : k <= n}
  BY <1>1, <1>2 DEF Solid
<1>4. S \in SUBSET (1 .. Len(b)) /\ IsFiniteSet(S) /\ Cardinality(S) \in Nat
  BY SolidType
<1>5. IsFiniteSet(T) /\ Cardinality(T) <= Cardinality(S)
  <2>1. T \in SUBSET S
    BY <1>3
  <2> QED
    BY <1>4, <2>1, FS_Subset
<1>6. ASSUME NEW k \in T PROVE p[k] = w[Rank(T, k)]
  <2>1. k \in S /\ k <= n /\ k \in 1 .. n
    BY <1>3, <1>4
  <2>2. {j \in T : j <= k} = {j \in S : j <= k}
    BY <1>3, <1>4, <2>1
  <2>3. Rank(T, k) = Rank(S, k)
    BY <2>2 DEF Rank
  <2>4. b[k] = w[Rank(S, k)]
    BY <2>1 DEF Begins
  <2> QED
    BY <1>2, <2>1, <2>3, <2>4
<1>7. Cardinality(T) <= Len(w)
  <2>1. Cardinality(S) <= Len(w)
    BY DEF Begins
  <2>2. Len(w) \in Nat /\ Cardinality(T) \in Nat
    BY <1>5, FS_CardinalityType DEF Stream
  <2> QED
    BY <1>4, <1>5, <2>1, <2>2
<1> QED
  BY <1>6, <1>7 DEF Begins

-----------------------------------------------------------------------------
(* Exclusive or of the bytes.                                              *)

\* A number is in as many bytes of two streams as in both together.
LEMMA TimesBoth ==
  ASSUME NEW a \in Stream, NEW b \in Stream, NEW n
  PROVE  /\ Times(n, a) \in Nat /\ Times(n, b) \in Nat
         /\ Times(n, a \o b) = Times(n, a) + Times(n, b)
<1> DEFINE A == {k \in DOMAIN a : n \in a[k]}
           B == {k \in DOMAIN b : n \in b[k]}
           m == Len(a)
           C == {k \in (m + 1) .. (m + Len(b)) : n \in b[k - m]}
           f == [k \in B |-> k + m]
<1>1. m \in Nat /\ Len(b) \in Nat /\ DOMAIN a = 1 .. m /\ DOMAIN b = 1 .. Len(b)
  BY DEF Stream
<1>2. IsFiniteSet(A) /\ IsFiniteSet(B)
  <2>1. IsFiniteSet(1 .. m) /\ IsFiniteSet(1 .. Len(b))
    BY <1>1, FS_Interval
  <2>2. A \in SUBSET (1 .. m) /\ B \in SUBSET (1 .. Len(b))
    BY <1>1
  <2> HIDE DEF A, B
  <2> QED
    BY <2>1, <2>2, FS_Subset
<1>3. f \in Bijection(B, C)
  <2>1. \A k \in B : k + m \in C
    BY <1>1
  <2>2. \A c \in C : c - m \in B /\ (c - m) + m = c
    BY <1>1
  <2>3. \A k, l \in B : k + m = l + m => k = l
    BY <1>1
  <2> HIDE DEF B, C
  <2>4. f \in [B -> C]
    BY <2>1
  <2>5. f \in Injection(B, C)
    BY <2>3, <2>4 DEF Injection, IsInjective
  <2>6. f \in Surjection(B, C)
    BY <2>2, <2>4 DEF Surjection
  <2> QED
    BY <2>5, <2>6 DEF Bijection
<1>4. IsFiniteSet(C) /\ Cardinality(C) = Cardinality(B)
  <2>1. ExistsBijection(B, C)
    BY <1>3 DEF ExistsBijection
  <2> HIDE DEF B, C
  <2> QED
    BY <1>2, <2>1, FS_Bijection
<1>5. A \cap C = {}
  BY <1>1
<1>6. {k \in DOMAIN (a \o b) : n \in (a \o b)[k]} = A \cup C
  <2>1. DOMAIN (a \o b) = 1 .. m + Len(b)
    BY <1>1 DEF Stream
  <2>2. \A k \in 1 .. m : (a \o b)[k] = a[k]
    BY <1>1 DEF Stream
  <2>3. \A k \in (m + 1) .. (m + Len(b)) : (a \o b)[k] = b[k - m]
    BY <1>1 DEF Stream
  <2>4. 1 .. m + Len(b) = (1 .. m) \cup ((m + 1) .. (m + Len(b)))
    BY <1>1
  <2> QED
    BY <1>1, <2>1, <2>2, <2>3, <2>4
<1>7. Cardinality(A) \in Nat /\ Cardinality(B) \in Nat
  BY <1>2, FS_CardinalityType
<1> HIDE DEF A, B, C
<1>8. Cardinality(A \cup C) = Cardinality(A) + Cardinality(C)
  <2>1. Cardinality(A \cap C) = 0
    BY <1>5, FS_EmptySet
  <2>2. Cardinality(A \cup C) = Cardinality(A) + Cardinality(C) - Cardinality(A \cap C)
    BY <1>2, <1>4, FS_Union
  <2> QED
    BY <1>4, <1>7, <2>1, <2>2
<1> QED
  BY <1>4, <1>6, <1>7, <1>8 DEF Times, A, B

LEMMA OddSum ==
  ASSUME NEW i \in Nat, NEW j \in Nat
  PROVE  (i + j) % 2 = 1 <=> (i % 2 = 1 /\ j % 2 # 1) \/ (i % 2 # 1 /\ j % 2 = 1)
OBVIOUS

\* A number in no byte is there an even number of times.
LEMMA XorAllMember ==
  ASSUME NEW a \in Stream, NEW n
  PROVE  n \in XorAll(a) <=> Times(n, a) % 2 = 1
<1>1. Times(n, a) % 2 = 1 => n \in UNION {a[k] : k \in DOMAIN a}
  <2> SUFFICES ASSUME \A k \in DOMAIN a : n \notin a[k] PROVE Times(n, a) % 2 # 1
    OBVIOUS
  <2>1. {k \in DOMAIN a : n \in a[k]} = {}
    OBVIOUS
  <2>2. Times(n, a) = 0
    BY <2>1, FS_EmptySet DEF Times
  <2> QED
    BY <2>2
<1> QED
  BY <1>1 DEF XorAll

\* What is written to a block in two parts has the parity of both.
LEMMA XorAllBoth ==
  ASSUME NEW a \in Stream, NEW b \in Stream
  PROVE  XorAll(a \o b) = Xor(XorAll(a), XorAll(b))
<1>1. ASSUME NEW n PROVE n \in XorAll(a \o b) <=> n \in Xor(XorAll(a), XorAll(b))
  <2>1. Times(n, a \o b) % 2 = 1
          <=> (Times(n, a) % 2 = 1 /\ Times(n, b) % 2 # 1) \/ (Times(n, a) % 2 # 1 /\ Times(n, b) % 2 = 1)
    BY TimesBoth, OddSum
  <2>2. a \o b \in Stream
    BY DEF Stream
  <2>3. n \in XorAll(a \o b) <=> Times(n, a \o b) % 2 = 1
    BY <2>2, XorAllMember
  <2>4. (n \in XorAll(a) <=> Times(n, a) % 2 = 1) /\ (n \in XorAll(b) <=> Times(n, b) % 2 = 1)
    BY XorAllMember
  <2> QED
    BY <2>1, <2>3, <2>4 DEF Xor
<1> QED
  BY <1>1

LEMMA XorAllNone == XorAll(<<>>) = {}
BY DEF XorAll

LEMMA XorAllType ==
  ASSUME NEW a \in Stream
  PROVE  XorAll(a) \in Byte
BY DEF XorAll, Stream, Byte

LEMMA XorBoth ==
  ASSUME NEW a, NEW b, NEW c
  PROVE  Xor(Xor(a, b), c) = Xor(a, Xor(b, c))
BY DEF Xor

-----------------------------------------------------------------------------
(* Writing at a position.                                                  *)

LEMMA OverlayType ==
  ASSUME NEW c \in Stream, NEW p \in Nat, NEW a \in Stream
  PROVE  Overlay(c, p, a) \in Stream
<1> DEFINE n == IF p + Len(a) > Len(c) THEN p + Len(a) ELSE Len(c)
           v(k) == IF p < k /\ k <= p + Len(a) THEN a[k - p] ELSE IF k <= Len(c) THEN c[k] ELSE {}
<1>1. Len(c) \in Nat /\ Len(a) \in Nat
  BY DEF Stream
<1>2. n \in Nat
  BY <1>1
<1>3. ASSUME NEW k \in 1 .. n PROVE v(k) \in Byte
  <2>1. p < k /\ k <= p + Len(a) => k - p \in 1 .. Len(a)
    BY <1>1, <1>2
  <2>2. k <= Len(c) => k \in 1 .. Len(c)
    BY <1>1, <1>2
  <2>3. \A j \in 1 .. Len(a) : a[j] \in Byte
    BY DEF Stream
  <2>4. \A j \in 1 .. Len(c) : c[j] \in Byte
    BY DEF Stream
  <2>5. {} \in Byte
    BY DEF Byte
  <2> QED
    BY <2>1, <2>2, <2>3, <2>4, <2>5
<1> HIDE DEF n, v
<1>4. [k \in 1 .. n |-> v(k)] \in Stream
  BY <1>2, <1>3 DEF Stream
<1> QED
  BY <1>4 DEF Overlay, n, v

\* Two pieces, one behind the other, or both at once.
LEMMA OverlayBoth ==
  ASSUME NEW c \in Stream, NEW p \in Nat, NEW a \in Stream, NEW b \in Stream
  PROVE  Overlay(Overlay(c, p, a), p + Len(a), b) = Overlay(c, p, a \o b)
<1>1. Len(c) \in Nat /\ Len(a) \in Nat /\ Len(b) \in Nat
  BY DEF Stream
<1>2. CASE b = <<>>
  <2>1. a \o b = a
    BY <1>2 DEF Stream
  <2> QED
    BY <1>2, <2>1 DEF Overlay
<1>3. CASE a = <<>>
  <2>1. a \o b = b /\ Len(a) = 0 /\ p + Len(a) = p
    BY <1>3 DEF Stream
  <2>2. Overlay(c, p, a) = c
    BY <1>3 DEF Overlay
  <2> QED
    BY <2>1, <2>2
<1>4. CASE a # <<>> /\ b # <<>>
  <2> DEFINE m == Len(a)
             i == IF p + m > Len(c) THEN p + m ELSE Len(c)
             d == Overlay(c, p, a)
             q == p + m
             n == q + Len(b)
             j == IF n > i THEN n ELSE i
             l == IF n > Len(c) THEN n ELSE Len(c)
             ab == a \o b
  <2>1. d = [k \in 1 .. i |-> IF p < k /\ k <= q THEN a[k - p] ELSE IF k <= Len(c) THEN c[k] ELSE {}]
    BY <1>4 DEF Overlay
  <2>2. Len(d) = i
    BY <1>1, <2>1, OverlayType DEF Stream
  <2>3. Overlay(d, q, b)
          = [k \in 1 .. j |-> IF q < k /\ k <= n THEN b[k - q] ELSE IF k <= i THEN d[k] ELSE {}]
    <3> HIDE DEF d, i, q
    <3> QED
      BY <1>4, <2>2 DEF Overlay
  <2>4. Len(ab) = m + Len(b) /\ ab # <<>>
    BY <1>1, <1>4 DEF Stream
  <2>5. p + Len(ab) = n
    BY <1>1, <2>4
  <2>6. Overlay(c, p, ab)
          = [k \in 1 .. l |-> IF p < k /\ k <= n THEN ab[k - p] ELSE IF k <= Len(c) THEN c[k] ELSE {}]
    <3> HIDE DEF ab, n
    <3> QED
      BY <2>4, <2>5 DEF Overlay
  <2>7. j = l
    BY <1>1
  <2>8. ASSUME NEW k \in 1 .. l
        PROVE  (IF q < k /\ k <= n THEN b[k - q] ELSE IF k <= i THEN d[k] ELSE {})
                 = (IF p < k /\ k <= n THEN ab[k - p] ELSE IF k <= Len(c) THEN c[k] ELSE {})
    <3>1. ASSUME q < k, k <= n PROVE ab[k - p] = b[k - q] /\ p < k
      <4>1. k - p \in (m + 1) .. (m + Len(b)) /\ (k - p) - m = k - q /\ p < k
        BY <1>1, <3>1
      <4>2. \A x \in (m + 1) .. (m + Len(b)) : ab[x] = b[x - m]
        BY <1>1 DEF Stream
      <4> QED
        BY <4>1, <4>2
    <3>2. ASSUME p < k, k <= q PROVE ab[k - p] = a[k - p] /\ k <= i /\ k <= n /\ ~(q < k)
      <4>1. k - p \in 1 .. m /\ k <= i /\ k <= n /\ ~(q < k)
        BY <1>1, <3>2
      <4>2. \A x \in 1 .. m : ab[x] = a[x]
        BY <1>1 DEF Stream
      <4> QED
        BY <4>1, <4>2
    <3>3. k <= i => d[k] = IF p < k /\ k <= q THEN a[k - p] ELSE IF k <= Len(c) THEN c[k] ELSE {}
      <4>1. k <= i => k \in 1 .. i
        BY <1>1
      <4> HIDE DEF d, i, q
      <4> QED
        BY <2>1, <4>1
    <3>4. CASE q < k /\ k <= n
      <4> HIDE DEF d, ab, i
      <4> QED
        BY <3>1, <3>4
    <3>5. CASE p < k /\ k <= q
      <4> HIDE DEF d, ab, i, n
      <4> QED
        BY <3>2, <3>3, <3>5
    <3>6. CASE ~(p < k) \/ n < k
      <4>1. ~(q < k /\ k <= n) /\ ~(p < k /\ k <= q) /\ ~(p < k /\ k <= n) /\ (k <= Len(c) => k <= i)
        BY <1>1, <3>6
      <4> HIDE DEF d, ab, i, n, q
      <4> QED
        BY <3>3, <4>1
    <3> QED
      BY <1>1, <3>4, <3>5, <3>6
  <2> HIDE DEF d, ab, i, j, l, n, q
  <2>9. Overlay(d, q, b) = Overlay(c, p, ab)
    BY <2>3, <2>6, <2>7, <2>8
  <2> QED
    BY <2>9 DEF d, q, ab
<1> QED
  BY <1>2, <1>3, <1>4

\* A set of places has a last one.
LEMMA GreatestPlace ==
  ASSUME NEW n \in Nat, NEW S \in SUBSET (1 .. n), S # {}
  PROVE  \E k \in S : \A j \in S : j <= k
<1> DEFINE bound == {m \in Nat : \A j \in S : j <= m}
<1>1. n \in bound
  OBVIOUS
<1>2. PICK m \in bound : \A k \in bound : m <= k
  <2>1. bound \in SUBSET Nat /\ bound # {}
    BY <1>1
  <2> HIDE DEF bound
  <2>2. PICK m \in bound : \A k \in bound : ~(<<k, m>> \in OpToRel(<, Nat))
    BY <2>1, NatLessThanWellFounded, WFMin
  <2>3. \A k \in bound : ~(k < m)
    BY <2>1, <2>2 DEF OpToRel
  <2> QED
    BY <2>1, <2>3
<1>3. m \in S
  <2> SUFFICES ASSUME m \notin S PROVE FALSE
    OBVIOUS
  <2>1. \A j \in S : j <= m - 1
    BY <1>2
  <2>2. m - 1 \in Nat
    <3>1. PICK j \in S : TRUE
      OBVIOUS
    <3>2. j \in 1 .. n /\ j <= m - 1 /\ m \in Nat
      BY <1>2, <2>1
    <3> QED
      BY <3>2
  <2>3. m - 1 \in bound
    BY <2>1, <2>2
  <2> QED
    BY <1>2, <2>3
<1> QED
  BY <1>2, <1>3

LEMMA SubSeqBoth ==
  ASSUME NEW a \in Stream, NEW b \in Stream, NEW m \in 0 .. Len(b)
  PROVE  SubSeq(a \o b, 1, Len(a) + m) = a \o SubSeq(b, 1, m)
BY DEF Stream

LEMMA LenBoth ==
  ASSUME NEW a \in Stream, NEW b \in Stream
  PROVE  Len(a) \in Nat /\ Len(b) \in Nat /\ Len(a \o b) = Len(a) + Len(b)
BY DEF Stream

-----------------------------------------------------------------------------
(* Records of HEXOUT.                                                      *)

HexRecord == [address : Int, data : Stream]
Hex == [open : BOOLEAN, bytes : Stream, address : Int, records : Seq(HexRecord)]

\* A reader of the records has what was asked for.
HexHas(hex, wanted) == \A a \in DOMAIN wanted : wanted[a] = Loaded(Records(hex), a)

LEMMA RecordsType ==
  ASSUME NEW h \in Hex
  PROVE  /\ Records(h) \in Seq(HexRecord) /\ Len(Records(h)) = Len(h.records) + 1
         /\ Len(h.records) \in Nat /\ Len(h.bytes) \in Nat
         /\ Records(h)[Len(h.records) + 1] = [address |-> h.address, data |-> h.bytes]
         /\ \A k \in 1 .. Len(h.records) : Records(h)[k] = h.records[k]
<1>1. h.records \in Seq(HexRecord) /\ [address |-> h.address, data |-> h.bytes] \in HexRecord
  BY DEF Hex, HexRecord
<1>2. Len(h.records) \in Nat /\ Len(h.bytes) \in Nat
  BY DEF Hex, Stream
<1> QED
  BY <1>1, <1>2 DEF Records

\* The buffered record gets its place among the others.
LEMMA LoadedFlush ==
  ASSUME NEW h \in Hex, NEW g \in Hex, NEW a \in Int,
         g.bytes = <<>>, g.address = h.address,
         g.records = Append(h.records, [address |-> h.address, data |-> h.bytes])
  PROVE  Loaded(Records(g), a) = Loaded(Records(h), a)
<1> DEFINE n == Len(h.records) + 1
           R == Records(h)
           T == Records(g)
<1>1. R \in Seq(HexRecord) /\ Len(R) = n /\ n \in Nat
  BY RecordsType
<1>2. g.records = R
  BY DEF Records
<1>3. Len(T) = n + 1 /\ T[n + 1].data = <<>> /\ T[n + 1].address \in Int /\ \A k \in 1 .. n : T[k] = R[k]
  <2>1. Len(g.records) = n
    BY <1>1, <1>2
  <2>2. T[n + 1] = [address |-> g.address, data |-> g.bytes] /\ g.address \in Int
    BY <2>1, RecordsType DEF Hex
  <2> QED
    BY <1>2, <2>1, <2>2, RecordsType
<1>4. T \in Seq(HexRecord)
  BY RecordsType
<1>5. DOMAIN R = 1 .. n /\ DOMAIN T = 1 .. n + 1
  BY <1>1, <1>3, <1>4
<1>6. Covering(T, a) = Covering(R, a)
  <2>1. Len(T[n + 1].data) = 0
    BY <1>3
  <2>2. ~(T[n + 1].address <= a /\ a < T[n + 1].address + Len(T[n + 1].data))
    BY <1>3, <2>1
  <2> HIDE DEF R, T
  <2>3. \A k \in 1 .. n + 1 : k = n + 1 \/ k \in 1 .. n
    BY <1>1
  <2> QED
    BY <1>1, <1>3, <1>5, <2>2, <2>3 DEF Covering
<1>7. CASE Covering(R, a) = {}
  BY <1>6, <1>7 DEF Loaded
<1>8. CASE Covering(R, a) # {}
  <2>1. Latest(Covering(R, a)) \in 1 .. n
    <3>1. Covering(R, a) \in SUBSET (1 .. n)
      BY <1>5 DEF Covering
    <3>2. \E k \in Covering(R, a) : \A j \in Covering(R, a) : j <= k
      BY <1>1, <1>8, <3>1, GreatestPlace
    <3> QED
      BY <3>1, <3>2 DEF Latest
  <2>2. T[Latest(Covering(T, a))] = R[Latest(Covering(R, a))]
    BY <1>3, <1>6, <2>1
  <2> QED
    BY <1>6, <2>2 DEF Loaded
<1> QED
  BY <1>7, <1>8

\* A byte more in the buffered record.
LEMMA LoadedPut ==
  ASSUME NEW h \in Hex, NEW g \in Hex, NEW b \in Byte, NEW adr \in Int, NEW a \in Int,
         g.records = h.records, g.bytes = Append(h.bytes, b),
         g.address = (IF h.bytes = <<>> THEN adr ELSE h.address),
         h.bytes = <<>> \/ h.address + Len(h.bytes) = adr
  PROVE  Loaded(Records(g), a) = IF a = adr THEN b ELSE Loaded(Records(h), a)
<1> DEFINE n == Len(h.records) + 1
           R == Records(h)
           T == Records(g)
           m == Len(h.bytes)
<1>1. R \in Seq(HexRecord) /\ Len(R) = n /\ n \in Nat /\ m \in Nat /\ n >= 1
      /\ R[n] = [address |-> h.address, data |-> h.bytes] /\ h.address \in Int
  <2>1. h.address \in Int
    BY DEF Hex
  <2>2. R \in Seq(HexRecord) /\ Len(R) = n /\ m \in Nat /\ Len(h.records) \in Nat
        /\ R[n] = [address |-> h.address, data |-> h.bytes]
    BY RecordsType
  <2> HIDE DEF R, m
  <2> QED
    BY <2>1, <2>2
<1>2. T \in Seq(HexRecord) /\ Len(T) = n /\ T[n] = [address |-> g.address, data |-> g.bytes]
  BY RecordsType
<1>12. R[n].data = h.bytes /\ R[n].address = h.address /\ T[n].data = g.bytes /\ T[n].address = g.address
  BY <1>1, <1>2
<1>3. \A k \in 1 .. n : k # n => T[k] = R[k]
  <2>1. \A k \in 1 .. n : k # n => k \in 1 .. Len(h.records)
    BY <1>1
  <2>2. \A k \in 1 .. Len(h.records) : R[k] = h.records[k]
    BY RecordsType
  <2>3. \A k \in 1 .. Len(h.records) : T[k] = h.records[k]
    BY RecordsType
  <2> HIDE DEF R, T, n
  <2> QED
    BY <2>1, <2>2, <2>3
<1>4. DOMAIN R = 1 .. n /\ DOMAIN T = 1 .. n
  BY <1>1, <1>2
<1>5. Len(g.bytes) = m + 1 /\ g.bytes[m + 1] = b /\ (\A k \in 1 .. m : g.bytes[k] = h.bytes[k])
      /\ g.address + m = adr /\ g.address \in Int /\ (m > 0 => g.address = h.address)
  <2>1. h.bytes \in Stream /\ g.address \in Int
    BY DEF Hex
  <2>2. Len(g.bytes) = m + 1 /\ g.bytes[m + 1] = b /\ (\A k \in 1 .. m : g.bytes[k] = h.bytes[k])
    BY <2>1 DEF Stream
  <2>3. CASE h.bytes = <<>>
    <3>1. m = 0 /\ g.address = adr
      BY <2>3
    <3> QED
      BY <2>1, <2>2, <3>1
  <2>4. CASE h.bytes # <<>>
    BY <2>1, <2>2, <2>4
  <2> QED
    BY <2>3, <2>4
<1>6. n \in Covering(R, a) <=> h.address <= a /\ a < h.address + m
  BY <1>1, <1>4 DEF Covering
<1>7. n \in Covering(T, a) <=> g.address <= a /\ a < g.address + m + 1
  <2>1. T[n].address = g.address /\ Len(T[n].data) = m + 1 /\ n \in 1 .. n
    <3>1. T[n] = [address |-> g.address, data |-> g.bytes] /\ n \in Nat /\ n >= 1
      BY <1>1, <1>2
    <3>2. Len(g.bytes) = m + 1
      BY <1>5
    <3> HIDE DEF T, n, m
    <3>3. T[n].address = g.address /\ T[n].data = g.bytes
      BY <3>1
    <3>4. n \in 1 .. n
      BY <3>1
    <3>5. Len(T[n].data) = m + 1
      BY <3>2, <3>3, Zenon
    <3> QED
      BY <3>3, <3>4, <3>5
  <2>2. g.address + (m + 1) = g.address + m + 1
    <3>1. g.address \in Int /\ m \in Int
      BY <1>1, <1>5
    <3> HIDE DEF m
    <3> QED
      BY <3>1
  <2> HIDE DEF R, T, n, m
  <2> QED
    BY <1>4, <2>1, <2>2 DEF Covering
<1>8. \A k \in 1 .. n : k # n => (k \in Covering(T, a) <=> k \in Covering(R, a))
  BY <1>3, <1>4 DEF Covering
<1>9. Covering(R, a) \in SUBSET (1 .. n) /\ Covering(T, a) \in SUBSET (1 .. n)
  BY <1>4 DEF Covering
<1>10. CASE a = adr
  <2>1. n \in Covering(T, a)
    BY <1>1, <1>5, <1>7, <1>10
  <2>2. \A j \in Covering(T, a) : j <= n
    BY <1>1, <1>9
  <2>3. Latest(Covering(T, a)) = n
    <3>1. Latest(Covering(T, a)) \in Covering(T, a) /\ \A j \in Covering(T, a) : j <= Latest(Covering(T, a))
      BY <2>1, <2>2 DEF Latest
    <3>2. Latest(Covering(T, a)) \in Int /\ Latest(Covering(T, a)) <= n /\ n <= Latest(Covering(T, a))
      BY <1>9, <2>1, <2>2, <3>1
    <3> QED
      BY <1>1, <3>2
  <2>4. Loaded(T, a) = g.bytes[a - g.address + 1]
    <3> HIDE DEF T, R, n
    <3> QED
      BY <1>12, <2>1, <2>3 DEF Loaded
  <2>5. a - g.address + 1 = m + 1
    BY <1>1, <1>5, <1>10
  <2> QED
    BY <1>5, <1>10, <2>4, <2>5
<1>11. CASE a # adr
  <2>1. n \in Covering(T, a) <=> n \in Covering(R, a)
    BY <1>1, <1>5, <1>6, <1>7, <1>11
  <2>2. Covering(T, a) = Covering(R, a)
    <3>1. \A k \in 1 .. n : k \in Covering(T, a) <=> k \in Covering(R, a)
      BY <1>8, <2>1
    <3> HIDE DEF T, R, n
    <3> QED
      BY <1>9, <3>1
  <2>3. ASSUME Covering(R, a) # {} PROVE Loaded(T, a) = Loaded(R, a)
    <3> DEFINE l == Latest(Covering(R, a))
    <3>1. l \in Covering(R, a)
      <4>1. \E k \in Covering(R, a) : \A j \in Covering(R, a) : j <= k
        BY <1>1, <1>9, <2>3, GreatestPlace
      <4> QED
        BY <4>1 DEF Latest
    <3>2. CASE l # n
      <4>1. T[l] = R[l]
        BY <1>3, <1>9, <3>1, <3>2
      <4> QED
        BY <2>2, <4>1 DEF Loaded
    <3>3. CASE l = n
      <4>1. h.address <= a /\ a < h.address + m
        BY <1>6, <3>1, <3>3
      <4>2. m > 0 /\ a - h.address + 1 \in 1 .. m /\ g.address = h.address
        <5>1. \A x, y \in Int, z \in Nat : y <= x /\ x < y + z => z > 0 /\ x - y + 1 \in 1 .. z
          OBVIOUS
        <5>2. m > 0 /\ a - h.address + 1 \in 1 .. m
          BY <1>1, <4>1, <5>1
        <5> QED
          BY <1>5, <5>2
      <4>3. Loaded(R, a) = h.bytes[a - h.address + 1]
        <5> HIDE DEF T, R, n
        <5> QED
          BY <1>12, <2>3, <3>3 DEF Loaded
      <4>4. Loaded(T, a) = g.bytes[a - g.address + 1]
        <5> HIDE DEF T, R, n
        <5> QED
          BY <1>12, <2>2, <2>3, <3>3 DEF Loaded
      <4> QED
        BY <1>5, <4>2, <4>3, <4>4
    <3> QED
      BY <3>2, <3>3
  <2>4. Covering(R, a) = {} => Loaded(T, a) = Loaded(R, a)
    BY <2>2 DEF Loaded
  <2> QED
    BY <1>11, <2>3, <2>4
<1> QED
  BY <1>10, <1>11

-----------------------------------------------------------------------------
(* The variables of sjio.cpp and what they have to do with what is wanted.   *)

Files == Names \cup {Tape}
Block == [length : Int, flag : Byte, data : Stream, parity : Byte]
Contents == Stream \cup Seq(Block)
Position == {Closed} \cup [name : Names, pos : Nat]
TapeOut == [open : BOOLEAN, data : Stream, flag : Byte, parity : Byte, length : Int]

Io == [disk : [Files -> Contents], exists : SUBSET Files, wb : Stream, fp : Position,
       destlen : Int, size : Int, tap : TapeOut, raw : Stream, hex : Hex, errors : Nat,
       toDelete : SUBSET Files, fatal : BOOLEAN, depth : Nat]

\* The open block has its parity so far, and it is not too long.
TapeSoFar(tap) ==
  /\ tap.length = Len(tap.data) + 2 /\ tap.length <= TapeMax
  /\ tap.parity = Xor(tap.flag, XorAll(tap.data))

IoOK(s) ==
  /\ s \in Io
  /\ \A name \in Names : s.disk[name] \in Stream
  /\ s.disk[Tape] \in Seq(Block)
  /\ s.tap.open => TapeSoFar(s.tap)

\* The blocks of the tape, and the open one with the buffer, hold the bytes of taps.
TapeHas(s, taps) ==
  /\ Len(taps) = Len(s.disk[Tape]) + (IF s.tap.open THEN 1 ELSE 0)
  /\ \A k \in 1 .. Len(s.disk[Tape]) : Sound(s.disk[Tape][k], taps[k])
  /\ s.tap.open => Holds(s.tap.data \o s.wb, taps[Len(taps)])

\* The raw file with the buffer holds all n bytes.
Numbers(n) == [k \in 1 .. n |-> {k}]
RawHas(s, n) == Holds(s.raw \o s.wb, Numbers(n))

Good(s, taps, n) == IoOK(s) /\ TapeHas(s, taps) /\ RawHas(s, n)

\* The output file with the buffer is what is wanted.
FileHas(s, out) ==
  s.fp # Closed => /\ Overlay(s.disk[s.fp.name], s.fp.pos, s.wb) = out.data
                   /\ out.pos = s.fp.pos + Len(s.wb)

\* A flush fails, and so does any later one.
Doomed(s) == DiskFull /\ s.wb # <<>> /\ (s.fp # Closed \/ s.tap.open)

\* What the buffer has nothing to do with.
Aside(s, t) == t.hex = s.hex /\ t.toDelete = s.toDelete /\ t.exists = s.exists

LEMMA Constants ==
  /\ Tape \notin Names /\ "" \notin Names /\ Tape \in Files /\ Names \subseteq Files
  /\ TapeMax \in Nat /\ TapeMax > 2 /\ DESTBUFLEN \in Nat /\ DESTBUFLEN > 0
<1>1. Tape \notin Names /\ "" \notin Names
  BY OutputFilesAssumption, Zenon
<1>2. Tape \in Files /\ Names \subseteq Files
  BY DEF Files
<1>3. TapeMax \in Nat /\ TapeMax > 2 /\ DESTBUFLEN \in Nat \ {0}
  BY OutputFilesAssumption, Zenon
<1>4. DESTBUFLEN \in Nat /\ DESTBUFLEN > 0
  BY <1>3
<1> QED
  BY <1>1, <1>2, <1>3, <1>4, Zenon

LEMMA Bounds ==
  TapeMax \in Int /\ TapeMax > 2 /\ DESTBUFLEN \in Int /\ DESTBUFLEN > 0
<1>1. TapeMax \in Nat /\ TapeMax > 2 /\ DESTBUFLEN \in Nat /\ DESTBUFLEN > 0
  BY Constants, Zenon
<1> QED
  BY <1>1

LEMMA OpenPosition ==
  ASSUME NEW s, IoOK(s), s.fp # Closed
  PROVE  s.fp.name \in Names /\ s.fp.pos \in Nat /\ s.fp = [name |-> s.fp.name, pos |-> s.fp.pos]
BY DEF IoOK, Io, Position

LEMMA NamedIsOpen ==
  ASSUME NEW name \in Names, NEW pos
  PROVE  [name |-> name, pos |-> pos] # Closed
BY Constants DEF Closed

\* The buffer gets into the output file and into the raw file.
LEMMA FlushFields ==
  ASSUME NEW s, IoOK(s)
  PROVE  LET u == ToRaw(ToFile(s))
         IN  /\ u = [s EXCEPT !.disk = u.disk, !.fp = u.fp, !.raw = s.raw \o s.wb,
                              !.destlen = s.destlen + Len(s.wb), !.wb = <<>>]
             /\ s.fp = Closed => u.disk = s.disk /\ u.fp = Closed
             /\ s.fp # Closed =>
                  /\ u.disk = [s.disk EXCEPT ![s.fp.name] = Overlay(s.disk[s.fp.name], s.fp.pos, s.wb)]
                  /\ u.fp = [name |-> s.fp.name, pos |-> s.fp.pos + Len(s.wb)]
<1>1. s \in Io
  BY DEF IoOK
<1>2. CASE s.fp = Closed
  <2>1. ToFile(s) = s
    BY <1>2 DEF ToFile
  <2> QED
    BY <1>1, <1>2, <2>1 DEF ToRaw, Io
<1>3. CASE s.fp # Closed
  <2>1. s.fp = [name |-> s.fp.name, pos |-> s.fp.pos]
    BY <1>3, OpenPosition
  <2> QED
    BY <1>1, <1>3, <2>1 DEF ToFile, ToRaw, Io
<1> QED
  BY <1>2, <1>3

LEMMA FlushKeeps ==
  ASSUME NEW s, IoOK(s), NEW u, u = ToRaw(ToFile(s))
  PROVE  /\ IoOK(u) /\ Aside(s, u) /\ u.tap = s.tap /\ u.disk[Tape] = s.disk[Tape]
         /\ u.wb = <<>> /\ u.raw = s.raw \o s.wb /\ (u.fatal <=> s.fatal) /\ u.errors = s.errors
         /\ u.fp = Closed <=> s.fp = Closed
         /\ \A out : FileHas(s, out) => FileHas(u, out)
<1> DEFINE f == [s.disk EXCEPT ![s.fp.name] = Overlay(s.disk[s.fp.name], s.fp.pos, s.wb)]
<1>1. s \in Io /\ s.wb \in Stream /\ s.raw \in Stream /\ s.destlen \in Int /\ Len(s.wb) \in Nat
      /\ s.raw \o s.wb \in Stream /\ <<>> \in Stream
  BY DEF IoOK, Io, Stream
<1>2. u = [s EXCEPT !.disk = u.disk, !.fp = u.fp, !.raw = s.raw \o s.wb,
                    !.destlen = s.destlen + Len(s.wb), !.wb = <<>>]
      /\ (s.fp = Closed => u.disk = s.disk /\ u.fp = Closed)
      /\ (s.fp # Closed => u.disk = f /\ u.fp = [name |-> s.fp.name, pos |-> s.fp.pos + Len(s.wb)])
  BY FlushFields
<1>3. u.disk \in [Files -> Contents] /\ u.fp \in Position /\ u.disk[Tape] = s.disk[Tape]
      /\ (\A name \in Names : u.disk[name] \in Stream) /\ (u.fp = Closed <=> s.fp = Closed)
  <2>1. s.disk \in [Files -> Contents] /\ s.fp \in Position /\ \A name \in Names : s.disk[name] \in Stream
    BY DEF IoOK, Io
  <2>2. CASE s.fp = Closed
    BY <1>2, <2>1, <2>2
  <2>3. CASE s.fp # Closed
    <3>1. s.fp.name \in Names /\ s.fp.pos \in Nat
      BY <2>3, OpenPosition
    <3>2. Overlay(s.disk[s.fp.name], s.fp.pos, s.wb) \in Stream
      BY <1>1, <2>1, <3>1, OverlayType
    <3>3. s.fp.name \in Files /\ Tape # s.fp.name /\ Tape \in Files /\ Names \subseteq Files
      BY <3>1, Constants
    <3>4. s.fp.pos + Len(s.wb) \in Nat
      BY <1>1, <3>1
    <3>5. u.fp \in Position /\ u.fp # Closed
      BY <1>2, <2>3, <3>1, <3>4, NamedIsOpen DEF Position
    <3> HIDE DEF f
    <3>6. u.disk = f
      BY <1>2, <2>3
    <3>7. f \in [Files -> Contents]
      BY <2>1, <3>2, <3>3 DEF f, Contents
    <3>8. f[Tape] = s.disk[Tape] /\ \A name \in Names : f[name] \in Stream
      BY <2>1, <3>2, <3>3 DEF f
    <3> QED
      BY <2>3, <3>5, <3>6, <3>7, <3>8
  <2> QED
    BY <2>2, <2>3
<1>4. /\ u \in Io /\ u.hex = s.hex /\ u.toDelete = s.toDelete /\ u.exists = s.exists /\ u.tap = s.tap
      /\ u.wb = <<>> /\ u.raw = s.raw \o s.wb /\ (u.fatal <=> s.fatal) /\ u.errors = s.errors
  <2> DEFINE d == u.disk
             p == u.fp
             r == s.raw \o s.wb
             n == s.destlen + Len(s.wb)
  <2>1. d \in [Files -> Contents] /\ p \in Position /\ r \in Stream /\ n \in Int
    BY <1>1, <1>3
  <2>2. u = [s EXCEPT !.disk = d, !.fp = p, !.raw = r, !.destlen = n, !.wb = <<>>]
    BY <1>2
  <2> HIDE DEF d, p, r, n
  <2>3. u.raw = r
    BY <1>1, <2>2 DEF Io
  <2> QED
    BY <1>1, <2>1, <2>2, <2>3 DEF Io, r
<1>5. IoOK(u)
  BY <1>3, <1>4 DEF IoOK
<1>6. ASSUME NEW out, FileHas(s, out) PROVE FileHas(u, out)
  <2> SUFFICES ASSUME u.fp # Closed
               PROVE  Overlay(u.disk[u.fp.name], u.fp.pos, u.wb) = out.data /\ out.pos = u.fp.pos + Len(u.wb)
    BY DEF FileHas
  <2>1. s.fp # Closed
    BY <1>3
  <2>2. s.fp.name \in Names /\ s.fp.pos \in Nat /\ s.disk \in [Files -> Contents] /\ s.fp.name \in Files
    BY <2>1, OpenPosition, Constants DEF IoOK, Io
  <2>3. u.fp.name = s.fp.name /\ u.fp.pos = s.fp.pos + Len(s.wb)
    BY <1>2, <2>1
  <2>4. u.disk[u.fp.name] = Overlay(s.disk[s.fp.name], s.fp.pos, s.wb)
    BY <1>2, <2>1, <2>2, <2>3
  <2>5. Overlay(u.disk[u.fp.name], u.fp.pos, u.wb) = u.disk[u.fp.name]
    BY <1>4 DEF Overlay
  <2>6. Len(u.wb) = 0
    BY <1>4
  <2> QED
    BY <1>1, <1>6, <2>1, <2>2, <2>3, <2>4, <2>5, <2>6 DEF FileHas
<1> QED
  BY <1>3, <1>4, <1>5, <1>6 DEF Aside

Fits(s, bytes) == Len(bytes) <= Room(s)
Joined(a, b) == a \o b

\* Bytes that fit get into the open block.
LEMMA ToTapeKeeps ==
  ASSUME NEW s, IoOK(s), s.tap.open, NEW bytes \in Stream, Fits(s, bytes),
         NEW u, u = ToTape(s, bytes)
  PROVE  /\ IoOK(u) /\ Aside(s, u) /\ u.disk = s.disk /\ u.fp = s.fp /\ u.wb = s.wb /\ u.raw = s.raw
         /\ (u.fatal <=> s.fatal) /\ u.errors = s.errors
         /\ u.tap.open /\ u.tap.data = Joined(s.tap.data, bytes)
<1> DEFINE d == s.tap.data \o bytes
           l == s.tap.length + Len(bytes)
           p == Xor(s.tap.parity, XorAll(bytes))
           tap == [s.tap EXCEPT !.data = d, !.length = l, !.parity = p]
<1>1. s \in Io /\ s.tap \in TapeOut /\ s.tap.data \in Stream /\ s.tap.length \in Int /\ s.tap.parity \in Byte
      /\ TapeSoFar(s.tap)
  BY DEF IoOK, Io, TapeOut
<1>2. d \in Stream /\ l \in Int /\ p \in Byte /\ Len(d) = Len(s.tap.data) + Len(bytes)
      /\ Len(s.tap.data) \in Nat /\ Len(bytes) \in Nat
  <2>1. XorAll(bytes) \in Byte
    BY XorAllType
  <2>2. p \in Byte
    BY <1>1, <2>1 DEF Xor, Byte
  <2> QED
    BY <1>1, <2>2 DEF Stream
<1>3. u = [s EXCEPT !.tap = tap]
  <2> HIDE DEF d, l, p
  <2>1. u = [s EXCEPT !.tap.data = d, !.tap.length = l, !.tap.parity = p]
    BY DEF ToTape, d, l, p
  <2> QED
    BY <1>1, <2>1 DEF Io, TapeOut
<1> HIDE DEF d, l, p
<1>4. tap \in TapeOut /\ tap.data = d /\ tap.length = l /\ tap.parity = p /\ tap.open = s.tap.open
      /\ tap.flag = s.tap.flag
  BY <1>1, <1>2 DEF TapeOut
<1>5. TapeSoFar(tap)
  <2>1. l = Len(d) + 2
    BY <1>1, <1>2 DEF TapeSoFar, l
  <2>2. l <= TapeMax
    BY <1>1, <1>2, Bounds DEF l, Room, Fits
  <2>3. p = Xor(s.tap.flag, XorAll(d))
    <3>1. XorAll(d) = Xor(XorAll(s.tap.data), XorAll(bytes))
      BY <1>1, XorAllBoth DEF d
    <3>2. p = Xor(Xor(s.tap.flag, XorAll(s.tap.data)), XorAll(bytes))
      BY <1>1 DEF p, TapeSoFar
    <3> QED
      BY <3>1, <3>2, XorBoth
  <2> QED
    BY <1>4, <2>1, <2>2, <2>3 DEF TapeSoFar
<1> HIDE DEF tap
<1>6. u \in Io /\ u.disk = s.disk /\ u.fp = s.fp /\ u.wb = s.wb /\ u.raw = s.raw /\ u.tap = tap
      /\ (u.fatal <=> s.fatal) /\ u.errors = s.errors /\ Aside(s, u)
  BY <1>1, <1>3, <1>4 DEF Io, Aside
<1>7. IoOK(u)
  BY <1>5, <1>6 DEF IoOK
<1> QED
  BY <1>4, <1>6, <1>7 DEF d, Joined

LEMMA IoWithBlock ==
  ASSUME NEW s \in Io, NEW d \in [Files -> Contents], NEW t \in TapeOut, NEW n \in Int
  PROVE  [s EXCEPT !.disk = d, !.tap = t, !.destlen = n] \in Io
BY DEF Io

WithBlock(s) ==
  Append(s.disk[Tape], [length |-> s.tap.length, flag |-> s.tap.flag,
                        data |-> s.tap.data, parity |-> s.tap.parity])

\* The open block gets behind the others.
LEMMA FinishTapeKeeps ==
  ASSUME NEW s, IoOK(s), s.tap.open, NEW u, u = FinishTape(s)
  PROVE  /\ IoOK(u) /\ Aside(s, u) /\ u.fp = s.fp /\ u.wb = s.wb /\ u.raw = s.raw
         /\ (u.fatal <=> s.fatal) /\ u.errors = s.errors /\ ~u.tap.open
         /\ u.disk[Tape] = WithBlock(s)
         /\ \A name \in Names : u.disk[name] = s.disk[name]
<1> DEFINE b == [length |-> s.tap.length, flag |-> s.tap.flag, data |-> s.tap.data, parity |-> s.tap.parity]
           d == [s.disk EXCEPT ![Tape] = Append(s.disk[Tape], b)]
<1>1. s \in Io /\ s.tap \in TapeOut /\ s.disk \in [Files -> Contents] /\ s.disk[Tape] \in Seq(Block)
      /\ \A name \in Names : s.disk[name] \in Stream
  BY DEF IoOK, Io
<1>2. b \in Block
  BY <1>1 DEF Block, TapeOut
<1>3. NoTape \in TapeOut /\ ~NoTape.open
  BY DEF NoTape, TapeOut, Stream, Byte
<1>4. Append(s.disk[Tape], b) \in Seq(Block)
  BY <1>1, <1>2
<1>5. d \in [Files -> Contents] /\ d[Tape] = Append(s.disk[Tape], b)
      /\ \A name \in Names : d[name] = s.disk[name]
  BY <1>1, <1>4, Constants DEF Contents
<1>6. u = [s EXCEPT !.disk = d, !.tap = NoTape, !.destlen = 0]
  <2>1. u = [s EXCEPT !.disk[Tape] = Append(s.disk[Tape], b), !.tap = NoTape, !.destlen = 0]
    BY DEF FinishTape
  <2> QED
    BY <1>1, <2>1 DEF Io
<1> HIDE DEF d
<1>7. u \in Io /\ u.fp = s.fp /\ u.wb = s.wb /\ u.raw = s.raw /\ (u.fatal <=> s.fatal) /\ u.errors = s.errors
      /\ u.tap = NoTape /\ u.disk = d /\ Aside(s, u)
  <2>1. d \in [Files -> Contents]
    BY <1>5
  <2>2. NoTape \in TapeOut
    BY <1>3
  <2>3. s \in Io
    BY <1>1
  <2>4. u.fp = s.fp /\ u.wb = s.wb /\ u.raw = s.raw /\ (u.fatal <=> s.fatal) /\ u.errors = s.errors
        /\ u.tap = NoTape /\ u.disk = d /\ u.hex = s.hex /\ u.toDelete = s.toDelete /\ u.exists = s.exists
    BY <1>6, <2>3 DEF Io
  <2>5. u \in Io
    <3>1. 0 \in Int
      OBVIOUS
    <3>2. [s EXCEPT !.disk = d, !.tap = NoTape, !.destlen = 0] \in Io
      BY <2>1, <2>2, <2>3, <3>1, IoWithBlock, Zenon
    <3> QED
      BY <1>6, <3>2, Zenon
  <2> QED
    BY <2>4, <2>5 DEF Aside
<1>8. IoOK(u)
  BY <1>1, <1>3, <1>4, <1>5, <1>7 DEF IoOK
<1> QED
  BY <1>3, <1>5, <1>7, <1>8, Zenon DEF WithBlock

\* What the tape holds when its open block is finished: all of it, or as much as fits.
LEMMA FinishTapeHas ==
  ASSUME NEW s, IoOK(s), s.tap.open, NEW taps \in Seq(Stream),
         Len(taps) = Len(s.disk[Tape]) + 1,
         \A k \in 1 .. Len(s.disk[Tape]) : Sound(s.disk[Tape][k], taps[k]),
         Begins(s.tap.data, taps[Len(taps)]),
         Holds(s.tap.data, taps[Len(taps)]) \/ s.tap.length = TapeMax
  PROVE  TapeHas(FinishTape(s), taps)
<1> DEFINE b == [length |-> s.tap.length, flag |-> s.tap.flag, data |-> s.tap.data, parity |-> s.tap.parity]
           u == FinishTape(s)
           n == Len(s.disk[Tape])
<1>1. u.disk[Tape] = Append(s.disk[Tape], b) /\ ~u.tap.open
  BY FinishTapeKeeps DEF WithBlock
<1>2. s.disk[Tape] \in Seq(Block) /\ TapeSoFar(s.tap) /\ n \in Nat
  BY DEF IoOK
<1>3. b.length = s.tap.length /\ b.flag = s.tap.flag /\ b.data = s.tap.data /\ b.parity = s.tap.parity
  OBVIOUS
<1> HIDE DEF b, u
<1>4. Sound(b, taps[n + 1])
  BY <1>2, <1>3 DEF Sound, TapeSoFar
<1>5. Len(u.disk[Tape]) = n + 1 /\ u.disk[Tape][n + 1] = b
      /\ \A k \in 1 .. n : u.disk[Tape][k] = s.disk[Tape][k]
  BY <1>1, <1>2
<1>6. \A k \in 1 .. n + 1 : Sound(u.disk[Tape][k], taps[k])
  <2> TAKE k \in 1 .. n + 1
  <2>1. CASE k = n + 1
    BY <1>4, <1>5, <2>1
  <2>2. CASE k # n + 1
    <3>1. k \in 1 .. n
      BY <1>2, <2>2
    <3> QED
      BY <1>5, <3>1
  <2> QED
    BY <2>1, <2>2
<1>7. TapeHas(u, taps)
  <2>1. Len(taps) = Len(u.disk[Tape]) + (IF u.tap.open THEN 1 ELSE 0)
    BY <1>1, <1>2, <1>5
  <2> QED
    BY <1>1, <1>5, <1>6, <2>1 DEF TapeHas
<1> QED
  BY <1>7 DEF u

\* More than what is missing to the largest block gets in up to the limit.
LEMMA Flushable ==
  ASSUME NEW s, NEW taps \in Seq(Stream), IoOK(s), TapeHas(s, taps), s.tap.open
  PROVE  /\ Room(s) \in Nat /\ s.tap.data \in Stream /\ s.wb \in Stream /\ Len(s.wb) \in Nat
         /\ s.tap.length \in Int /\ taps[Len(taps)] \in Stream
         /\ Len(taps) = Len(s.disk[Tape]) + 1
         /\ Holds(s.tap.data \o s.wb, taps[Len(taps)])
<1>1. s.tap \in TapeOut /\ TapeSoFar(s.tap) /\ s.wb \in Stream /\ s.disk[Tape] \in Seq(Block)
  BY DEF IoOK, Io
<1>2. s.tap.data \in Stream /\ s.tap.length \in Int /\ Len(s.wb) \in Nat
  BY <1>1 DEF TapeOut, Stream
<1>3. Room(s) \in Nat
  BY <1>1, <1>2, Bounds DEF Room, TapeSoFar
<1>4. Len(taps) = Len(s.disk[Tape]) + 1 /\ Holds(s.tap.data \o s.wb, taps[Len(taps)])
  BY DEF TapeHas
<1>5. Len(taps) \in 1 .. Len(taps)
  BY <1>1, <1>4
<1> QED
  BY <1>1, <1>2, <1>3, <1>4, <1>5

LEMMA MoreErrors ==
  ASSUME NEW s, IoOK(s), NEW u, u = [s EXCEPT !.errors = @ + 1]
  PROVE  /\ IoOK(u) /\ Aside(s, u) /\ u.disk = s.disk /\ u.fp = s.fp /\ u.wb = s.wb /\ u.raw = s.raw
         /\ u.tap = s.tap /\ (u.fatal <=> s.fatal)
         /\ \A taps : TapeHas(s, taps) => TapeHas(u, taps)
         /\ \A n : RawHas(s, n) => RawHas(u, n)
         /\ \A out : FileHas(s, out) => FileHas(u, out)
<1>1. s \in Io
  BY DEF IoOK
<1>2. u \in Io /\ u.hex = s.hex /\ u.toDelete = s.toDelete /\ u.exists = s.exists
      /\ u.disk = s.disk /\ u.fp = s.fp /\ u.wb = s.wb /\ u.raw = s.raw /\ u.tap = s.tap /\ (u.fatal <=> s.fatal)
  BY <1>1 DEF Io
<1> QED
  BY <1>2 DEF IoOK, Aside, TapeHas, RawHas, FileHas

\* A fatal error leaves everything as it was.
LEMMA FailedKeeps ==
  ASSUME NEW s, IoOK(s), NEW u, u = Failed(s)
  PROVE  /\ IoOK(u) /\ Aside(s, u) /\ u.disk = s.disk /\ u.fp = s.fp /\ u.wb = s.wb /\ u.raw = s.raw
         /\ u.tap = s.tap /\ u.fatal
         /\ \A taps : TapeHas(s, taps) => TapeHas(u, taps)
         /\ \A n : RawHas(s, n) => RawHas(u, n)
         /\ \A out : FileHas(s, out) => FileHas(u, out)
<1>1. s \in Io
  BY DEF IoOK
<1>2. u \in Io /\ u.hex = s.hex /\ u.toDelete = s.toDelete /\ u.exists = s.exists
      /\ u.disk = s.disk /\ u.fp = s.fp /\ u.wb = s.wb /\ u.raw = s.raw /\ u.tap = s.tap /\ u.fatal
  <2>1. u = [s EXCEPT !.fatal = TRUE, !.errors = s.errors + 1]
    BY DEF Failed
  <2>2. \A b \in BOOLEAN, e \in Nat : [s EXCEPT !.fatal = b, !.errors = e] \in Io
    BY <1>1 DEF Io
  <2>3. s.errors + 1 \in Nat
    BY <1>1 DEF Io
  <2>4. u \in Io
    BY <2>1, <2>2, <2>3
  <2>5. u.fatal
    BY <1>1, <2>1 DEF Io
  <2> QED
    BY <1>1, <2>1, <2>4, <2>5 DEF Io
<1> QED
  BY <1>2 DEF IoOK, Aside, TapeHas, RawHas, FileHas

\* A flush changes nothing of what the streams hold together with the buffer; it leaves the
\* buffer empty, or fails and will fail again.
Flushed(s, t) ==
  /\ Aside(s, t)
  /\ t.fp = Closed <=> s.fp = Closed
  /\ t.fatal => Doomed(t)
  /\ ~t.fatal => t.wb = <<>>

LEMMA RawFlushed ==
  ASSUME NEW s, IoOK(s), NEW n, RawHas(s, n), NEW u, u.wb = <<>>, u.raw = s.raw \o s.wb
  PROVE  RawHas(u, n)
<1>1. s.raw \o s.wb \in Seq(Byte)
  BY DEF IoOK, Io, Stream
<1>2. u.raw \o u.wb = s.raw \o s.wb
  BY <1>1
<1> QED
  BY <1>2 DEF RawHas

LEMMA WriteDestKeeps ==
  ASSUME NEW s, NEW taps \in Seq(Stream), NEW n, Good(s, taps, n), ~s.fatal,
         NEW t, t = WriteDest(s)
  PROVE  /\ Good(t, taps, n) /\ Flushed(s, t)
         /\ \A out : FileHas(s, out) => FileHas(t, out)
<1> DEFINE u == ToRaw(ToFile(s))
<1>1. IoOK(s) /\ TapeHas(s, taps) /\ RawHas(s, n) /\ s \in Io /\ s.wb \in Stream
  BY DEF Good, IoOK, Io
<1>2. /\ IoOK(u) /\ Aside(s, u) /\ u.tap = s.tap /\ u.disk[Tape] = s.disk[Tape]
      /\ u.wb = <<>> /\ u.raw = s.raw \o s.wb /\ (u.fatal <=> s.fatal)
      /\ u.fp = Closed <=> s.fp = Closed
      /\ \A out : FileHas(s, out) => FileHas(u, out)
  BY <1>1, FlushKeeps
<1>3. RawHas(u, n)
  BY <1>1, <1>2, RawFlushed
<1>4. CASE s.wb = <<>>
  <2>1. t = s
    BY <1>4 DEF WriteDest
  <2> QED
    BY <1>4, <2>1 DEF Flushed, Aside
<1>5. CASE s.wb # <<>> /\ DiskFull /\ (s.fp # Closed \/ s.tap.open)
  <2>1. t = Failed(s)
    BY <1>5 DEF WriteDest
  <2>2. /\ IoOK(t) /\ Aside(s, t) /\ t.fp = s.fp /\ t.wb = s.wb /\ t.tap = s.tap /\ t.fatal
        /\ TapeHas(t, taps) /\ RawHas(t, n)
        /\ \A out : FileHas(s, out) => FileHas(t, out)
    BY <1>1, <2>1, FailedKeeps
  <2> QED
    BY <1>5, <2>2 DEF Flushed, Doomed, Good
<1> HIDE DEF u
<1>6. CASE s.wb # <<>> /\ ~(DiskFull /\ (s.fp # Closed \/ s.tap.open)) /\ ~s.tap.open
  <2>1. t = u
    BY <1>6 DEF WriteDest, u
  <2>2. TapeHas(t, taps)
    BY <1>1, <1>2, <1>6, <2>1 DEF TapeHas
  <2> QED
    BY <1>2, <1>3, <2>1, <2>2 DEF Flushed, Good
<1>7. CASE s.wb # <<>> /\ ~(DiskFull /\ (s.fp # Closed \/ s.tap.open)) /\ s.tap.open
  <2> DEFINE last == taps[Len(taps)]
             m == Room(s)
  <2>1. /\ m \in Nat /\ s.tap.data \in Stream /\ Len(s.wb) \in Nat /\ s.tap.length \in Int
        /\ last \in Stream /\ Len(taps) = Len(s.disk[Tape]) + 1
        /\ Holds(s.tap.data \o s.wb, last)
    BY <1>1, <1>7, Flushable
  <2>2. Room(u) = m
    BY <1>2 DEF Room
  <2>3. \A k \in 1 .. Len(s.disk[Tape]) : Sound(s.disk[Tape][k], taps[k])
    BY <1>1 DEF TapeHas
  <2>4. CASE Len(s.wb) <= m
    <3>1. t = ToTape(u, s.wb)
      BY <1>7, <2>4 DEF WriteDest, u
    <3>2. /\ IoOK(t) /\ Aside(u, t) /\ t.disk = u.disk /\ t.fp = u.fp /\ t.wb = u.wb /\ t.raw = u.raw
          /\ (t.fatal <=> u.fatal) /\ t.tap.open /\ t.tap.data = s.tap.data \o s.wb
      <4>1. IoOK(u) /\ u.tap.open /\ s.wb \in Stream /\ Fits(u, s.wb)
        BY <1>1, <1>2, <1>7, <2>2, <2>4 DEF Fits
      <4>2. u.tap.data = s.tap.data
        BY <1>2
      <4> HIDE DEF m, last
      <4>3. /\ IoOK(t) /\ Aside(u, t) /\ t.disk = u.disk /\ t.fp = u.fp /\ t.wb = u.wb /\ t.raw = u.raw
            /\ (t.fatal <=> u.fatal) /\ t.errors = u.errors
            /\ t.tap.open /\ t.tap.data = Joined(u.tap.data, s.wb)
        BY <3>1, <4>1, ToTapeKeeps
      <4> QED
        BY <4>2, <4>3 DEF Joined
    <3>3. t.tap.data \o t.wb = s.tap.data \o s.wb
      BY <1>1, <1>2, <2>1, <3>2 DEF Stream
    <3>4. TapeHas(t, taps)
      BY <1>2, <2>1, <2>3, <3>2, <3>3 DEF TapeHas
    <3>5. RawHas(t, n)
      BY <1>3, <3>2 DEF RawHas
    <3>6. \A out : FileHas(u, out) => FileHas(t, out)
      BY <3>2 DEF FileHas
    <3>7. Aside(s, t)
      BY <1>2, <3>2 DEF Aside
    <3> QED
      BY <1>2, <3>2, <3>4, <3>5, <3>6, <3>7 DEF Flushed, Good
  <2>5. CASE ~(Len(s.wb) <= m)
    <3> DEFINE part == SubSeq(s.wb, 1, m)
               v == ToTape(u, part)
               f == FinishTape(v)
    <3>1. t = [f EXCEPT !.errors = @ + 1]
      BY <1>7, <2>5 DEF WriteDest, u
    <3>2. part \in Stream /\ Len(part) = m
      <4>1. \A y \in Nat : ~(y <= m) => m \in 0 .. y
        BY <2>1
      <4>2. m \in 0 .. Len(s.wb) /\ s.wb \in Seq(Byte)
        BY <1>1, <2>1, <2>5, <4>1 DEF Stream
      <4> HIDE DEF m
      <4> QED
        BY <4>2 DEF Stream
    <3> HIDE DEF part
    <3>3. /\ IoOK(v) /\ Aside(u, v) /\ v.disk = u.disk /\ v.fp = u.fp /\ v.wb = u.wb /\ v.raw = u.raw
          /\ (v.fatal <=> u.fatal) /\ v.tap.open /\ v.tap.data = s.tap.data \o part
      <4>1. IoOK(u) /\ u.tap.open /\ part \in Stream /\ Fits(u, part)
        BY <1>2, <1>7, <2>1, <2>2, <3>2 DEF Fits
      <4>2. u.tap.data = s.tap.data
        BY <1>2
      <4> HIDE DEF m, last
      <4>3. /\ IoOK(v) /\ Aside(u, v) /\ v.disk = u.disk /\ v.fp = u.fp /\ v.wb = u.wb /\ v.raw = u.raw
            /\ (v.fatal <=> u.fatal) /\ v.tap.open /\ v.tap.data = Joined(u.tap.data, part)
        BY <4>1, ToTapeKeeps
      <4> QED
        BY <4>2, <4>3 DEF Joined
    <3>4. v.tap.length = TapeMax
      <4> DEFINE k == Len(s.tap.data)
      <4>1. m = TapeMax - s.tap.length
        BY DEF m, Room
      <4> HIDE DEF m
      <4>2. k \in Nat /\ Len(s.tap.data \o part) = k + m
        <5>1. s.tap.data \in Stream /\ part \in Stream /\ Len(part) = m
          BY <2>1, <3>2
        <5> QED
          BY <5>1, LenBoth
      <4>3. v.tap.length = Len(s.tap.data \o part) + 2
        BY <3>3 DEF IoOK, TapeSoFar
      <4>4. s.tap.length = k + 2
        BY <1>1, <1>7 DEF IoOK, TapeSoFar
      <4> HIDE DEF k
      <4>5. v.tap.length = k + m + 2 /\ m = TapeMax - (k + 2)
        BY <4>1, <4>2, <4>3, <4>4
      <4>6. k \in Int /\ m \in Int /\ TapeMax \in Int
        BY <2>1, <4>2, Bounds
      <4>7. \A x, y, z \in Int : y = z - (x + 2) => x + y + 2 = z
        OBVIOUS
      <4> QED
        BY <4>5, <4>6, <4>7
    <3>5. Begins(v.tap.data, last)
      <4> DEFINE whole == s.tap.data \o s.wb
                 l == Len(s.tap.data) + m
      <4>1. whole \in Stream /\ Len(whole) = Len(s.tap.data) + Len(s.wb) /\ Len(s.tap.data) \in Nat
        BY <1>1, <2>1 DEF Stream
      <4>2. l \in 0 .. Len(whole) /\ m \in 0 .. Len(s.wb)
        <5> HIDE DEF m, whole
        <5>1. \A x, y \in Nat : ~(y <= m) => x + m \in 0 .. (x + y) /\ m \in 0 .. y
          BY <2>1
        <5> QED
          BY <2>1, <2>5, <4>1, <5>1
      <4>3. SubSeq(whole, 1, l) = s.tap.data \o part
        <5> HIDE DEF m
        <5> QED
          BY <1>1, <2>1, <4>2, SubSeqBoth DEF part
      <4>4. Begins(whole, last)
        BY <2>1 DEF Holds
      <4> HIDE DEF whole, l
      <4>5. Begins(SubSeq(whole, 1, l), last)
        BY <2>1, <4>1, <4>2, <4>4, BeginsPart
      <4> QED
        BY <3>3, <4>3, <4>5
    <3> HIDE DEF v
    <3>6. TapeHas(f, taps)
      BY <1>2, <2>1, <2>3, <3>3, <3>4, <3>5, FinishTapeHas
    <3>7. /\ IoOK(f) /\ Aside(v, f) /\ f.fp = v.fp /\ f.wb = v.wb /\ f.raw = v.raw /\ (f.fatal <=> v.fatal)
          /\ \A name \in Names : f.disk[name] = v.disk[name]
      BY <3>3, FinishTapeKeeps
    <3> HIDE DEF f
    <3>8. /\ IoOK(t) /\ Aside(f, t) /\ t.disk = f.disk /\ t.fp = f.fp /\ t.wb = f.wb /\ t.raw = f.raw
          /\ (t.fatal <=> f.fatal) /\ TapeHas(t, taps)
      BY <3>1, <3>6, <3>7, MoreErrors
    <3>9. RawHas(t, n)
      BY <1>3, <3>3, <3>7, <3>8 DEF RawHas
    <3>10. ASSUME NEW out, FileHas(u, out) PROVE FileHas(t, out)
      <4>1. t.fp = u.fp /\ t.wb = u.wb
        BY <3>3, <3>7, <3>8
      <4>2. u.fp # Closed => t.disk[t.fp.name] = u.disk[u.fp.name]
        BY <1>2, <3>3, <3>7, <3>8, <4>1, OpenPosition
      <4> QED
        BY <3>10, <4>1, <4>2 DEF FileHas
    <3>11. Aside(s, t) /\ t.fp = u.fp /\ t.wb = u.wb /\ (t.fatal <=> u.fatal)
      BY <1>2, <3>3, <3>7, <3>8 DEF Aside
    <3> QED
      BY <1>2, <3>8, <3>9, <3>10, <3>11 DEF Flushed, Good
  <2> QED
    BY <2>4, <2>5
<1> QED
  BY <1>4, <1>5, <1>6, <1>7

-----------------------------------------------------------------------------
(* Closing.                                                                *)

\* Nothing is left in the buffer, unless a write failed.
Ready(s) == (s.fatal => Doomed(s)) /\ (~s.fatal => s.wb = <<>>)

LEMMA CloseTapFileKeeps ==
  ASSUME NEW s, NEW taps \in Seq(Stream), NEW n, Good(s, taps, n), ~s.fatal,
         NEW t, t = CloseTapFile(s)
  PROVE  /\ Good(t, taps, n) /\ Flushed(s, t) /\ (~t.fatal => ~t.tap.open)
         /\ \A out : FileHas(s, out) => FileHas(t, out)
<1> DEFINE w == WriteDest(s)
<1>1. Good(w, taps, n) /\ Flushed(s, w) /\ \A out : FileHas(s, out) => FileHas(w, out)
  BY WriteDestKeeps
<1>2. IoOK(w) /\ TapeHas(w, taps) /\ RawHas(w, n)
  BY <1>1 DEF Good
<1>3. t = EndBlock(w)
  BY DEF CloseTapFile
<1> HIDE DEF w
<1>4. CASE w.fatal
  <2>1. t = w
    BY <1>3, <1>4 DEF EndBlock
  <2> QED
    BY <1>1, <1>4, <2>1
<1>5. CASE ~w.fatal /\ ~w.tap.open
  <2>1. t = w
    BY <1>3, <1>5 DEF EndBlock, FinishTape
  <2> QED
    BY <1>1, <1>5, <2>1
<1>6. CASE ~w.fatal /\ w.tap.open
  <2>1. t = FinishTape(w)
    BY <1>3, <1>6 DEF EndBlock
  <2>2. /\ IoOK(t) /\ Aside(w, t) /\ t.fp = w.fp /\ t.wb = w.wb /\ t.raw = w.raw
        /\ (t.fatal <=> w.fatal) /\ ~t.tap.open
        /\ \A name \in Names : t.disk[name] = w.disk[name]
    BY <1>2, <1>6, <2>1, FinishTapeKeeps
  <2>3. TapeHas(t, taps)
    <3>1. /\ Len(taps) = Len(w.disk[Tape]) + 1 /\ w.tap.data \in Stream
          /\ Holds(w.tap.data \o w.wb, taps[Len(taps)])
      BY <1>2, <1>6, Flushable
    <3>2. w.wb = <<>>
      BY <1>1, <1>6 DEF Flushed
    <3>3. w.tap.data \o w.wb = w.tap.data
      BY <3>1, <3>2 DEF Stream
    <3>4. Holds(w.tap.data, taps[Len(taps)])
      BY <3>1, <3>3
    <3>5. Begins(w.tap.data, taps[Len(taps)])
      BY <3>4 DEF Holds
    <3>6. \A k \in 1 .. Len(w.disk[Tape]) : Sound(w.disk[Tape][k], taps[k])
      BY <1>2 DEF TapeHas
    <3> QED
      BY <1>2, <1>6, <2>1, <3>1, <3>4, <3>5, <3>6, FinishTapeHas
  <2>4. RawHas(t, n)
    BY <1>2, <2>2 DEF RawHas
  <2>5. ASSUME NEW out, FileHas(s, out) PROVE FileHas(t, out)
    <3>1. FileHas(w, out)
      BY <1>1, <2>5
    <3>2. w.fp # Closed => t.disk[t.fp.name] = w.disk[w.fp.name]
      BY <1>2, <2>2, OpenPosition
    <3> QED
      BY <2>2, <3>1, <3>2 DEF FileHas
  <2>6. Flushed(s, t)
    <3>1. Aside(s, t)
      BY <1>1, <2>2 DEF Flushed, Aside
    <3> QED
      BY <1>1, <1>6, <2>2, <3>1 DEF Flushed
  <2> QED
    BY <2>2, <2>3, <2>4, <2>5, <2>6 DEF Good
<1> QED
  BY <1>4, <1>5, <1>6

LEMMA ZerosType ==
  ASSUME NEW s, IoOK(s)
  PROVE  Zeros(s) \in Stream /\ \A k \in DOMAIN Zeros(s) : Zeros(s)[k] = {}
<1> DEFINE m == IF s.tap.open /\ UntilOverflow(s) < Missing(s) THEN UntilOverflow(s) ELSE Missing(s)
           l == IF m < 0 THEN 0 ELSE m
<1>1. s.destlen \in Int /\ s.size \in Int /\ s.tap \in TapeOut
  BY DEF IoOK, Io
<1>2. Missing(s) \in Int
  BY <1>1 DEF Missing
<1>3. UntilOverflow(s) \in Int
  <2>1. Room(s) \in Int
    BY <1>1, Bounds DEF Room, TapeOut
  <2>2. Room(s) \div DESTBUFLEN + 1 \in Int
    BY <2>1, Bounds
  <2>3. \A a, b \in Int : a * b \in Int
    OBVIOUS
  <2> QED
    BY <2>2, <2>3, Bounds DEF UntilOverflow
<1>4. m \in Int
  BY <1>2, <1>3
<1> HIDE DEF m
<1>5. l \in Nat /\ 1 .. m = 1 .. l
  BY <1>4
<1>6. Zeros(s) = [k \in 1 .. m |-> {}]
  BY DEF Zeros, m
<1> HIDE DEF l
<1>7. Zeros(s) = [k \in 1 .. l |-> {}]
  BY <1>5, <1>6
<1>8. {} \in Byte
  BY DEF Byte
<1> QED
  BY <1>5, <1>7, <1>8 DEF Stream

\* Zeros are no bytes of anyone: they may get into any stream.
LEMMA PadKeeps ==
  ASSUME NEW s, NEW taps \in Seq(Stream), NEW n, Good(s, taps, n), Ready(s),
         NEW t, t = Pad(s)
  PROVE  /\ Good(t, taps, n) /\ Ready(t) /\ Aside(s, t)
<1> DEFINE z == Zeros(s)
           u == [s EXCEPT !.wb = z]
<1>1. IoOK(s) /\ TapeHas(s, taps) /\ RawHas(s, n) /\ s \in Io
  BY DEF Good, IoOK
<1>2. CASE s.fatal
  <2>1. t = s
    BY <1>2 DEF Pad
  <2> QED
    BY <2>1 DEF Aside
<1>3. CASE ~s.fatal
  <2>1. t = WriteDest(u)
    BY <1>3 DEF Pad
  <2>2. z \in Stream /\ \A k \in DOMAIN z : z[k] = {}
    BY <1>1, ZerosType
  <2>3. s.wb = <<>>
    BY <1>3 DEF Ready
  <2> HIDE DEF z
  <2>4. u \in Io /\ Aside(s, u) /\ u.wb = z /\ u.disk = s.disk /\ u.fp = s.fp /\ u.tap = s.tap
        /\ u.raw = s.raw /\ (u.fatal <=> s.fatal)
    BY <1>1, <2>2 DEF Io, Aside
  <2> HIDE DEF u
  <2>5. IoOK(u)
    BY <1>1, <2>4 DEF IoOK
  <2>6. RawHas(u, n)
    <3>1. s.raw \in Stream /\ Holds(s.raw \o s.wb, Numbers(n))
      BY <1>1 DEF Io, RawHas
    <3>2. s.raw \o s.wb = s.raw
      BY <2>3, <3>1 DEF Stream
    <3>3. Holds(s.raw \o z, Numbers(n))
      BY <2>2, <3>1, <3>2, HoldsZeros
    <3> QED
      BY <2>4, <3>3 DEF RawHas
  <2>7. TapeHas(u, taps)
    <3>1. ASSUME s.tap.open PROVE Holds(u.tap.data \o u.wb, taps[Len(taps)])
      <4>1. s.tap.data \in Stream /\ Holds(s.tap.data \o s.wb, taps[Len(taps)])
        BY <1>1, <3>1, Flushable
      <4>2. s.tap.data \o s.wb = s.tap.data
        BY <2>3, <4>1 DEF Stream
      <4>3. Holds(s.tap.data \o z, taps[Len(taps)])
        BY <2>2, <4>1, <4>2, HoldsZeros
      <4> QED
        BY <2>4, <4>3
    <3> QED
      BY <1>1, <2>4, <3>1 DEF TapeHas
  <2>8. Good(t, taps, n) /\ Flushed(u, t)
    BY <1>3, <2>1, <2>4, <2>5, <2>6, <2>7, WriteDestKeeps DEF Good
  <2> QED
    BY <2>4, <2>8 DEF Flushed, Aside, Ready
<1> QED
  BY <1>2, <1>3

\* The stream is closed, unless a write failed.
LEMMA CloseDestKeeps ==
  ASSUME NEW s, NEW taps \in Seq(Stream), NEW n, Good(s, taps, n), ~s.fatal,
         NEW t, t = CloseDest(s)
  PROVE  /\ Good(t, taps, n) /\ Ready(t) /\ Aside(s, t) /\ (~t.fatal => t.fp = Closed)
<1> DEFINE w == WriteDest(s)
           e == TooLong(w)
           p == Pad(e)
           q == Pad(p)
<1>1. Good(w, taps, n) /\ Flushed(s, w)
  BY WriteDestKeeps
<1>2. t = EndDest(w)
  BY DEF CloseDest
<1> HIDE DEF w
<1>3. CASE w.fatal \/ w.fp = Closed
  <2>1. t = w
    BY <1>2, <1>3 DEF EndDest
  <2> QED
    BY <1>1, <1>3, <2>1 DEF Flushed, Ready
<1>4. CASE ~(w.fatal \/ w.fp = Closed)
  <2>1. t = Released(q)
    BY <1>2, <1>4 DEF EndDest
  <2>2. IoOK(w) /\ TapeHas(w, taps) /\ RawHas(w, n) /\ w.wb = <<>>
    BY <1>1, <1>4 DEF Good, Flushed
  <2>3. Good(e, taps, n) /\ Aside(w, e) /\ e.wb = <<>> /\ ~e.fatal
    <3>1. CASE e = w
      BY <1>1, <1>4, <2>2, <3>1 DEF Aside
    <3>2. CASE e = [w EXCEPT !.errors = @ + 1]
      BY <1>4, <2>2, <3>2, MoreErrors DEF Good
    <3> QED
      BY <3>1, <3>2 DEF TooLong
  <2>4. Ready(e)
    BY <2>3 DEF Ready
  <2> HIDE DEF e
  <2>5. Good(p, taps, n) /\ Ready(p) /\ Aside(e, p)
    BY <2>3, <2>4, PadKeeps
  <2> HIDE DEF p
  <2>6. Good(q, taps, n) /\ Ready(q) /\ Aside(p, q)
    BY <2>5, PadKeeps
  <2> HIDE DEF q
  <2>7. Aside(s, q)
    BY <1>1, <2>3, <2>5, <2>6 DEF Flushed, Aside
  <2>8. CASE q.fatal
    <3>1. t = q
      BY <2>1, <2>8 DEF Released
    <3> QED
      BY <2>6, <2>7, <2>8, <3>1
  <2>9. CASE ~q.fatal
    <3>1. t = [q EXCEPT !.size = -1, !.fp = Closed, !.destlen = 0]
      BY <2>1, <2>9 DEF Released
    <3>2. IoOK(q) /\ TapeHas(q, taps) /\ RawHas(q, n) /\ q \in Io
      BY <2>6 DEF Good, IoOK
    <3>4. t \in Io
      <4> DEFINE none == -1
                 zero == 0
      <4>1. none \in Int /\ zero \in Int /\ Closed \in Position
        BY DEF Position
      <4>2. t = [q EXCEPT !.size = none, !.fp = Closed, !.destlen = zero]
        BY <3>1
      <4> HIDE DEF none, zero
      <4> QED
        BY <3>2, <4>1, <4>2 DEF Io
    <3>5. t.disk = q.disk /\ t.wb = q.wb /\ t.raw = q.raw /\ t.tap = q.tap /\ (t.fatal <=> q.fatal)
          /\ t.hex = q.hex /\ t.toDelete = q.toDelete /\ t.exists = q.exists /\ t.fp = Closed
      BY <3>1, <3>2 DEF Io
    <3>6. Good(t, taps, n)
      BY <3>2, <3>4, <3>5 DEF Good, IoOK, TapeHas, RawHas
    <3> QED
      BY <2>6, <2>7, <2>9, <3>5, <3>6 DEF Ready, Aside
  <2> QED
    BY <2>8, <2>9
<1> QED
  BY <1>3, <1>4

-----------------------------------------------------------------------------
(* HEXOUT follows the bytes without the buffer of the other streams.         *)

OnlyHex(s, t) ==
  /\ t.disk = s.disk /\ t.fp = s.fp /\ t.wb = s.wb /\ t.raw = s.raw /\ t.tap = s.tap
  /\ (t.fatal <=> s.fatal) /\ t.toDelete = s.toDelete /\ t.exists = s.exists

LEMMA OtherHex ==
  ASSUME NEW s, IoOK(s), NEW h \in Hex, NEW t, t = [s EXCEPT !.hex = h]
  PROVE  IoOK(t) /\ OnlyHex(s, t) /\ t.hex = h
<1>1. s \in Io
  BY DEF IoOK
<1>2. t \in Io /\ OnlyHex(s, t) /\ t.hex = h
  BY <1>1 DEF Io, OnlyHex
<1> QED
  BY <1>2 DEF IoOK, OnlyHex

LEMMA OnlyHexKeeps ==
  ASSUME NEW s, NEW t, OnlyHex(s, t), IoOK(t)
  PROVE  /\ \A taps, n : Good(s, taps, n) => Good(t, taps, n)
         /\ \A out : FileHas(s, out) => FileHas(t, out)
         /\ Doomed(s) <=> Doomed(t)
BY DEF OnlyHex, Good, TapeHas, RawHas, FileHas, Doomed

\* A reader gets the same from both.
Alike(s, t) == \A a \in Int : Loaded(Records(t.hex), a) = Loaded(Records(s.hex), a)

LEMMA FlushHexBufferKeeps ==
  ASSUME NEW s, IoOK(s), NEW t, t = FlushHexBuffer(s)
  PROVE  IoOK(t) /\ OnlyHex(s, t) /\ t.hex.bytes = <<>> /\ Alike(s, t)
<1>1. s \in Io /\ s.hex \in Hex
  BY DEF IoOK, Io
<1>2. CASE s.hex.bytes = <<>>
  <2>1. t = s
    BY <1>2 DEF FlushHexBuffer
  <2> QED
    BY <1>2, <2>1 DEF OnlyHex, Alike
<1>3. CASE s.hex.bytes # <<>>
  <2> DEFINE r == [address |-> s.hex.address, data |-> s.hex.bytes]
             rs == Append(s.hex.records, r)
             h == [s.hex EXCEPT !.records = rs, !.bytes = <<>>]
  <2>1. t = [s EXCEPT !.hex = h]
    <3> HIDE DEF r
    <3>1. t = [s EXCEPT !.hex.records = rs, !.hex.bytes = <<>>]
      BY <1>3 DEF FlushHexBuffer, r
    <3> HIDE DEF rs
    <3> QED
      BY <1>1, <3>1 DEF Io, Hex
  <2>2. rs \in Seq(HexRecord)
    <3>1. r \in HexRecord /\ s.hex.records \in Seq(HexRecord)
      BY <1>1 DEF Hex, HexRecord
    <3> HIDE DEF r
    <3> QED
      BY <3>1
  <2>3. h \in Hex /\ h.bytes = <<>> /\ h.address = s.hex.address /\ h.records = rs
    <3>1. <<>> \in Stream
      BY DEF Stream
    <3> HIDE DEF rs
    <3> QED
      BY <1>1, <2>2, <3>1 DEF Hex
  <2> HIDE DEF h
  <2>4. IoOK(t) /\ OnlyHex(s, t) /\ t.hex = h
    BY <2>1, <2>3, OtherHex
  <2>5. ASSUME NEW a \in Int PROVE Loaded(Records(h), a) = Loaded(Records(s.hex), a)
    BY <1>1, <2>3, LoadedFlush
  <2> QED
    BY <2>3, <2>4, <2>5 DEF Alike
<1> QED
  BY <1>2, <1>3

\* The reader has byte b at adr, and the same elsewhere.
WithByte(s, t, b, adr) ==
  \A a \in Int : Loaded(Records(t.hex), a) = IF a = adr THEN b ELSE Loaded(Records(s.hex), a)

LEMMA PutKeeps ==
  ASSUME NEW s, IoOK(s), NEW b \in Byte, NEW adr \in Int, NEW t, t = Put(s, b, adr),
         s.hex.bytes = <<>> \/ s.hex.address + Len(s.hex.bytes) = adr
  PROVE  IoOK(t) /\ OnlyHex(s, t) /\ WithByte(s, t, b, adr)
<1> DEFINE first == IF s.hex.bytes = <<>> THEN adr ELSE s.hex.address
           bytes == Append(s.hex.bytes, b)
           h == [s.hex EXCEPT !.address = first, !.bytes = bytes]
<1>1. s \in Io /\ s.hex \in Hex
  BY DEF IoOK, Io
<1>2. bytes \in Stream /\ first \in Int
  BY <1>1 DEF Hex, Stream
<1>3. t = [s EXCEPT !.hex = h]
  <2>1. t = [s EXCEPT !.hex.address = first, !.hex.bytes = bytes]
    <3> HIDE DEF bytes
    <3> QED
      BY <1>1 DEF Put, bytes, Io, Hex
  <2> HIDE DEF first, bytes
  <2> QED
    BY <1>1, <2>1 DEF Io, Hex
<1>4. h \in Hex /\ h.address = first /\ h.bytes = bytes /\ h.records = s.hex.records
  <2> HIDE DEF first, bytes
  <2> QED
    BY <1>1, <1>2 DEF Hex
<1> HIDE DEF h
<1>5. IoOK(t) /\ OnlyHex(s, t) /\ t.hex = h
  BY <1>3, <1>4, OtherHex
<1>6. ASSUME NEW a \in Int
      PROVE  Loaded(Records(h), a) = IF a = adr THEN b ELSE Loaded(Records(s.hex), a)
  BY <1>1, <1>4, LoadedPut
<1> QED
  BY <1>5, <1>6 DEF WithByte

LEMMA EmitToHexKeeps ==
  ASSUME NEW s, IoOK(s), NEW b \in Byte, NEW adr \in Int, NEW t, t = EmitToHex(s, b, adr)
  PROVE  /\ IoOK(t) /\ OnlyHex(s, t)
         /\ s.hex.open => WithByte(s, t, b, adr)
         /\ ~s.hex.open => t = s
<1>1. CASE ~s.hex.open
  BY <1>1 DEF EmitToHex, OnlyHex
<1>2. CASE s.hex.open
  <2> DEFINE u == IF s.hex.address + Len(s.hex.bytes) # adr THEN FlushHexBuffer(s) ELSE s
             v == Put(u, b, adr)
  <2>1. t = FlushFull(v)
    BY <1>2 DEF EmitToHex
  <2>2. IoOK(u) /\ OnlyHex(s, u) /\ Alike(s, u)
        /\ (u.hex.bytes = <<>> \/ u.hex.address + Len(u.hex.bytes) = adr)
    BY FlushHexBufferKeeps DEF OnlyHex, Alike
  <2> HIDE DEF u
  <2>3. IoOK(v) /\ OnlyHex(u, v) /\ WithByte(u, v, b, adr)
    BY <2>2, PutKeeps
  <2> HIDE DEF v
  <2>4. IoOK(t) /\ OnlyHex(v, t) /\ Alike(v, t)
    BY <2>1, <2>3, FlushHexBufferKeeps DEF FlushFull, OnlyHex, Alike
  <2>5. OnlyHex(s, t)
    BY <2>2, <2>3, <2>4 DEF OnlyHex
  <2>6. WithByte(s, t, b, adr)
    BY <2>2, <2>3, <2>4 DEF WithByte, Alike
  <2> QED
    BY <1>2, <2>4, <2>5, <2>6
<1> QED
  BY <1>1, <1>2

LEMMA CloseHexKeeps ==
  ASSUME NEW s, IoOK(s), NEW t, t = CloseHex(s)
  PROVE  IoOK(t) /\ OnlyHex(s, t) /\ Alike(s, t)
<1>1. CASE ~s.hex.open
  BY <1>1 DEF CloseHex, OnlyHex, Alike
<1>2. CASE s.hex.open
  <2> DEFINE f == FlushHexBuffer(s)
             h == [f.hex EXCEPT !.open = FALSE]
  <2>1. t = [f EXCEPT !.hex.open = FALSE]
    BY <1>2 DEF CloseHex
  <2>2. IoOK(f) /\ OnlyHex(s, f) /\ Alike(s, f)
    BY FlushHexBufferKeeps
  <2> HIDE DEF f
  <2>3. f \in Io /\ f.hex \in Hex
    BY <2>2 DEF IoOK, Io
  <2>4. h \in Hex /\ h.address = f.hex.address /\ h.bytes = f.hex.bytes /\ h.records = f.hex.records
    BY <2>3 DEF Hex
  <2>5. t = [f EXCEPT !.hex = h]
    BY <2>1, <2>3 DEF Io, Hex
  <2> HIDE DEF h
  <2>6. IoOK(t) /\ OnlyHex(f, t) /\ t.hex = h
    BY <2>2, <2>4, <2>5, OtherHex
  <2>7. Records(t.hex) = Records(f.hex)
    BY <2>4, <2>6 DEF Records
  <2> QED
    BY <2>2, <2>6, <2>7 DEF OnlyHex, Alike
<1> QED
  BY <1>1, <1>2

-----------------------------------------------------------------------------
(* A write that failed fails again.                                        *)

LEMMA WithFatal ==
  ASSUME NEW s, IoOK(s), NEW b \in BOOLEAN, NEW u, u = [s EXCEPT !.fatal = b]
  PROVE  /\ IoOK(u) /\ Aside(s, u) /\ u.fp = s.fp /\ u.wb = s.wb /\ u.tap = s.tap /\ u.errors = s.errors
         /\ (u.fatal <=> b)
         /\ \A taps, n : Good(s, taps, n) => Good(u, taps, n)
         /\ Doomed(s) => Doomed(u)
<1>1. s \in Io
  BY DEF IoOK
<1>2. u \in Io /\ u.hex = s.hex /\ u.toDelete = s.toDelete /\ u.exists = s.exists
      /\ u.disk = s.disk /\ u.fp = s.fp /\ u.wb = s.wb /\ u.raw = s.raw /\ u.tap = s.tap
      /\ u.errors = s.errors /\ (u.fatal <=> b)
  BY <1>1 DEF Io
<1> QED
  BY <1>2 DEF IoOK, Aside, TapeHas, RawHas, Good, Doomed

LEMMA DoomedCloseDest ==
  ASSUME NEW s, IoOK(s), Doomed(s), NEW t, t = CloseDest(s)
  PROVE  t = Failed(s) /\ t.fatal /\ Doomed(t)
<1>1. WriteDest(s) = Failed(s)
  BY DEF Doomed, WriteDest
<1>2. Failed(s).fatal /\ Failed(s).wb = s.wb /\ Failed(s).fp = s.fp /\ Failed(s).tap = s.tap
  BY FailedKeeps
<1>3. t = Failed(s)
  BY <1>1, <1>2 DEF CloseDest, EndDest
<1> QED
  BY <1>2, <1>3 DEF Doomed

-----------------------------------------------------------------------------
(* Opening and seeking.                                                    *)

\* A file that is created is registered before anything else can fail.
OpenedAs(s, t, name, mode) ==
  /\ t.hex = s.hex /\ ~t.fatal /\ t.wb = <<>>
  /\ s.toDelete \in SUBSET t.toDelete /\ (Created(s, name, mode) => name \in t.toDelete)
  /\ t.fp.name = name
  /\ t.fp.pos = (IF Created(s, name, mode) THEN 0 ELSE StartOf(s, name, mode))
  /\ t.disk[name] = (IF Created(s, name, mode) THEN <<>> ELSE s.disk[name])

LEMMA OpenDestKeeps ==
  ASSUME NEW s, NEW taps \in Seq(Stream), NEW n, Good(s, taps, n), ~s.fatal, s.wb = <<>>,
         NEW name \in Names, NEW mode, NEW t, t = OpenDest(s, name, mode)
  PROVE  Good(t, taps, n) /\ OpenedAs(s, t, name, mode)
<1> DEFINE c == Created(s, name, mode)
           pos == IF c THEN 0 ELSE StartOf(s, name, mode)
           text == IF c THEN <<>> ELSE s.disk[name]
           p == [name |-> name, pos |-> pos]
           d == IF c THEN [s.disk EXCEPT ![name] = <<>>] ELSE s.disk
           e == IF c THEN s.exists \cup {name} ELSE s.exists
           x == IF c THEN s.toDelete \cup {name} ELSE s.toDelete
           zero == 0
<1>1. IoOK(s) /\ TapeHas(s, taps) /\ RawHas(s, n) /\ s \in Io /\ s.disk \in [Files -> Contents]
      /\ s.exists \in SUBSET Files /\ s.toDelete \in SUBSET Files
      /\ (\A m \in Names : s.disk[m] \in Stream) /\ s.disk[Tape] \in Seq(Block)
  BY DEF Good, IoOK, Io
<1>2. name \in Files /\ Tape # name /\ Tape \in Files /\ Names \subseteq Files /\ <<>> \in Stream
  <2>1. <<>> \in Stream
    BY DEF Stream
  <2> QED
    BY <2>1, Constants
<1>3. zero \in Int /\ pos \in Nat
  BY <1>1 DEF StartOf, Stream
<1>4. p \in Position /\ p.name = name /\ p.pos = pos
  BY <1>3 DEF Position
<1>5. e \in SUBSET Files /\ x \in SUBSET Files /\ s.toDelete \in SUBSET x /\ (c => name \in x)
  BY <1>1, <1>2
<1>6. d \in [Files -> Contents] /\ d[Tape] = s.disk[Tape] /\ d[name] = text
      /\ \A m \in Names : d[m] \in Stream
  BY <1>1, <1>2 DEF Contents
<1>7. t = [s EXCEPT !.disk = d, !.exists = e, !.toDelete = x, !.destlen = zero, !.fp = p]
  <2>1. CASE c
    BY <1>1, <2>1 DEF OpenDest, Opened, Registered, Truncated, Io
  <2>2. CASE ~c
    BY <1>1, <2>2 DEF OpenDest, Opened, Io
  <2> QED
    BY <2>1, <2>2
<1> HIDE DEF p, d, e, x, zero
<1>8. /\ t \in Io /\ t.disk = d /\ t.exists = e /\ t.toDelete = x /\ t.fp = p
      /\ t.wb = s.wb /\ t.raw = s.raw /\ t.tap = s.tap /\ t.hex = s.hex /\ (t.fatal <=> s.fatal)
  <2>1. /\ s \in Io /\ d \in [Files -> Contents] /\ e \in SUBSET Files /\ x \in SUBSET Files
        /\ zero \in Int /\ p \in Position
    BY <1>1, <1>3, <1>4, <1>5, <1>6
  <2> QED
    <3>1. t \in Io
      BY <1>7, <2>1 DEF Io
    <3>2. t.disk = d /\ t.exists = e /\ t.toDelete = x /\ t.fp = p
      BY <1>7, <2>1 DEF Io
    <3>3. t.wb = s.wb /\ t.raw = s.raw /\ t.tap = s.tap /\ t.hex = s.hex /\ (t.fatal <=> s.fatal)
      BY <1>7, <2>1 DEF Io
    <3> QED
      BY <3>1, <3>2, <3>3
<1>9. Good(t, taps, n)
  BY <1>1, <1>6, <1>8 DEF Good, IoOK, TapeHas, RawHas
<1> QED
  BY <1>4, <1>5, <1>6, <1>8, <1>9 DEF OpenedAs

\* An open file with nothing in the buffer.
LEMMA FileAt ==
  ASSUME NEW s, s.wb = <<>>, NEW out, s.fp # Closed => s.disk[s.fp.name] = out.data,
         s.fp.pos \in Int, out.pos = s.fp.pos
  PROVE  FileHas(s, out)
<1>1. s.fp.pos + Len(s.wb) = s.fp.pos
  OBVIOUS
<1>2. Overlay(s.disk[s.fp.name], s.fp.pos, s.wb) = s.disk[s.fp.name]
  BY DEF Overlay
<1> QED
  BY <1>1, <1>2 DEF FileHas

LEMMA SeekDestKeeps ==
  ASSUME NEW s, NEW taps \in Seq(Stream), NEW n, Good(s, taps, n), ~s.fatal,
         NEW offset \in Int, NEW relative \in BOOLEAN, NEW t, t = SeekDest(s, offset, relative),
         NEW out, FileHas(s, out), out.pos \in Int,
         NEW p, p = IF relative THEN out.pos + offset ELSE offset
  PROVE  /\ Good(t, taps, n) /\ Aside(s, t)
         /\ (s.fp = Closed /\ ~t.fatal => t.fp = Closed)
         /\ (s.fp # Closed /\ ~t.fatal =>
               t.wb = <<>> /\ t.fp # Closed /\ t.fp.pos = p /\ p \in Int
               /\ t.disk[t.fp.name] = out.data)
<1> DEFINE w == WriteDest(s)
<1>1. Good(w, taps, n) /\ Flushed(s, w) /\ FileHas(w, out)
  BY WriteDestKeeps
<1>2. t = SeekFrom(w, offset, relative)
  BY DEF SeekDest
<1> HIDE DEF w
<1>3. CASE w.fatal \/ w.fp = Closed
  <2>1. t = w
    BY <1>2, <1>3 DEF SeekFrom, Seek
  <2> QED
    BY <1>1, <1>3, <2>1 DEF Flushed
<1>4. CASE ~(w.fatal \/ w.fp = Closed)
  <2> DEFINE q == IF relative THEN w.fp.pos + offset ELSE offset
  <2>1. w.wb = <<>> /\ s.fp # Closed /\ w.fp # Closed /\ Aside(s, w) /\ IoOK(w)
    BY <1>1, <1>4 DEF Flushed, Good
  <2>2. w.fp.name \in Names /\ w.fp.pos \in Nat /\ w.fp = [name |-> w.fp.name, pos |-> w.fp.pos]
    BY <2>1, OpenPosition
  <2>3. q \in Int
    BY <2>2
  <2>4. q = p
    <3>1. Len(w.wb) = 0
      BY <2>1
    <3>2. out.pos = w.fp.pos + Len(w.wb)
      BY <1>1, <2>1 DEF FileHas
    <3> QED
      BY <2>2, <3>1, <3>2
  <2>5. t = IF q < 0 THEN Failed(w) ELSE [w EXCEPT !.fp.pos = q]
    BY <1>2, <1>4 DEF SeekFrom, Seek
  <2> HIDE DEF q
  <2>6. CASE q < 0
    BY <1>1, <2>1, <2>5, <2>6, FailedKeeps DEF Good, Aside
  <2>7. CASE ~(q < 0)
    <3> DEFINE at == [name |-> w.fp.name, pos |-> q]
    <3>1. w \in Io
      BY <2>1 DEF IoOK
    <3>2. q \in Nat
      BY <2>3, <2>7
    <3>3. at \in Position /\ at # Closed /\ at.name = w.fp.name /\ at.pos = q
      BY <2>2, <3>2, NamedIsOpen DEF Position
    <3>4. t = [w EXCEPT !.fp = at]
      <4>1. t = [w EXCEPT !.fp.pos = q]
        BY <2>5, <2>7
      <4>2. [w.fp EXCEPT !.pos = q] = at
        BY <2>2
      <4> QED
        BY <3>1, <4>1, <4>2 DEF Io
    <3> HIDE DEF at
    <3>5. t \in Io /\ t.fp = at /\ t.disk = w.disk /\ t.wb = w.wb /\ t.raw = w.raw /\ t.tap = w.tap
          /\ Aside(w, t) /\ (t.fatal <=> w.fatal)
      BY <3>1, <3>3, <3>4 DEF Io, Aside
    <3>6. Good(t, taps, n)
      BY <1>1, <3>5 DEF Good, IoOK, TapeHas, RawHas
    <3>7. w.disk[w.fp.name] = out.data
      BY <1>1, <2>1 DEF FileHas, Overlay
    <3> QED
      BY <2>1, <2>3, <2>4, <3>3, <3>5, <3>6, <3>7 DEF Aside
  <2> QED
    BY <2>6, <2>7
<1> QED
  BY <1>3, <1>4

-----------------------------------------------------------------------------
(* Blocks of the tape.                                                     *)

\* A block that begins has nothing but its flag.
LEMMA HoldsNothing == <<>> \in Stream /\ Holds(<<>>, <<>>) /\ XorAll(<<>>) = {} /\ Len(<<>>) = 0
<1>1. <<>> \in Stream /\ Len(<<>>) = 0
  BY DEF Stream
<1>2. Solid(<<>>) = {}
  BY DEF Solid
<1>3. Holds(<<>>, <<>>)
  BY <1>1, <1>2, FS_EmptySet DEF Holds, Begins
<1> QED
  BY <1>1, <1>3, XorAllNone

Started(taps, s) == IF s.tap.open /\ ~s.fatal THEN Append(taps, <<>>) ELSE taps

LEMMA OpenTapFileKeeps ==
  ASSUME NEW s, NEW taps \in Seq(Stream), NEW n, Good(s, taps, n), ~s.fatal, NEW flag \in Byte,
         NEW t, t = OpenTapFile(s, flag)
  PROVE  /\ Good(t, Started(taps, t), n) /\ Flushed(s, t) /\ Started(taps, t) \in Seq(Stream)
         /\ \A out : FileHas(s, out) => FileHas(t, out)
<1> DEFINE w == CloseTapFile(s)
<1>1. /\ Good(w, taps, n) /\ Flushed(s, w) /\ (~w.fatal => ~w.tap.open)
      /\ \A out : FileHas(s, out) => FileHas(w, out)
  BY CloseTapFileKeeps
<1>2. t = StartBlock(w, flag)
  BY DEF OpenTapFile
<1> HIDE DEF w
<1>3. IoOK(w) /\ TapeHas(w, taps) /\ RawHas(w, n) /\ w \in Io /\ Aside(s, w)
  BY <1>1 DEF Good, IoOK, Flushed
<1>4. CASE w.fatal
  <2>1. t = w
    BY <1>2, <1>4 DEF StartBlock
  <2> QED
    BY <1>1, <1>4, <2>1 DEF Started
<1>5. CASE ~w.fatal /\ Tape \notin w.exists
  <2>1. t = [w EXCEPT !.errors = @ + 1]
    BY <1>2, <1>5 DEF StartBlock
  <2>2. /\ IoOK(t) /\ Aside(w, t) /\ t.disk = w.disk /\ t.fp = w.fp /\ t.wb = w.wb /\ t.raw = w.raw
        /\ t.tap = w.tap /\ (t.fatal <=> w.fatal) /\ TapeHas(t, taps) /\ RawHas(t, n)
        /\ \A out : FileHas(w, out) => FileHas(t, out)
    BY <1>3, <2>1, MoreErrors
  <2>3. Started(taps, t) = taps
    BY <1>1, <1>5, <2>2 DEF Started
  <2> QED
    BY <1>1, <1>5, <2>2, <2>3 DEF Good, Flushed, Aside
<1>6. CASE ~w.fatal /\ Tape \in w.exists
  <2> DEFINE none == <<>>
             yes == TRUE
             zero == 0
             two == 2
             tap == [open |-> yes, data |-> none, flag |-> flag, parity |-> flag, length |-> two]
             more == Append(taps, none)
  <2>1. none \in Stream /\ Holds(none, none) /\ XorAll(none) = {} /\ Len(none) = 0
    BY HoldsNothing
  <2>2. t = [w EXCEPT !.destlen = zero, !.tap = tap]
    BY <1>2, <1>6 DEF StartBlock
  <2>3. tap \in TapeOut /\ tap.open /\ tap.data = none /\ tap.length = two /\ tap.parity = flag
        /\ tap.flag = flag /\ zero \in Int
    BY <2>1 DEF TapeOut
  <2>4. TapeSoFar(tap)
    <3>1. Xor(flag, XorAll(none)) = flag
      BY <2>1 DEF Xor
    <3>2. two = Len(none) + 2 /\ two <= TapeMax
      BY <2>1, Bounds
    <3> HIDE DEF none, two, tap
    <3> QED
      BY <2>3, <3>1, <3>2 DEF TapeSoFar
  <2>5. more \in Seq(Stream) /\ Len(more) = Len(taps) + 1 /\ Len(taps) \in Nat
        /\ more[Len(more)] = none /\ \A k \in 1 .. Len(taps) : more[k] = taps[k]
    BY <2>1
  <2> HIDE DEF tap, zero, more, yes, two
  <2>6. t \in Io /\ t.tap = tap /\ t.disk = w.disk /\ t.fp = w.fp /\ t.wb = w.wb /\ t.raw = w.raw
        /\ (t.fatal <=> w.fatal) /\ Aside(w, t)
    BY <1>3, <2>2, <2>3 DEF Io, Aside
  <2>7. w.wb = none /\ w.wb \in Stream
    BY <1>1, <1>6, <2>1 DEF Flushed
  <2>8. IoOK(t)
    BY <1>3, <2>3, <2>4, <2>6 DEF IoOK
  <2>9. t.tap.open /\ t.tap.data = none
    BY <2>3, <2>6
  <2>10. Started(taps, t) = more
    BY <1>6, <2>6, <2>9 DEF Started, more
  <2>11. TapeHas(t, more)
    <3>1. Len(taps) = Len(w.disk[Tape])
      <4>1. Len(w.disk[Tape]) \in Nat
        <5>1. w.disk[Tape] \in Seq(Block)
          BY <1>3 DEF IoOK
        <5> QED
          BY <5>1
      <4>2. Len(taps) = Len(w.disk[Tape]) + (IF w.tap.open THEN 1 ELSE 0)
        BY <1>3 DEF TapeHas
      <4>3. ~w.tap.open
        BY <1>1, <1>6
      <4> HIDE DEF none
      <4> QED
        BY <4>1, <4>2, <4>3
    <3>2. \A k \in 1 .. Len(taps) : Sound(w.disk[Tape][k], taps[k])
      BY <1>3, <3>1 DEF TapeHas
    <3>3. t.tap.data \o t.wb = none
      BY <2>6, <2>7, <2>9
    <3>4. Len(t.disk[Tape]) = Len(taps) /\ t.disk[Tape] = w.disk[Tape]
      BY <2>6, <3>1
    <3> HIDE DEF none
    <3> QED
      BY <2>1, <2>5, <2>9, <3>2, <3>3, <3>4 DEF TapeHas
  <2>12. RawHas(t, n)
    BY <1>3, <2>6 DEF RawHas
  <2>13. \A out : FileHas(w, out) => FileHas(t, out)
    BY <2>6 DEF FileHas
  <2> QED
    BY <1>1, <1>6, <2>5, <2>6, <2>7, <2>8, <2>10, <2>11, <2>12, <2>13 DEF Good, Flushed, Aside
<1> QED
  BY <1>4, <1>5, <1>6

\* An empty tape, when no block is open.
Emptied(s, t, n) ==
  /\ Good(t, <<>>, n) /\ t.hex = s.hex /\ (t.fatal <=> s.fatal)
  /\ s.toDelete \in SUBSET t.toDelete /\ Tape \in t.toDelete
  /\ \A out : FileHas(s, out) => FileHas(t, out)

LEMMA EmptyTapeKeeps ==
  ASSUME NEW s, NEW taps \in Seq(Stream), NEW n, Good(s, taps, n), ~s.tap.open,
         NEW t, t = [s EXCEPT !.disk[Tape] = <<>>, !.exists = @ \cup {Tape}, !.toDelete = @ \cup {Tape}]
  PROVE  Emptied(s, t, n)
<1> DEFINE d == [s.disk EXCEPT ![Tape] = <<>>]
           e == s.exists \cup {Tape}
           x == s.toDelete \cup {Tape}
<1>1. IoOK(s) /\ TapeHas(s, taps) /\ RawHas(s, n) /\ s \in Io /\ s.disk \in [Files -> Contents]
      /\ s.exists \in SUBSET Files /\ s.toDelete \in SUBSET Files
      /\ (\A m \in Names : s.disk[m] \in Stream)
  BY DEF Good, IoOK, Io
<1>2. e \in SUBSET Files /\ x \in SUBSET Files /\ s.toDelete \in SUBSET x /\ Tape \in x
  BY <1>1, Constants
<1>3. d \in [Files -> Contents] /\ d[Tape] = <<>> /\ \A m \in Names : d[m] = s.disk[m]
  <2>1. <<>> \in Contents
    BY HoldsNothing DEF Contents
  <2> QED
    BY <1>1, <2>1, Constants
<1>4. t = [s EXCEPT !.disk = d, !.exists = e, !.toDelete = x]
  BY <1>1 DEF Io
<1> HIDE DEF d, e, x
<1>5. t \in Io /\ t.disk = d /\ t.exists = e /\ t.toDelete = x /\ t.fp = s.fp /\ t.wb = s.wb
      /\ t.raw = s.raw /\ t.tap = s.tap /\ t.hex = s.hex /\ (t.fatal <=> s.fatal)
  BY <1>1, <1>2, <1>3, <1>4 DEF Io
<1>6. <<>> \in Seq(Block)
  OBVIOUS
<1>7. IoOK(t)
  BY <1>1, <1>3, <1>5, <1>6 DEF IoOK
<1>8. TapeHas(t, <<>>)
  <2> DEFINE none == <<>>
  <2>1. Len(none) = 0 /\ t.disk[Tape] = none /\ ~t.tap.open
    BY <1>3, <1>5
  <2> HIDE DEF none
  <2>2. Len(none) = Len(t.disk[Tape]) + (IF t.tap.open THEN 1 ELSE 0)
    BY <2>1
  <2>3. 1 .. Len(t.disk[Tape]) = {}
    BY <2>1
  <2>4. TapeHas(t, none)
    BY <2>1, <2>2, <2>3 DEF TapeHas
  <2> QED
    BY <2>4 DEF none
<1>9. RawHas(t, n)
  BY <1>1, <1>5 DEF RawHas
<1>10. ASSUME NEW out, FileHas(s, out) PROVE FileHas(t, out)
  <2>1. s.fp # Closed => t.disk[t.fp.name] = s.disk[s.fp.name]
    BY <1>1, <1>3, <1>5, OpenPosition
  <2> QED
    BY <1>5, <1>10, <2>1 DEF FileHas
<1> QED
  BY <1>2, <1>5, <1>7, <1>8, <1>9, <1>10 DEF Good, Emptied

-----------------------------------------------------------------------------
(* The end, and one byte more.                                             *)

LEMMA CloseKeeps ==
  ASSUME NEW s, NEW taps \in Seq(Stream), NEW n, Good(s, taps, n), ~s.fatal, NEW t, t = Close(s)
  PROVE  /\ Good(t, taps, n) /\ t.toDelete = s.toDelete /\ t.exists = s.exists /\ Alike(s, t)
         /\ (t.fatal => Doomed(t)) /\ (~t.fatal => t.wb = <<>>)
         /\ (Doomed(s) => t.fatal)
<1> DEFINE d == CloseDest(s)
           e == EndTap(d)
<1>1. Good(d, taps, n) /\ Ready(d) /\ Aside(s, d)
  BY CloseDestKeeps
<1>2. Doomed(s) => d.fatal
  BY DoomedCloseDest DEF Good
<1>3. t = EndHex(e)
  BY DEF Close
<1> HIDE DEF d
<1>4. Good(e, taps, n) /\ Ready(e) /\ Aside(d, e) /\ (d.fatal => e.fatal)
  <2>1. CASE d.fatal
    <3>1. e = d
      BY <2>1 DEF EndTap
    <3> QED
      BY <1>1, <3>1 DEF Aside
  <2>2. CASE ~d.fatal
    <3>1. e = CloseTapFile(d)
      BY <2>2 DEF EndTap
    <3>2. Good(e, taps, n) /\ Flushed(d, e)
      BY <1>1, <2>2, <3>1, CloseTapFileKeeps
    <3> QED
      BY <2>2, <3>2 DEF Flushed, Ready
  <2> QED
    BY <2>1, <2>2
<1> HIDE DEF e
<1>5. Good(t, taps, n) /\ OnlyHex(e, t) /\ Alike(e, t)
  <2>1. CASE e.fatal
    <3>1. t = e
      BY <1>3, <2>1 DEF EndHex
    <3> QED
      BY <1>4, <3>1 DEF OnlyHex, Alike
  <2>2. CASE ~e.fatal
    <3>1. t = CloseHex(e)
      BY <1>3, <2>2 DEF EndHex
    <3>2. IoOK(e)
      BY <1>4 DEF Good
    <3>3. IoOK(t) /\ OnlyHex(e, t) /\ Alike(e, t)
      BY <3>1, <3>2, CloseHexKeeps
    <3> QED
      BY <1>4, <3>3, OnlyHexKeeps
  <2> QED
    BY <2>1, <2>2
<1>6. t.toDelete = s.toDelete /\ t.exists = s.exists
  BY <1>1, <1>4, <1>5 DEF Aside, OnlyHex
<1>7. Alike(s, t)
  BY <1>1, <1>4, <1>5 DEF Aside, Alike
<1>8. (t.fatal => Doomed(t)) /\ (~t.fatal => t.wb = <<>>)
  BY <1>4, <1>5 DEF Ready, Doomed, OnlyHex
<1>9. Doomed(s) => t.fatal
  BY <1>2, <1>4, <1>5 DEF OnlyHex
<1> QED
  BY <1>5, <1>6, <1>7, <1>8, <1>9

\* What one more byte adds to the tape and to the output file.
OneMore(taps, s, b) == IF s.tap.open THEN [taps EXCEPT ![Len(taps)] = Append(@, b)] ELSE taps
OutMore(out, s, b) ==
  IF s.fp = Closed THEN out ELSE [pos |-> out.pos + 1, data |-> Overlay(out.data, out.pos, <<b>>)]

LEMMA NumbersMore ==
  ASSUME NEW n \in Nat
  PROVE  /\ Numbers(n) \in Stream /\ Numbers(n + 1) = Append(Numbers(n), {n + 1})
         /\ {n + 1} \in Byte /\ {n + 1} # {}
<1>1. Numbers(n) \in Stream /\ Len(Numbers(n)) = n
  BY DEF Numbers, Stream, Byte
<1>2. Numbers(n + 1) \in Stream /\ Len(Numbers(n + 1)) = n + 1
  BY DEF Numbers, Stream, Byte
<1>3. Numbers(n + 1) = Append(Numbers(n), {n + 1})
  BY <1>1, <1>2 DEF Numbers
<1>4. {n + 1} \in Byte
  BY DEF Byte
<1> QED
  BY <1>1, <1>3, <1>4

LEMMA Place ==
  ASSUME NEW p \in Nat, NEW q \in Nat, NEW k \in 1 .. (p + q + 1)
  PROVE  k <= p \/ (k > p /\ k < p + q + 1) \/ k = p + q + 1
OBVIOUS

JoinedMore(a, wb, b) ==
  Joined(a, Append(wb, b)) = Append(Joined(a, wb), b) /\ Joined(a, wb) \in Stream

LEMMA AppendBehind ==
  ASSUME NEW a \in Stream, NEW wb \in Stream, NEW b \in Byte
  PROVE  JoinedMore(a, wb, b)
<1> DEFINE c == Append(wb, b)
           m == Joined(a, wb)
           x == Joined(a, c)
           y == Append(m, b)
           n == Len(a) + Len(wb) + 1
<1>1. Len(a) \in Nat /\ Len(wb) \in Nat /\ n \in Nat /\ a \in Seq(Byte) /\ wb \in Seq(Byte)
  BY DEF Stream
<1>2. c \in Seq(Byte) /\ Len(c) = Len(wb) + 1 /\ c[Len(wb) + 1] = b
      /\ \A k \in 1 .. Len(wb) : c[k] = wb[k]
  BY DEF Stream
<1> HIDE DEF c
<1>3. m \in Seq(Byte) /\ Len(m) = Len(a) + Len(wb)
      /\ (\A k \in 1 .. Len(a) : m[k] = a[k]) /\ \A k \in 1 .. Len(wb) : m[Len(a) + k] = wb[k]
  BY <1>1 DEF Joined
<1>4. x \in Seq(Byte) /\ Len(x) = n
      /\ (\A k \in 1 .. Len(a) : x[k] = a[k]) /\ \A k \in 1 .. Len(c) : x[Len(a) + k] = c[k]
  BY <1>1, <1>2 DEF Joined
<1> HIDE DEF m, x
<1>5. y \in Seq(Byte) /\ Len(y) = n /\ y[n] = b /\ \A k \in 1 .. Len(m) : y[k] = m[k]
  BY <1>1, <1>3
<1> HIDE DEF y
<1>6. ASSUME NEW k \in 1 .. n PROVE x[k] = y[k]
  <2>1. CASE k <= Len(a)
    <3>1. k \in 1 .. Len(a) /\ k \in 1 .. Len(m)
      BY <1>1, <1>3, <2>1
    <3> QED
      BY <1>3, <1>4, <1>5, <3>1
  <2>2. CASE k > Len(a) /\ k < n
    <3> DEFINE j == k - Len(a)
    <3>1. j \in 1 .. Len(wb) /\ j \in 1 .. Len(c) /\ k \in 1 .. Len(m) /\ k = Len(a) + j
      BY <1>1, <1>2, <1>3, <2>2
    <3> HIDE DEF j
    <3> QED
      BY <1>2, <1>3, <1>4, <1>5, <3>1
  <2>3. CASE k = n
    <3>1. n = Len(a) + Len(c) /\ Len(c) \in 1 .. Len(c)
      BY <1>1, <1>2
    <3>2. x[n] = c[Len(c)]
      BY <1>4, <3>1
    <3> QED
      BY <1>2, <1>5, <2>3, <3>2
  <2>4. k <= Len(a) \/ (k > Len(a) /\ k < n) \/ k = n
    BY <1>1, Place
  <2> QED
    BY <2>1, <2>2, <2>3, <2>4, Zenon
<1> HIDE DEF n
<1>7. x = y
  BY <1>1, <1>4, <1>5, <1>6
<1> QED
  <2>1. m \in Stream
    BY <1>3 DEF Stream
  <2> QED
    BY <1>7, <2>1, Zenon DEF c, m, x, y, JoinedMore

LEMMA HoldsBehind ==
  ASSUME NEW u \in Stream, NEW w \in Stream, NEW b \in Byte, b # {}, Holds(u, w),
         NEW d, d = Append(u, b), NEW v, v = Append(w, b)
  PROVE  Holds(d, v)
BY HoldsMore, Zenon

\* A byte behind both.
LEMMA Behind ==
  ASSUME NEW a \in Stream, NEW wb \in Stream, NEW b \in Byte, NEW w \in Stream, b # {},
         Holds(Joined(a, wb), w), NEW c, c = Append(wb, b), NEW v, v = Append(w, b)
  PROVE  Holds(Joined(a, c), v)
<1>1. Joined(a, c) = Append(Joined(a, wb), b) /\ Joined(a, wb) \in Stream
  <2>1. JoinedMore(a, wb, b)
    BY AppendBehind
  <2> QED
    BY <2>1, Zenon DEF JoinedMore
<1> DEFINE u == Joined(a, wb)
           d == Joined(a, c)
<1>2. u \in Stream /\ Holds(u, w) /\ d = Append(u, b) /\ v = Append(w, b)
  BY <1>1
<1> HIDE DEF u, d
<1>3. Holds(d, v)
  BY <1>2, HoldsBehind
<1> QED
  BY <1>3 DEF d

\* The last stream has b behind it.
Grown(taps, more, b) ==
  /\ more \in Seq(Stream) /\ Len(more) = Len(taps)
  /\ more[Len(more)] = Append(taps[Len(taps)], b)
  /\ \A k \in 1 .. Len(taps) : k # Len(taps) => more[k] = taps[k]

LEMMA LastMore ==
  ASSUME NEW taps \in Seq(Stream), Len(taps) # 0, NEW b \in Byte, NEW more,
         more = [taps EXCEPT ![Len(taps)] = Append(@, b)]
  PROVE  Grown(taps, more, b)
<1> DEFINE l == Len(taps)
           a == Append(taps[l], b)
<1>1. l \in Nat /\ l \in 1 .. l /\ taps[l] \in Stream /\ taps \in [1 .. l -> Stream]
  OBVIOUS
<1>2. a \in Stream
  BY <1>1 DEF Stream
<1> HIDE DEF a
<1>3. more = [taps EXCEPT ![l] = a]
  BY DEF a
<1> HIDE DEF l
<1>4. more \in [1 .. l -> Stream] /\ more[l] = a /\ \A k \in 1 .. l : k # l => more[k] = taps[k]
  BY <1>1, <1>2, <1>3
<1>5. more \in Seq(Stream) /\ Len(more) = l
  BY <1>1, <1>4
<1> QED
  BY <1>4, <1>5 DEF a, l, Grown

LEMMA AppendBoth ==
  ASSUME NEW a \in Stream, NEW b \in Byte
  PROVE  Append(a, b) = a \o <<b>>
BY DEF Stream

\* x is c with a written at p, and q is the place behind a.
Continues(x, q, c, p, a) == x = Overlay(c, p, a) /\ q = p + Len(a)

LEMMA OverlayMore ==
  ASSUME NEW c \in Stream, NEW p \in Nat, NEW a \in Stream, NEW b \in Stream,
         NEW x, NEW q, Continues(x, q, c, p, a)
  PROVE  Overlay(x, q, b) = Overlay(c, p, Joined(a, b))
BY OverlayBoth DEF Continues, Joined

LEMMA BufferedKeeps ==
  ASSUME NEW s, NEW taps \in Seq(Stream), NEW n \in Nat, Good(s, taps, n),
         NEW b, b = {n + 1}, NEW t, t = Buffered(s, b)
  PROVE  /\ Good(t, OneMore(taps, s, b), n + 1) /\ Aside(s, t) /\ (t.fatal <=> s.fatal)
         /\ OneMore(taps, s, b) \in Seq(Stream)
         /\ \A out : FileHas(s, out) => FileHas(t, OutMore(out, s, b))
<1> DEFINE wb == Append(s.wb, b)
           more == OneMore(taps, s, b)
<1>1. IoOK(s) /\ TapeHas(s, taps) /\ RawHas(s, n) /\ s \in Io /\ s.wb \in Stream /\ s.raw \in Stream
      /\ s.disk[Tape] \in Seq(Block) /\ \A name \in Names : s.disk[name] \in Stream
  BY DEF Good, IoOK, Io
<1>2. b \in Byte /\ b # {} /\ Numbers(n) \in Stream /\ Numbers(n + 1) = Append(Numbers(n), b)
  BY NumbersMore
<1>3. wb \in Stream /\ Len(wb) = Len(s.wb) + 1 /\ Len(s.wb) \in Nat /\ wb = s.wb \o <<b>> /\ <<b>> \in Stream
      /\ Len(<<b>>) = 1 /\ <<b>> # <<>>
  <2>1. <<b>> \in Stream /\ Len(<<b>>) = 1 /\ <<b>> # <<>>
    BY <1>2 DEF Stream
  <2>2. wb \in Stream /\ Len(wb) = Len(s.wb) + 1 /\ Len(s.wb) \in Nat
    BY <1>1, <1>2 DEF Stream
  <2>3. wb = s.wb \o <<b>>
    BY <1>1, <1>2, AppendBoth
  <2> QED
    BY <2>1, <2>2, <2>3
<1>4. t = [s EXCEPT !.wb = wb]
  BY DEF Buffered
<1> HIDE DEF wb
<1>5. t \in Io /\ t.wb = wb /\ t.disk = s.disk /\ t.fp = s.fp /\ t.raw = s.raw /\ t.tap = s.tap
      /\ (t.fatal <=> s.fatal) /\ Aside(s, t)
  BY <1>1, <1>3, <1>4 DEF Io, Aside
<1>6. IoOK(t)
  BY <1>1, <1>5 DEF IoOK
<1>7. RawHas(t, n + 1)
  <2>1. Holds(Joined(s.raw, s.wb), Numbers(n))
    BY <1>1 DEF RawHas, Joined
  <2>2. wb = Append(s.wb, b)
    BY DEF wb
  <2>3. Holds(Joined(s.raw, wb), Numbers(n + 1))
    BY <1>1, <1>2, <2>1, <2>2, Behind
  <2> QED
    BY <1>5, <2>3 DEF RawHas, Joined
<1>8. more \in Seq(Stream) /\ TapeHas(t, more)
  <2>1. CASE ~s.tap.open
    BY <1>1, <1>5, <2>1 DEF TapeHas, OneMore
  <2>2. CASE s.tap.open
    <3> DEFINE last == taps[Len(taps)]
               m == Len(s.disk[Tape])
    <3>1. s.tap.data \in Stream /\ last \in Stream /\ Len(taps) = m + 1 /\ Holds(Joined(s.tap.data, s.wb), last)
      BY <1>1, <2>2, Flushable DEF Joined
    <3>2. m \in Nat
      BY <1>1
    <3>3. Len(taps) # 0
      BY <3>1, <3>2
    <3>4. more = [taps EXCEPT ![Len(taps)] = Append(@, b)]
      BY <2>2 DEF OneMore
    <3> HIDE DEF last, more
    <3>5. /\ more \in Seq(Stream) /\ Len(more) = Len(taps)
          /\ more[Len(more)] = Append(taps[Len(taps)], b)
          /\ \A k \in 1 .. Len(taps) : k # Len(taps) => more[k] = taps[k]
      <4>1. Grown(taps, more, b)
        BY <1>2, <3>3, <3>4, LastMore
      <4> QED
        BY <4>1 DEF Grown
    <3>6. Holds(Joined(s.tap.data, wb), more[Len(more)])
      <4>1. wb = Append(s.wb, b)
        BY DEF wb
      <4>2. more[Len(more)] = Append(last, b)
        BY <3>5 DEF last
      <4> QED
        BY <1>1, <1>2, <3>1, <4>1, <4>2, Behind
    <3>7. ASSUME NEW k \in 1 .. m PROVE Sound(s.disk[Tape][k], more[k])
      <4>1. k \in 1 .. Len(taps) /\ k # Len(taps)
        BY <3>1, <3>2
      <4>2. Sound(s.disk[Tape][k], taps[k])
        BY <1>1 DEF TapeHas
      <4> QED
        BY <3>5, <4>1, <4>2
    <3> QED
      BY <1>5, <2>2, <3>1, <3>5, <3>6, <3>7 DEF TapeHas, Joined
  <2> QED
    BY <2>1, <2>2
<1>9. ASSUME NEW out, FileHas(s, out) PROVE FileHas(t, OutMore(out, s, b))
  <2> SUFFICES ASSUME s.fp # Closed
               PROVE  LET o == OutMore(out, s, b)
                      IN  Overlay(t.disk[t.fp.name], t.fp.pos, t.wb) = o.data
                          /\ o.pos = t.fp.pos + Len(t.wb)
    BY <1>5 DEF FileHas
  <2> DEFINE c == s.disk[s.fp.name]
             p == s.fp.pos
             o == OutMore(out, s, b)
  <2>1. s.fp.name \in Names /\ p \in Nat /\ c \in Stream
    BY <1>1, OpenPosition
  <2>2. Overlay(c, p, s.wb) = out.data /\ out.pos = p + Len(s.wb)
    BY <1>9 DEF FileHas
  <2>3. o.pos = out.pos + 1 /\ o.data = Overlay(out.data, out.pos, <<b>>)
    BY DEF OutMore
  <2>4. Overlay(out.data, out.pos, <<b>>) = Overlay(c, p, wb)
    <3> DEFINE bs == <<b>>
    <3>1. bs \in Stream /\ wb = Joined(s.wb, bs)
      BY <1>3 DEF Joined
    <3> HIDE DEF c, p, o, bs
    <3>2. c \in Stream /\ p \in Nat /\ s.wb \in Stream
      BY <1>1, <2>1
    <3>3. Continues(out.data, out.pos, c, p, s.wb)
      BY <2>2 DEF Continues
    <3>4. Overlay(out.data, out.pos, bs) = Overlay(c, p, wb)
      BY <3>1, <3>2, <3>3, OverlayMore
    <3> QED
      BY <3>4 DEF bs
  <2>5. Overlay(c, p, wb) = o.data
    <3> HIDE DEF c, p, o
    <3> QED
      BY <2>3, <2>4
  <2>6. o.pos = p + Len(wb)
    <3> HIDE DEF p, o
    <3> QED
      BY <1>3, <2>1, <2>2, <2>3
  <2> QED
    BY <1>5, <2>5, <2>6
<1> QED
  BY <1>5, <1>6, <1>7, <1>8, <1>9 DEF Good

-----------------------------------------------------------------------------
(* The invariant.                                                          *)

Out == [pos : Int, data : Stream]
Want == [out : Out, taps : Seq(Stream), hex : [0 .. 3 * MaxBytes -> Byte], created : SUBSET Files]
Phases == {"assemble", "exit", "done", "crashed"}

\* The streams with what is still in a buffer hold what is wanted.
Agree(s, w, n) == w \in Want /\ n \in Nat /\ Good(s, w.taps, n)

Assembling(s, w) ==
  ~s.fatal /\ FileHas(s, w.out) /\ w.created \in SUBSET s.toDelete /\ HexHas(s.hex, w.hex)

\* Behind a fatal error the last byte may be missing in the HEX file: then the run cannot end.
Exiting(s, w) == w.created \in SUBSET s.toDelete /\ (HexHas(s.hex, w.hex) \/ Doomed(s))

Ended(s, w) ==
  /\ s.wb = <<>> /\ HexHas(s.hex, w.hex)
  /\ CleanOnError /\ s.errors > 0 => \A name \in w.created : name \notin s.exists

OutInv ==
  /\ Agree(io, want, emitted) /\ address \in Int /\ phase \in Phases
  /\ phase = "assemble" => Assembling(io, want)
  /\ phase = "exit" => Exiting(io, want)
  /\ phase = "done" => Ended(io, want)

\* A step of the assembler, and the call of ExitASM when it failed.
LEMMA GoKeeps ==
  ASSUME NEW s, Go(s), Agree(s, want', emitted'), address' \in Int,
         s.fatal => Exiting(s, want'), ~s.fatal => Assembling(s, want')
  PROVE  OutInv'
<1>1. io' = s /\ phase' = (IF s.fatal THEN "exit" ELSE "assemble")
  BY DEF Go
<1>2. phase' \in Phases
  BY <1>1 DEF Phases
<1>3. CASE s.fatal
  BY <1>1, <1>2, <1>3 DEF OutInv
<1>4. CASE ~s.fatal
  BY <1>1, <1>2, <1>4 DEF OutInv
<1> QED
  BY <1>3, <1>4

LEMMA WantFields ==
  ASSUME NEW w \in Want
  PROVE  w.out \in Out /\ w.out.pos \in Int /\ w.out.data \in Stream /\ w.taps \in Seq(Stream)
         /\ w.hex \in [0 .. 3 * MaxBytes -> Byte] /\ w.created \in SUBSET Files
BY DEF Want, Out

\* The steps that do not change what is wanted.
LEMMA SameWanted ==
  ASSUME OutInv, phase = "assemble", NEW s, Go(s), Good(s, want.taps, emitted),
         s.toDelete = io.toDelete, HexHas(s.hex, want.hex) \/ (s.fatal /\ Doomed(s)),
         ~s.fatal => FileHas(s, want.out), want' = want, emitted' = emitted, address' = address
  PROVE  OutInv'
<1>1. Agree(io, want, emitted) /\ Assembling(io, want) /\ address \in Int
  BY DEF OutInv
<1>2. Agree(s, want', emitted')
  BY <1>1 DEF Agree
<1>3. s.fatal => Exiting(s, want')
  BY <1>1 DEF Exiting, Assembling
<1>4. ~s.fatal => Assembling(s, want')
  BY <1>1 DEF Assembling
<1> QED
  BY <1>1, <1>2, <1>3, <1>4, GoKeeps

LEMMA HexMore ==
  ASSUME NEW s, NEW t, NEW b \in Byte, NEW adr \in Int, WithByte(s, t, b, adr),
         NEW h \in [0 .. 3 * MaxBytes -> Byte], HexHas(s.hex, h),
         NEW more, more = [h EXCEPT ![adr] = b]
  PROVE  more \in [0 .. 3 * MaxBytes -> Byte] /\ HexHas(t.hex, more)
<1>1. more \in [0 .. 3 * MaxBytes -> Byte]
  OBVIOUS
<1>2. ASSUME NEW a \in 0 .. 3 * MaxBytes PROVE more[a] = Loaded(Records(t.hex), a)
  <2>1. a \in Int /\ h[a] = Loaded(Records(s.hex), a)
    BY DEF HexHas
  <2>2. Loaded(Records(t.hex), a) = IF a = adr THEN b ELSE Loaded(Records(s.hex), a)
    BY <2>1 DEF WithByte
  <2> QED
    BY <2>1, <2>2
<1> QED
  BY <1>1, <1>2 DEF HexHas

LEMMA HexAlike ==
  ASSUME NEW s, NEW t, Alike(s, t) \/ t.hex = s.hex, NEW h \in [0 .. 3 * MaxBytes -> Byte], HexHas(s.hex, h)
  PROVE  HexHas(t.hex, h)
<1>1. ASSUME NEW a \in 0 .. 3 * MaxBytes PROVE h[a] = Loaded(Records(t.hex), a)
  <2>1. a \in Int /\ h[a] = Loaded(Records(s.hex), a)
    BY DEF HexHas
  <2> QED
    BY <2>1 DEF Alike
<1> QED
  BY <1>1 DEF HexHas

-----------------------------------------------------------------------------
(* The steps.                                                              *)

\* What every step of the assembler begins with.
LEMMA Before ==
  ASSUME OutInv, phase = "assemble"
  PROVE  /\ want \in Want /\ emitted \in Nat /\ Good(io, want.taps, emitted) /\ address \in Int
         /\ ~io.fatal /\ FileHas(io, want.out) /\ want.created \in SUBSET io.toDelete
         /\ HexHas(io.hex, want.hex) /\ IoOK(io) /\ io \in Io
         /\ want.out \in Out /\ want.out.pos \in Int /\ want.out.data \in Stream
         /\ want.taps \in Seq(Stream)
         /\ want.hex \in [0 .. 3 * MaxBytes -> Byte] /\ want.created \in SUBSET Files
<1>1. Agree(io, want, emitted) /\ Assembling(io, want) /\ address \in Int
  BY DEF OutInv
<1>2. want \in Want
  BY <1>1 DEF Agree
<1>3. want.out \in Out /\ want.out.pos \in Int /\ want.out.data \in Stream /\ want.taps \in Seq(Stream)
      /\ want.hex \in [0 .. 3 * MaxBytes -> Byte] /\ want.created \in SUBSET Files
  BY <1>2, WantFields
<1> QED
  BY <1>1, <1>2, <1>3 DEF Agree, Assembling, Good, IoOK

LEMMA OutMoreType ==
  ASSUME NEW s, IoOK(s), NEW out \in Out, FileHas(s, out), NEW b \in Byte
  PROVE  OutMore(out, s, b) \in Out
<1>1. CASE s.fp = Closed
  BY <1>1 DEF OutMore
<1>2. CASE s.fp # Closed
  <2> DEFINE bs == <<b>>
             d == Overlay(out.data, out.pos, bs)
             p == out.pos + 1
  <2>1. s.fp.pos \in Nat /\ s.wb \in Stream
    BY <1>2, OpenPosition DEF IoOK, Io
  <2>2. Len(s.wb) \in Nat
    BY <2>1 DEF Stream
  <2>3. out.pos = s.fp.pos + Len(s.wb)
    BY <1>2 DEF FileHas
  <2>4. out.pos \in Nat /\ p \in Int
    BY <2>1, <2>2, <2>3
  <2>5. out.data \in Stream /\ bs \in Stream
    BY DEF Out, Stream
  <2>6. d \in Stream
    <3> HIDE DEF bs
    <3> QED
      BY <2>4, <2>5, OverlayType
  <2>7. OutMore(out, s, b) = [pos |-> p, data |-> d]
    BY <1>2 DEF OutMore
  <2> HIDE DEF p, d
  <2> QED
    BY <2>4, <2>6, <2>7 DEF Out
<1> QED
  BY <1>1, <1>2

LEMMA EmitByteStep ==
  ASSUME OutInv, EmitByte
  PROVE  OutInv'
<1> DEFINE b == {emitted + 1}
           u == Buffered(io, b)
           v == FlushDest(u)
           t == AlsoToHex(v, b, address)
           out == OutMore(want.out, io, b)
           taps == OneMore(want.taps, io, b)
           hex == IF io.hex.open THEN [want.hex EXCEPT ![address] = b] ELSE want.hex
           w == [out |-> out, taps |-> taps, hex |-> hex, created |-> want.created]
<1>1. phase = "assemble" /\ Go(t) /\ emitted' = emitted + 1 /\ address' = address + 1
      /\ want' = Wanted(want, b)
  BY DEF EmitByte, Go
<1>2. /\ want \in Want /\ emitted \in Nat /\ Good(io, want.taps, emitted) /\ address \in Int
      /\ ~io.fatal /\ FileHas(io, want.out) /\ want.created \in SUBSET io.toDelete
      /\ HexHas(io.hex, want.hex) /\ IoOK(io) /\ want.out \in Out /\ want.taps \in Seq(Stream)
      /\ want.hex \in [0 .. 3 * MaxBytes -> Byte] /\ want.created \in SUBSET Files
  BY <1>1, Before
<1>3. b \in Byte
  BY <1>2 DEF Byte
<1>4. want' = w
  <2>1. want' = [want EXCEPT !.out = out, !.taps = taps, !.hex = hex]
    BY <1>1 DEF Wanted, OutMore, OneMore
  <2> HIDE DEF out, taps, hex
  <2> QED
    BY <1>2, <2>1 DEF Want
<1> HIDE DEF b
<1>5. /\ Good(u, taps, emitted + 1) /\ Aside(io, u) /\ (u.fatal <=> io.fatal) /\ taps \in Seq(Stream)
      /\ FileHas(u, out)
  BY <1>2, BufferedKeeps DEF b
<1> HIDE DEF u
<1>6. out \in Out
  BY <1>2, <1>3, OutMoreType
<1> HIDE DEF out, taps
<1>7. Good(v, taps, emitted + 1) /\ Aside(io, v) /\ (v.fatal => Doomed(v)) /\ FileHas(v, out)
  <2>1. CASE v = u
    BY <1>2, <1>5, <2>1 DEF Aside
  <2>2. CASE v = WriteDest(u)
    <3>1. Good(v, taps, emitted + 1) /\ Flushed(u, v) /\ FileHas(v, out)
      BY <1>2, <1>5, <2>2, WriteDestKeeps
    <3> QED
      BY <1>5, <3>1 DEF Flushed, Aside
  <2> QED
    BY <2>1, <2>2 DEF FlushDest
<1> HIDE DEF v
<1>8. /\ Good(t, taps, emitted + 1) /\ OnlyHex(v, t) /\ FileHas(t, out)
      /\ hex \in [0 .. 3 * MaxBytes -> Byte] /\ (HexHas(t.hex, hex) \/ (t.fatal /\ Doomed(t)))
  <2>1. hex \in [0 .. 3 * MaxBytes -> Byte]
    BY <1>2, <1>3
  <2>2. CASE v.fatal
    <3>1. t = v
      BY <2>2 DEF AlsoToHex
    <3> QED
      BY <1>7, <2>1, <2>2, <3>1 DEF OnlyHex
  <2>3. CASE ~v.fatal
    <3>1. t = EmitToHex(v, b, address) /\ IoOK(v)
      BY <1>7, <2>3 DEF AlsoToHex, Good
    <3> HIDE DEF t
    <3>2. IoOK(t) /\ OnlyHex(v, t) /\ (v.hex.open => WithByte(v, t, b, address)) /\ (~v.hex.open => t = v)
      BY <1>2, <1>3, <3>1, EmitToHexKeeps
    <3>3. Good(t, taps, emitted + 1) /\ FileHas(t, out)
      BY <1>7, <3>2, OnlyHexKeeps
    <3>4. v.hex = io.hex
      BY <1>7 DEF Aside
    <3>5. HexHas(t.hex, hex)
      <4>1. CASE io.hex.open
        <5>1. hex = [want.hex EXCEPT ![address] = b] /\ HexHas(v.hex, want.hex) /\ WithByte(v, t, b, address)
          BY <1>2, <3>2, <3>4, <4>1
        <5> HIDE DEF hex
        <5> QED
          BY <1>2, <1>3, <5>1, HexMore
      <4>2. CASE ~io.hex.open
        BY <1>2, <3>2, <3>4, <4>2
      <4> QED
        BY <4>1, <4>2
    <3> QED
      BY <2>1, <3>2, <3>3, <3>5
  <2> QED
    BY <2>2, <2>3
<1> HIDE DEF t, hex
<1>9. w \in Want /\ w.out = out /\ w.taps = taps /\ w.hex = hex /\ w.created = want.created
  BY <1>2, <1>5, <1>6, <1>8 DEF Want
<1> HIDE DEF w
<1>10. t.toDelete = io.toDelete
  BY <1>7, <1>8 DEF Aside, OnlyHex
<1>11. Agree(t, w, emitted + 1)
  BY <1>2, <1>8, <1>9 DEF Agree
<1>12. t.fatal => Exiting(t, w)
  BY <1>2, <1>8, <1>9, <1>10 DEF Exiting
<1>13. ~t.fatal => Assembling(t, w)
  BY <1>2, <1>8, <1>9, <1>10 DEF Assembling
<1>14. address + 1 \in Int
  BY <1>2
<1> QED
  BY <1>1, <1>4, <1>11, <1>12, <1>13, <1>14, GoKeeps

LEMMA OrgStep ==
  ASSUME OutInv, NEW a \in Addresses, ORG(a)
  PROVE  OutInv'
<1>1. a \in Int
  BY OutputFilesAssumption
<1>2. address' = a /\ UNCHANGED <<io, emitted, phase, want>>
  BY DEF ORG
<1> QED
  BY <1>1, <1>2 DEF OutInv

LEMMA OutputStep ==
  ASSUME OutInv, NEW name \in Names, NEW mode, OUTPUT(name, mode)
  PROVE  OutInv'
<1> DEFINE d == CloseDest(io)
           t == OpenNext(d, name, mode)
           c == Created(d, name, mode)
           pos == IF c THEN 0 ELSE StartOf(d, name, mode)
           text == IF c THEN <<>> ELSE d.disk[name]
           out == [pos |-> pos, data |-> text]
           more == IF c THEN want.created \cup {name} ELSE want.created
           w == [out |-> out, taps |-> want.taps, hex |-> want.hex, created |-> more]
<1>1. phase = "assemble" /\ Go(t) /\ emitted' = emitted /\ address' = address
      /\ want' = Ordered(want, d, name, mode)
  BY DEF OUTPUT, Go
<1>2. /\ want \in Want /\ emitted \in Nat /\ Good(io, want.taps, emitted) /\ address \in Int
      /\ ~io.fatal /\ want.created \in SUBSET io.toDelete
      /\ HexHas(io.hex, want.hex) /\ want.taps \in Seq(Stream)
      /\ want.hex \in [0 .. 3 * MaxBytes -> Byte] /\ want.created \in SUBSET Files
  BY <1>1, Before
<1>3. Good(d, want.taps, emitted) /\ Ready(d) /\ Aside(io, d)
  BY <1>2, CloseDestKeeps
<1> HIDE DEF d
<1>4. CASE d.fatal
  <2>1. t = d /\ want' = want
    BY <1>1, <1>4 DEF OpenNext, Ordered
  <2>2. Doomed(d) /\ d.toDelete = io.toDelete
    BY <1>3, <1>4 DEF Ready, Aside
  <2> QED
    BY <1>1, <1>3, <1>4, <2>1, <2>2, SameWanted
<1>5. CASE ~d.fatal
  <2>1. t = OpenDest(d, name, mode) /\ d.wb = <<>>
    BY <1>3, <1>5 DEF OpenNext, Ready
  <2>2. want' = w
    <3>1. CASE c
      BY <1>1, <1>2, <1>5, <3>1 DEF Ordered, Want
    <3>2. CASE ~c
      BY <1>1, <1>2, <1>5, <3>2 DEF Ordered, Want
    <3> QED
      BY <3>1, <3>2
  <2> HIDE DEF t, c
  <2>3. /\ Good(t, want.taps, emitted) /\ t.hex = d.hex /\ ~t.fatal /\ t.wb = <<>>
        /\ d.toDelete \in SUBSET t.toDelete /\ (c => name \in t.toDelete)
        /\ t.fp.name = name /\ t.fp.pos = pos /\ t.disk[name] = text
    <3>1. want.taps \in Seq(Stream) /\ Good(d, want.taps, emitted) /\ ~d.fatal
      BY <1>2, <1>3, <1>5
    <3>2. Good(t, want.taps, emitted) /\ OpenedAs(d, t, name, mode)
      BY <2>1, <3>1, OpenDestKeeps
    <3> QED
      BY <3>2 DEF OpenedAs, c
  <2>4. pos \in Nat /\ text \in Stream
    <3>1. d.disk[name] \in Stream
      BY <1>3 DEF Good, IoOK
    <3>2. Len(d.disk[name]) \in Nat /\ <<>> \in Stream
      BY <3>1 DEF Stream
    <3> QED
      BY <3>1, <3>2 DEF StartOf
  <2>5. more \in SUBSET Files /\ more \in SUBSET t.toDelete
    <3>1. d.toDelete = io.toDelete /\ name \in Files
      BY <1>3, Constants DEF Aside
    <3> QED
      BY <1>2, <2>3, <3>1
  <2>6. out \in Out /\ out.pos = pos /\ out.data = text
    BY <2>4 DEF Out
  <2> HIDE DEF out, more, pos, text
  <2>7. w \in Want /\ w.out = out /\ w.taps = want.taps /\ w.hex = want.hex /\ w.created = more
    BY <1>2, <2>5, <2>6 DEF Want
  <2> HIDE DEF w
  <2>8. FileHas(t, out)
    <3>1. t.fp.pos \in Int
      BY <2>3, <2>4
    <3> QED
      BY <2>3, <2>6, <3>1, FileAt
  <2>9. HexHas(t.hex, want.hex)
    BY <1>2, <1>3, <2>3 DEF Aside
  <2>10. Agree(t, w, emitted)
    BY <1>2, <2>3, <2>7 DEF Agree
  <2>11. Assembling(t, w)
    BY <2>3, <2>5, <2>7, <2>8, <2>9 DEF Assembling
  <2> QED
    BY <1>1, <1>2, <2>2, <2>3, <2>10, <2>11, GoKeeps
<1> QED
  BY <1>4, <1>5

LEMMA OutendStep ==
  ASSUME OutInv, OUTEND
  PROVE  OutInv'
<1> DEFINE d == CloseDest(io)
<1>1. phase = "assemble" /\ Go(d) /\ UNCHANGED <<address, emitted, want>>
  BY DEF OUTEND, Go
<1>2. /\ Good(io, want.taps, emitted) /\ ~io.fatal /\ HexHas(io.hex, want.hex) /\ want.taps \in Seq(Stream)
  BY <1>1, Before
<1>3. Good(d, want.taps, emitted) /\ Ready(d) /\ Aside(io, d) /\ (~d.fatal => d.fp = Closed)
  BY <1>2, CloseDestKeeps
<1> HIDE DEF d
<1>4. ~d.fatal => FileHas(d, want.out)
  BY <1>3 DEF FileHas
<1>5. d.toDelete = io.toDelete /\ HexHas(d.hex, want.hex)
  BY <1>2, <1>3 DEF Aside
<1> QED
  BY <1>1, <1>3, <1>4, <1>5, SameWanted

LEMMA SizeStep ==
  ASSUME OutInv, NEW n \in FileSizes, SIZE(n)
  PROVE  OutInv'
<1> DEFINE t == IF io.size = -1 THEN [io EXCEPT !.size = n]
                ELSE IF io.size # n THEN [io EXCEPT !.errors = @ + 1] ELSE io
<1>1. phase = "assemble" /\ Go(t) /\ UNCHANGED <<address, emitted, want>>
  BY DEF SIZE, Go
<1>2. /\ Good(io, want.taps, emitted) /\ ~io.fatal /\ HexHas(io.hex, want.hex) /\ want.taps \in Seq(Stream)
      /\ FileHas(io, want.out) /\ io \in Io /\ IoOK(io)
  BY <1>1, Before
<1>3. n \in Int
  BY OutputFilesAssumption
<1>4. /\ Good(t, want.taps, emitted) /\ t.toDelete = io.toDelete /\ t.hex = io.hex
      /\ FileHas(t, want.out)
  <2>1. CASE t = io
    BY <1>2, <2>1
  <2>2. CASE t = [io EXCEPT !.size = n]
    <3> HIDE DEF t
    <3>1. t \in Io /\ t.hex = io.hex /\ t.toDelete = io.toDelete
          /\ t.disk = io.disk /\ t.fp = io.fp /\ t.wb = io.wb /\ t.raw = io.raw /\ t.tap = io.tap
      BY <1>2, <1>3, <2>2 DEF Io
    <3> QED
      BY <1>2, <3>1 DEF Good, IoOK, TapeHas, RawHas, FileHas
  <2>3. CASE t = [io EXCEPT !.errors = @ + 1]
    <3> HIDE DEF t
    <3>1. /\ IoOK(t) /\ Aside(io, t) /\ TapeHas(t, want.taps) /\ RawHas(t, emitted) /\ FileHas(t, want.out)
      BY <1>2, <2>3, MoreErrors DEF Good
    <3> QED
      BY <3>1 DEF Good, Aside
  <2> QED
    BY <2>1, <2>2, <2>3
<1> HIDE DEF t
<1> QED
  BY <1>1, <1>2, <1>4, SameWanted

LEMMA FposStep ==
  ASSUME OutInv, NEW n \in Positions, NEW relative \in BOOLEAN, FPOS(n, relative)
  PROVE  OutInv'
<1> DEFINE t == SeekDest(io, n, relative)
           p == IF relative THEN want.out.pos + n ELSE n
           out == [pos |-> p, data |-> want.out.data]
           w == [out |-> out, taps |-> want.taps, hex |-> want.hex, created |-> want.created]
<1>1. /\ phase = "assemble" /\ Go(t) /\ emitted' = emitted /\ address' = address
      /\ want' = IF io.fp = Closed THEN want ELSE [want EXCEPT !.out.pos = p]
  BY DEF FPOS, Go
<1>2. /\ want \in Want /\ emitted \in Nat /\ Good(io, want.taps, emitted) /\ address \in Int
      /\ ~io.fatal /\ FileHas(io, want.out) /\ want.created \in SUBSET io.toDelete
      /\ HexHas(io.hex, want.hex) /\ want.taps \in Seq(Stream) /\ want.out \in Out
      /\ want.out.pos \in Int /\ want.out.data \in Stream
      /\ want.hex \in [0 .. 3 * MaxBytes -> Byte] /\ want.created \in SUBSET Files
  BY <1>1, Before
<1>3. n \in Int
  BY OutputFilesAssumption
<1>4. p \in Int
  BY <1>2, <1>3
<1>5. /\ Good(t, want.taps, emitted) /\ Aside(io, t)
      /\ (io.fp = Closed /\ ~t.fatal => t.fp = Closed)
      /\ (io.fp # Closed /\ ~t.fatal =>
            t.wb = <<>> /\ t.fp # Closed /\ t.fp.pos = p /\ p \in Int
            /\ t.disk[t.fp.name] = want.out.data)
  BY <1>2, <1>3, SeekDestKeeps
<1> HIDE DEF t, p
<1>6. t.toDelete = io.toDelete /\ HexHas(t.hex, want.hex)
  BY <1>2, <1>5 DEF Aside
<1>7. CASE io.fp = Closed
  <2>1. ~t.fatal => FileHas(t, want.out)
    BY <1>5, <1>7 DEF FileHas
  <2>2. Agree(t, want, emitted)
    BY <1>2, <1>5 DEF Agree
  <2>3. t.fatal => Exiting(t, want)
    BY <1>2, <1>6 DEF Exiting
  <2>4. ~t.fatal => Assembling(t, want)
    BY <1>2, <1>6, <2>1 DEF Assembling
  <2>5. want' = want
    BY <1>1, <1>7
  <2> QED
    BY <1>1, <1>2, <2>2, <2>3, <2>4, <2>5, GoKeeps
<1>8. CASE io.fp # Closed
  <2>1. want' = w
    <3>1. [want.out EXCEPT !.pos = p] = out
      BY <1>2 DEF Out
    <3>2. want' = [want EXCEPT !.out.pos = p]
      BY <1>1, <1>8
    <3> HIDE DEF out
    <3>3. want' = [want EXCEPT !.out = out]
      BY <1>2, <3>1, <3>2 DEF Want
    <3> QED
      BY <1>2, <3>3 DEF Want
  <2>2. out \in Out /\ out.pos = p /\ out.data = want.out.data
    BY <1>2, <1>4 DEF Out
  <2> HIDE DEF out
  <2>3. w \in Want /\ w.out = out /\ w.taps = want.taps /\ w.hex = want.hex /\ w.created = want.created
    BY <1>2, <2>2 DEF Want
  <2> HIDE DEF w
  <2>4. ~t.fatal => FileHas(t, out)
    <3> SUFFICES ASSUME ~t.fatal PROVE FileHas(t, out)
      OBVIOUS
    <3>1. t.wb = <<>> /\ t.fp.pos = p /\ p \in Int /\ t.disk[t.fp.name] = out.data
      BY <1>5, <1>8, <2>2
    <3> QED
      BY <2>2, <3>1, FileAt
  <2>5. Agree(t, w, emitted)
    BY <1>2, <1>5, <2>3 DEF Agree
  <2>6. t.fatal => Exiting(t, w)
    BY <1>2, <1>6, <2>3 DEF Exiting
  <2>7. ~t.fatal => Assembling(t, w)
    BY <1>2, <1>6, <2>3, <2>4 DEF Assembling
  <2> QED
    BY <1>1, <1>2, <2>1, <2>5, <2>6, <2>7, GoKeeps
<1> QED
  BY <1>7, <1>8

LEMMA EmptytapStep ==
  ASSUME OutInv, EMPTYTAP
  PROVE  OutInv'
<1> DEFINE t == [io EXCEPT !.disk[Tape] = <<>>, !.exists = @ \cup {Tape}, !.toDelete = @ \cup {Tape}]
           none == <<>>
           more == want.created \cup {Tape}
           w == [out |-> want.out, taps |-> none, hex |-> want.hex, created |-> more]
<1>1. /\ phase = "assemble" /\ ~io.tap.open /\ Go(t) /\ emitted' = emitted /\ address' = address
      /\ want' = [want EXCEPT !.taps = none, !.created = more]
  BY DEF EMPTYTAP, Go
<1>2. /\ want \in Want /\ emitted \in Nat /\ Good(io, want.taps, emitted) /\ address \in Int
      /\ ~io.fatal /\ FileHas(io, want.out) /\ want.created \in SUBSET io.toDelete
      /\ HexHas(io.hex, want.hex) /\ want.taps \in Seq(Stream) /\ want.out \in Out
      /\ want.hex \in [0 .. 3 * MaxBytes -> Byte] /\ want.created \in SUBSET Files
  BY <1>1, Before
<1>3. /\ Good(t, none, emitted) /\ t.hex = io.hex /\ (t.fatal <=> io.fatal)
      /\ io.toDelete \in SUBSET t.toDelete /\ Tape \in t.toDelete /\ FileHas(t, want.out)
  <2>1. want.taps \in Seq(Stream) /\ Good(io, want.taps, emitted) /\ ~io.tap.open
    BY <1>1, <1>2
  <2>2. t = [io EXCEPT !.disk[Tape] = <<>>, !.exists = @ \cup {Tape}, !.toDelete = @ \cup {Tape}]
    OBVIOUS
  <2> HIDE DEF t
  <2>3. Emptied(io, t, emitted)
    BY <2>1, <2>2, EmptyTapeKeeps
  <2> QED
    BY <1>2, <2>3 DEF Emptied
<1>4. more \in SUBSET Files /\ more \in SUBSET t.toDelete
  <2> HIDE DEF t
  <2> QED
    BY <1>2, <1>3, Constants
<1>5. none \in Seq(Stream)
  OBVIOUS
<1> HIDE DEF t, none, more
<1>6. want' = w
  BY <1>1, <1>2 DEF Want
<1>7. w \in Want /\ w.out = want.out /\ w.taps = none /\ w.hex = want.hex /\ w.created = more
  BY <1>2, <1>4, <1>5 DEF Want
<1> HIDE DEF w
<1>8. Agree(t, w, emitted)
  BY <1>2, <1>3, <1>7 DEF Agree
<1>9. Assembling(t, w) /\ ~t.fatal
  BY <1>2, <1>3, <1>4, <1>7 DEF Assembling
<1> QED
  BY <1>1, <1>2, <1>6, <1>8, <1>9, GoKeeps

LEMMA TapoutStep ==
  ASSUME OutInv, TAPOUT
  PROVE  OutInv'
<1> DEFINE flag == {0}
           t == OpenTapFile(io, flag)
           taps == Started(want.taps, t)
           w == [out |-> want.out, taps |-> taps, hex |-> want.hex, created |-> want.created]
<1>1. /\ phase = "assemble" /\ Go(t) /\ emitted' = emitted /\ address' = address
      /\ want' = IF io'.tap.open /\ ~io'.fatal THEN [want EXCEPT !.taps = Append(@, <<>>)] ELSE want
      /\ io' = t
  BY DEF TAPOUT, Go
<1>2. /\ want \in Want /\ emitted \in Nat /\ Good(io, want.taps, emitted) /\ address \in Int
      /\ ~io.fatal /\ FileHas(io, want.out) /\ want.created \in SUBSET io.toDelete
      /\ HexHas(io.hex, want.hex) /\ want.taps \in Seq(Stream) /\ want.out \in Out
      /\ want.hex \in [0 .. 3 * MaxBytes -> Byte] /\ want.created \in SUBSET Files
  BY <1>1, Before
<1>3. flag \in Byte
  BY DEF Byte
<1> HIDE DEF flag
<1>4. /\ Good(t, taps, emitted) /\ Flushed(io, t) /\ taps \in Seq(Stream) /\ FileHas(t, want.out)
  BY <1>2, <1>3, OpenTapFileKeeps
<1> HIDE DEF t
<1>5. want' = w
  <2>1. CASE t.tap.open /\ ~t.fatal
    <3>1. want' = [want EXCEPT !.taps = taps]
      BY <1>1, <2>1 DEF Started
    <3> HIDE DEF taps
    <3> QED
      BY <1>2, <3>1 DEF Want
  <2>2. CASE ~(t.tap.open /\ ~t.fatal)
    <3>1. want' = want /\ taps = want.taps
      BY <1>1, <2>2 DEF Started
    <3> HIDE DEF taps
    <3> QED
      BY <1>2, <3>1 DEF Want
  <2> QED
    BY <2>1, <2>2
<1> HIDE DEF taps
<1>6. w \in Want /\ w.out = want.out /\ w.taps = taps /\ w.hex = want.hex /\ w.created = want.created
  BY <1>2, <1>4 DEF Want
<1> HIDE DEF w
<1>7. t.hex = io.hex /\ t.toDelete = io.toDelete
  BY <1>4 DEF Flushed, Aside
<1>8. Agree(t, w, emitted)
  BY <1>2, <1>4, <1>6 DEF Agree
<1>9. t.fatal => Exiting(t, w)
  BY <1>2, <1>6, <1>7 DEF Exiting
<1>10. ~t.fatal => Assembling(t, w)
  BY <1>2, <1>4, <1>6, <1>7 DEF Assembling
<1> QED
  BY <1>1, <1>2, <1>5, <1>8, <1>9, <1>10, GoKeeps

LEMMA TapendStep ==
  ASSUME OutInv, TAPEND
  PROVE  OutInv'
<1> DEFINE t == CloseTapFile(io)
<1>1. phase = "assemble" /\ Go(t) /\ UNCHANGED <<address, emitted, want>>
  BY DEF TAPEND, Go
<1>2. /\ Good(io, want.taps, emitted) /\ ~io.fatal /\ HexHas(io.hex, want.hex) /\ want.taps \in Seq(Stream)
      /\ FileHas(io, want.out)
  BY <1>1, Before
<1>3. Good(t, want.taps, emitted) /\ Flushed(io, t) /\ FileHas(t, want.out)
  BY <1>2, CloseTapFileKeeps
<1> HIDE DEF t
<1>4. t.toDelete = io.toDelete /\ HexHas(t.hex, want.hex)
  BY <1>2, <1>3 DEF Flushed, Aside
<1> QED
  BY <1>1, <1>3, <1>4, SameWanted

\* A file begins: no record, and nothing is wanted yet.
LEMMA LoadedNothing ==
  ASSUME NEW h, h.records = <<>>, h.bytes = <<>>, h.address \in Int, NEW a \in Int
  PROVE  Loaded(Records(h), a) = {}
<1> DEFINE r == [address |-> h.address, data |-> h.bytes]
           all == Records(h)
<1>1. r.address = h.address /\ r.data = <<>>
  BY DEF r
<1>2. all = <<r>>
  BY DEF Records
<1> HIDE DEF r
<1>3. DOMAIN all = {1} /\ all[1] = r
  BY <1>2
<1> HIDE DEF all
<1>4. Len(r.data) = 0
  BY <1>1
<1>5. ~(r.address <= a /\ a < r.address + Len(r.data))
  BY <1>1, <1>4
<1>6. Covering(all, a) = {}
  BY <1>3, <1>5 DEF Covering
<1> QED
  BY <1>6 DEF Loaded, all

LEMMA HexoutStep ==
  ASSUME OutInv, HEXOUT
  PROVE  OutInv'
<1>1. /\ phase = "assemble" /\ emitted' = emitted /\ address' = address
  BY DEF HEXOUT, Go
<1>2. /\ want \in Want /\ emitted \in Nat /\ Good(io, want.taps, emitted) /\ address \in Int
      /\ ~io.fatal /\ FileHas(io, want.out) /\ want.created \in SUBSET io.toDelete
      /\ HexHas(io.hex, want.hex) /\ want.taps \in Seq(Stream) /\ want.out \in Out
      /\ want.hex \in [0 .. 3 * MaxBytes -> Byte] /\ want.created \in SUBSET Files
      /\ IoOK(io) /\ io \in Io
  BY <1>1, Before
<1>3. CASE io.hex.open
  <2> DEFINE t == [io EXCEPT !.errors = @ + 1]
  <2>1. Go(t) /\ want' = want
    BY <1>3 DEF HEXOUT
  <2>2. /\ IoOK(t) /\ Aside(io, t) /\ TapeHas(t, want.taps) /\ RawHas(t, emitted) /\ FileHas(t, want.out)
        /\ (t.fatal <=> io.fatal)
    BY <1>2, MoreErrors DEF Good
  <2> HIDE DEF t
  <2>3. Good(t, want.taps, emitted) /\ t.toDelete = io.toDelete /\ HexHas(t.hex, want.hex)
    BY <1>2, <2>2 DEF Good, Aside
  <2> QED
    BY <1>1, <2>1, <2>2, <2>3, SameWanted
<1>4. CASE ~io.hex.open
  <2> DEFINE yes == TRUE
             none == <<>>
             h == [open |-> yes, bytes |-> none, address |-> io.hex.address, records |-> none]
             t == [io EXCEPT !.hex = h]
             hex == [a \in DOMAIN want.hex |-> {}]
             w == [out |-> want.out, taps |-> want.taps, hex |-> hex, created |-> want.created]
  <2>1. Go(t) /\ want' = [want EXCEPT !.hex = hex]
    BY <1>4 DEF HEXOUT
  <2>2. h \in Hex /\ h.bytes = <<>> /\ h.records = <<>> /\ h.address \in Int
    BY <1>2 DEF Io, Hex, Stream
  <2> HIDE DEF h
  <2>3. IoOK(t) /\ OnlyHex(io, t) /\ t.hex = h
    BY <1>2, <2>2, OtherHex
  <2>4. Good(t, want.taps, emitted) /\ FileHas(t, want.out)
    BY <1>2, <2>3, OnlyHexKeeps
  <2> HIDE DEF t
  <2>5. hex \in [0 .. 3 * MaxBytes -> Byte] /\ HexHas(t.hex, hex)
    <3>1. {} \in Byte
      BY DEF Byte
    <3>2. ASSUME NEW a \in 0 .. 3 * MaxBytes PROVE hex[a] = Loaded(Records(h), a)
      <4>1. Loaded(Records(h), a) = {}
        BY <2>2, LoadedNothing
      <4> QED
        BY <1>2, <4>1
    <3>3. hex \in [0 .. 3 * MaxBytes -> Byte]
      BY <1>2, <3>1
    <3> HIDE DEF hex
    <3> QED
      BY <2>3, <3>2, <3>3 DEF HexHas
  <2> HIDE DEF hex
  <2>6. want' = w
    BY <1>2, <2>1 DEF Want
  <2>7. w \in Want /\ w.out = want.out /\ w.taps = want.taps /\ w.hex = hex /\ w.created = want.created
    BY <1>2, <2>5 DEF Want
  <2> HIDE DEF w
  <2>8. Agree(t, w, emitted)
    BY <1>2, <2>4, <2>7 DEF Agree
  <2>9. Assembling(t, w) /\ ~t.fatal
    BY <1>2, <2>3, <2>4, <2>5, <2>7 DEF Assembling, OnlyHex
  <2> QED
    BY <1>1, <1>2, <2>1, <2>6, <2>8, <2>9, GoKeeps
<1> QED
  BY <1>3, <1>4

LEMMA HexendStep ==
  ASSUME OutInv, HEXEND
  PROVE  OutInv'
<1> DEFINE t == IF io.hex.open THEN CloseHex(io) ELSE [io EXCEPT !.errors = @ + 1]
<1>1. phase = "assemble" /\ Go(t) /\ UNCHANGED <<address, emitted, want>>
  BY DEF HEXEND, Go
<1>2. /\ Good(io, want.taps, emitted) /\ ~io.fatal /\ HexHas(io.hex, want.hex)
      /\ want.hex \in [0 .. 3 * MaxBytes -> Byte] /\ FileHas(io, want.out) /\ IoOK(io)
  BY <1>1, Before
<1>3. /\ Good(t, want.taps, emitted) /\ FileHas(t, want.out) /\ t.toDelete = io.toDelete
      /\ HexHas(t.hex, want.hex)
  <2>1. CASE io.hex.open
    <3>1. t = CloseHex(io)
      BY <2>1
    <3> HIDE DEF t
    <3>2. IoOK(t) /\ OnlyHex(io, t) /\ Alike(io, t)
      BY <1>2, <3>1, CloseHexKeeps
    <3>3. Good(t, want.taps, emitted) /\ FileHas(t, want.out)
      BY <1>2, <3>2, OnlyHexKeeps
    <3> QED
      BY <1>2, <3>2, <3>3, HexAlike DEF OnlyHex
  <2>2. CASE ~io.hex.open
    <3>1. t = [io EXCEPT !.errors = @ + 1]
      BY <2>2
    <3> HIDE DEF t
    <3>2. /\ IoOK(t) /\ Aside(io, t) /\ TapeHas(t, want.taps) /\ RawHas(t, emitted) /\ FileHas(t, want.out)
      BY <1>2, <3>1, MoreErrors DEF Good
    <3> QED
      BY <1>2, <3>2 DEF Good, Aside
  <2> QED
    BY <2>1, <2>2
<1> HIDE DEF t
<1> QED
  BY <1>1, <1>3, SameWanted

LEMMA FinishStep ==
  ASSUME OutInv, Finish
  PROVE  OutInv'
<1> DEFINE no == FALSE
           s == [io EXCEPT !.fatal = no]
           c == Close(s)
           t == Finished(c)
<1>1. /\ phase \in {"assemble", "exit"} /\ io' = t /\ UNCHANGED <<address, emitted, budget, want>>
      /\ phase' = IF ~t.fatal THEN "done" ELSE IF io.depth = StackLimit THEN "crashed" ELSE "exit"
  BY DEF Finish
<1>2. /\ want \in Want /\ emitted \in Nat /\ Good(io, want.taps, emitted) /\ address \in Int
      /\ IoOK(io) /\ want.taps \in Seq(Stream) /\ want.created \in SUBSET Files
      /\ want.hex \in [0 .. 3 * MaxBytes -> Byte]
  <2>1. Agree(io, want, emitted) /\ address \in Int
    BY DEF OutInv
  <2>2. want \in Want
    BY <2>1 DEF Agree
  <2> QED
    BY <2>1, <2>2, WantFields DEF Agree, Good
<1>3. want.created \in SUBSET io.toDelete /\ (HexHas(io.hex, want.hex) \/ Doomed(io))
  <2>1. CASE phase = "assemble"
    BY <2>1 DEF OutInv, Assembling
  <2>2. CASE phase = "exit"
    BY <2>2 DEF OutInv, Exiting
  <2> QED
    BY <1>1, <2>1, <2>2
<1>4. no \in BOOLEAN /\ ~no
  OBVIOUS
<1> HIDE DEF no
<1>5. IoOK(s) /\ Aside(io, s) /\ ~s.fatal /\ Good(s, want.taps, emitted) /\ (Doomed(io) => Doomed(s))
  BY <1>2, <1>4, WithFatal
<1> HIDE DEF s
<1>6. /\ Good(c, want.taps, emitted) /\ c.toDelete = s.toDelete /\ c.exists = s.exists /\ Alike(s, c)
      /\ (c.fatal => Doomed(c)) /\ (~c.fatal => c.wb = <<>>) /\ (Doomed(s) => c.fatal)
  BY <1>2, <1>5, CloseKeeps
<1> HIDE DEF c
<1>7. IoOK(c) /\ c \in Io /\ c.toDelete = io.toDelete
  BY <1>5, <1>6 DEF Good, IoOK, Aside
<1>8. CASE c.fatal
  <2> DEFINE d == c.depth + 1
  <2>1. d \in Nat
    BY <1>7 DEF Io
  <2>2. t = [c EXCEPT !.depth = d]
    BY <1>8 DEF Finished, Deeper
  <2> HIDE DEF d, t
  <2>3. t \in Io /\ t.toDelete = c.toDelete /\ t.disk = c.disk /\ t.fp = c.fp /\ t.wb = c.wb /\ t.raw = c.raw
        /\ t.tap = c.tap /\ (t.fatal <=> c.fatal) /\ t.hex = c.hex
    BY <1>7, <2>1, <2>2 DEF Io
  <2>4. Good(t, want.taps, emitted)
    BY <1>6, <1>7, <2>3 DEF Good, IoOK, TapeHas, RawHas
  <2>5. Doomed(t) /\ want.created \in SUBSET t.toDelete
    BY <1>3, <1>6, <1>7, <1>8, <2>3 DEF Doomed
  <2>6. Agree(t, want, emitted) /\ Exiting(t, want)
    BY <1>2, <2>4, <2>5 DEF Agree, Exiting
  <2>7. phase' = "crashed" \/ phase' = "exit"
    BY <1>1, <1>8, <2>3
  <2>8. phase' \in Phases /\ phase' # "assemble" /\ phase' # "done"
    BY <2>7 DEF Phases
  <2> QED
    BY <1>1, <1>2, <2>6, <2>8 DEF OutInv
<1>9. CASE ~c.fatal
  <2>1. t = DeleteOnError(c)
    BY <1>9 DEF Finished
  <2>2. HexHas(c.hex, want.hex)
    <3>1. HexHas(io.hex, want.hex)
      BY <1>3, <1>5, <1>6, <1>9
    <3>2. HexHas(s.hex, want.hex)
      BY <1>5, <3>1 DEF Aside
    <3> QED
      BY <1>2, <1>6, <3>2, HexAlike
  <2>3. /\ t \in Io /\ t.disk = c.disk /\ t.fp = c.fp /\ t.wb = c.wb /\ t.raw = c.raw
        /\ t.tap = c.tap /\ (t.fatal <=> c.fatal) /\ t.hex = c.hex /\ t.errors = c.errors
        /\ (CleanOnError /\ c.errors > 0 => t.exists = c.exists \ c.toDelete)
    <3>1. CASE c.errors = 0 \/ ~CleanOnError
      <4>1. t = c
        BY <2>1, <3>1 DEF DeleteOnError
      <4>2. ~(CleanOnError /\ c.errors > 0)
        BY <3>1
      <4> QED
        BY <1>7, <4>1, <4>2
    <3>2. CASE ~(c.errors = 0 \/ ~CleanOnError)
      <4> DEFINE e == c.exists \ c.toDelete
                 none == {}
      <4>1. t = [c EXCEPT !.exists = e, !.toDelete = none]
        BY <2>1, <3>2 DEF DeleteOnError
      <4>2. e \in SUBSET Files /\ none \in SUBSET Files
        BY <1>7 DEF Io
      <4> HIDE DEF e, none, t
      <4>3. /\ t \in Io /\ t.disk = c.disk /\ t.fp = c.fp /\ t.wb = c.wb /\ t.raw = c.raw
            /\ t.tap = c.tap /\ (t.fatal <=> c.fatal) /\ t.hex = c.hex /\ t.errors = c.errors
            /\ t.exists = e
        BY <1>7, <4>1, <4>2 DEF Io
      <4> QED
        BY <4>3 DEF e
    <3> QED
      BY <3>1, <3>2
  <2> HIDE DEF t
  <2>4. Good(t, want.taps, emitted)
    BY <1>6, <1>7, <2>3 DEF Good, IoOK, TapeHas, RawHas
  <2>5. ASSUME CleanOnError /\ t.errors > 0, NEW name \in want.created PROVE name \notin t.exists
    BY <1>3, <1>7, <2>3, <2>5
  <2>6. Ended(t, want)
    BY <1>6, <1>9, <2>2, <2>3, <2>5 DEF Ended
  <2>7. Agree(t, want, emitted)
    BY <1>2, <2>4 DEF Agree
  <2>8. phase' = "done"
    BY <1>1, <1>9, <2>3
  <2>9. phase' \in Phases /\ phase' # "assemble" /\ phase' # "exit"
    BY <2>8 DEF Phases
  <2> QED
    BY <1>1, <1>2, <2>6, <2>7, <2>9 DEF OutInv
<1> QED
  BY <1>8, <1>9

LEMMA OutInitInv ==
  ASSUME OutInit
  PROVE  OutInv
<1> DEFINE none == <<>>
           nobody == {}
           zero == 0
           all == -1
           no == FALSE
           disk == [n \in Names \cup {Tape} |-> none]
           hex == [open |-> no, bytes |-> none, address |-> zero, records |-> none]
           out == [pos |-> zero, data |-> none]
           file == [a \in 0 .. 3 * MaxBytes |-> nobody]
<1>1. /\ io = [disk |-> disk, exists |-> nobody, wb |-> none, fp |-> Closed, destlen |-> zero,
               size |-> all, tap |-> NoTape, raw |-> none, hex |-> hex, errors |-> zero,
               toDelete |-> nobody, fatal |-> no, depth |-> zero]
      /\ want = [out |-> out, taps |-> none, hex |-> file, created |-> nobody]
      /\ address = 0 /\ emitted = 0 /\ phase = "assemble"
  BY DEF OutInit
<1>2. none \in Stream /\ none \in Seq(Block) /\ none \in Seq(Stream) /\ none \in Seq(HexRecord)
      /\ nobody \in Byte /\ nobody \in SUBSET Files /\ zero \in Nat /\ zero \in Int /\ all \in Int
      /\ no \in BOOLEAN /\ ~no /\ none \o none = none /\ Len(none) = 0 /\ Holds(none, none)
  <2>1. none \in Stream /\ Holds(none, none)
    BY HoldsNothing
  <2>2. none \in Seq(Block) /\ none \in Seq(Stream) /\ none \in Seq(HexRecord) /\ none \o none = none
        /\ Len(none) = 0
    OBVIOUS
  <2>3. nobody \in Byte /\ nobody \in SUBSET Files /\ zero \in Nat /\ zero \in Int /\ all \in Int
        /\ no \in BOOLEAN /\ ~no
    BY DEF Byte
  <2> HIDE DEF none, nobody, zero, all, no
  <2> QED
    BY <2>1, <2>2, <2>3
<1>3. NoTape \in TapeOut /\ ~NoTape.open
  BY DEF NoTape, TapeOut, Stream, Byte
<1>4. Closed \in Position
  BY DEF Position
<1>5. Numbers(0) = none
  BY DEF Numbers
<1> HIDE DEF none, nobody, zero, all, no
<1>6. hex \in Hex /\ hex.bytes = none /\ hex.records = none /\ hex.address = zero
  BY <1>2 DEF Hex
<1>7. disk \in [Files -> Contents] /\ \A n \in Files : disk[n] = none
  BY <1>2 DEF Files, Contents
<1>8. file \in [0 .. 3 * MaxBytes -> Byte] /\ HexHas(hex, file)
  <2>1. ASSUME NEW a \in 0 .. 3 * MaxBytes PROVE file[a] = Loaded(Records(hex), a)
    <3>1. Loaded(Records(hex), a) = {}
      <4> HIDE DEF hex
      <4> QED
        BY <1>2, <1>6, LoadedNothing DEF none
    <3> QED
      BY <3>1 DEF nobody
  <2>2. file \in [0 .. 3 * MaxBytes -> Byte]
    BY <1>2
  <2> HIDE DEF file, hex
  <2> QED
    BY <2>1, <2>2 DEF HexHas
<1>9. out \in Out /\ out.pos = zero /\ out.data = none
  BY <1>2 DEF Out
<1> HIDE DEF hex, disk, file, out
<1>10. /\ io \in Io /\ io.disk = disk /\ io.wb = none /\ io.fp = Closed /\ io.tap = NoTape
       /\ io.raw = none /\ io.hex = hex /\ ~io.fatal /\ io.toDelete = nobody
  BY <1>1, <1>2, <1>3, <1>4, <1>6, <1>7 DEF Io
<1>11. /\ want \in Want /\ want.out = out /\ want.taps = none /\ want.hex = file /\ want.created = nobody
  BY <1>1, <1>2, <1>8, <1>9 DEF Want
<1>12. IoOK(io)
  <2>1. io.disk[Tape] = none /\ \A name \in Names : io.disk[name] = none
    BY <1>7, <1>10, Constants
  <2> QED
    BY <1>2, <1>3, <1>10, <2>1 DEF IoOK
<1>13. TapeHas(io, none)
  <2>1. io.disk[Tape] = none /\ ~io.tap.open
    BY <1>3, <1>7, <1>10, Constants
  <2>2. Len(none) = Len(io.disk[Tape]) + (IF io.tap.open THEN 1 ELSE 0)
    BY <1>2, <2>1
  <2>3. 1 .. Len(io.disk[Tape]) = {}
    BY <1>2, <2>1
  <2> QED
    BY <2>1, <2>2, <2>3 DEF TapeHas
<1>14. RawHas(io, 0)
  BY <1>2, <1>5, <1>10 DEF RawHas
<1>15. Good(io, none, 0) /\ 0 \in Nat
  BY <1>12, <1>13, <1>14 DEF Good
<1>16. Agree(io, want, 0)
  BY <1>11, <1>15 DEF Agree
<1>17. Assembling(io, want)
  <2>1. FileHas(io, want.out)
    BY <1>10 DEF FileHas
  <2>2. want.created \in SUBSET io.toDelete
    BY <1>10, <1>11
  <2>3. HexHas(io.hex, want.hex)
    BY <1>8, <1>10, <1>11
  <2> QED
    BY <1>10, <2>1, <2>2, <2>3 DEF Assembling
<1>18. phase \in Phases /\ phase # "exit" /\ phase # "done"
  BY <1>1 DEF Phases
<1> QED
  BY <1>1, <1>16, <1>17, <1>18 DEF OutInv

LEMMA OutNextInv ==
  ASSUME OutInv, [OutNext]_outVars
  PROVE  OutInv'
<1>1. CASE EmitByte
  BY <1>1, EmitByteStep
<1>2. ASSUME NEW a \in Addresses, ORG(a) PROVE OutInv'
  BY <1>2, OrgStep
<1>3. ASSUME NEW name \in Names, NEW mode \in {"t", "r", "a"}, OUTPUT(name, mode) PROVE OutInv'
  BY <1>3, OutputStep
<1>4. CASE OUTEND
  BY <1>4, OutendStep
<1>5. ASSUME NEW n \in FileSizes, SIZE(n) PROVE OutInv'
  BY <1>5, SizeStep
<1>6. ASSUME NEW n \in Positions, NEW relative \in BOOLEAN, FPOS(n, relative) PROVE OutInv'
  BY <1>6, FposStep
<1>7. CASE EMPTYTAP
  BY <1>7, EmptytapStep
<1>8. CASE TAPOUT
  BY <1>8, TapoutStep
<1>9. CASE TAPEND
  BY <1>9, TapendStep
<1>10. CASE HEXOUT
  BY <1>10, HexoutStep
<1>11. CASE HEXEND
  BY <1>11, HexendStep
<1>12. CASE Finish
  BY <1>12, FinishStep
<1>13. CASE UNCHANGED outVars
  BY <1>13 DEF outVars, OutInv
<1> QED
  BY <1>1, <1>2, <1>3, <1>4, <1>5, <1>6, <1>7, <1>8, <1>9, <1>10, <1>11, <1>12, <1>13 DEF OutNext

-----------------------------------------------------------------------------
(* What the invariant says of the files.                                   *)

LEMMA InvOutputIsStream ==
  ASSUME OutInv
  PROVE  OutputIsStream
<1> SUFFICES ASSUME phase = "assemble", io.fp # Closed
             PROVE  Overlay(io.disk[io.fp.name], io.fp.pos, io.wb) = want.out.data
  BY DEF OutputIsStream
<1> QED
  BY Before DEF FileHas

LEMMA InvTapeBlocks ==
  ASSUME OutInv
  PROVE  TapeBlocksAreSound
<1> SUFFICES ASSUME NEW k \in DOMAIN io.disk[Tape]
             PROVE  Sound(io.disk[Tape][k], want.taps[k])
  BY DEF TapeBlocksAreSound
<1>1. io.disk[Tape] \in Seq(Block) /\ TapeHas(io, want.taps)
  BY DEF OutInv, Agree, Good, IoOK
<1>2. k \in 1 .. Len(io.disk[Tape])
  BY <1>1
<1> QED
  BY <1>1, <1>2 DEF TapeHas

LEMMA InvRawIsComplete ==
  ASSUME OutInv
  PROVE  RawIsComplete
<1> SUFFICES ASSUME phase = "done"
             PROVE  Holds(io.raw, [n \in 1 .. emitted |-> {n}])
  BY DEF RawIsComplete
<1>1. io.wb = <<>> /\ RawHas(io, emitted) /\ io.raw \in Stream
  BY DEF OutInv, Agree, Good, IoOK, Io, Ended
<1>2. io.raw \o io.wb = io.raw
  BY <1>1 DEF Stream
<1> QED
  BY <1>1, <1>2 DEF RawHas, Numbers

LEMMA InvHexHasLastBytes ==
  ASSUME OutInv
  PROVE  HexHasLastBytes
BY DEF OutInv, Assembling, Ended, HexHas, HexHasLastBytes

LEMMA InvNothingLeftBehind ==
  ASSUME OutInv
  PROVE  NothingLeftBehind
BY DEF OutInv, Ended, NothingLeftBehind

\* What the buffers and the files hold together, for every source and every size of a buffer,
\* of a tape block and of a HEX record: no flush (WriteDest) loses or doubles a byte of any
\* stream, the open block of TAPOUT has its length and parity, and what is created is
\* registered with AddDeleteOnError as long as an error may still happen.
THEOREM OutputFilesInvariant == OutSpec => []OutInv
<1>1. OutInit => OutInv
  BY OutInitInv
<1>2. OutInv /\ [OutNext]_outVars => OutInv'
  BY OutNextInv
<1> QED
  BY <1>1, <1>2, PTL DEF OutSpec

\* The output file is what the emitted bytes, OUTPUT and FPOS ask for; a block of the tape is
\* whole, or as long as a block can be, with its length and parity; the raw file has every byte
\* once and in order; a reader of the HEX records has the last byte of each address; and with
\* --cleanonerror no file a failed run created is left (WriteDest, CloseDest, SeekDest,
\* OpenTapFile, CloseTapFile, EmitToHex, ExitASM).
THEOREM OutputFilesAreTrue == OutSpec => []OutputIsTrue
<1>1. OutInv => OutputIsTrue
  BY InvOutputIsStream, InvTapeBlocks, InvRawIsComplete, InvHexHasLastBytes, InvNothingLeftBehind
     DEF OutputIsTrue, StreamsAgree
<1> QED
  BY <1>1, OutputFilesInvariant, PTL
=============================================================================
