--------------------------- MODULE TrdDiskProofs ---------------------------
(***************************************************************************)
(* The image of a TRD disk after any run of SAVETRD and EMPTYTRD is well    *)
(* formed and holds the files asked for, and INCTRD reads them back, for    *)
(* every geometry of the disk and every set of names and lengths.           *)
(*                                                                         *)
(* The invariant DiskInv says of the catalog what TrdLayout says, in        *)
(* sectors and of every two entries, so that no step needs an induction     *)
(* over the catalog; of the files it says which entry is which by the       *)
(* number of live entries in front of it (Rank), and that no two of them    *)
(* share a byte of one call.  A call is followed through TRD_AddFile:       *)
(* DeleteEarlier, RemoveLast, NewEntry and Extend, each with a lemma of     *)
(* what it leaves behind, then the three modes (NormalCall, ReplaceCall,    *)
(* AddCall).                                                                *)
(***************************************************************************)
EXTENDS TrdDisk, FiniteSetTheorems, TLAPS

-----------------------------------------------------------------------------
(* Counting the members of a set of places.                                *)

LEMMA RankType ==
  ASSUME NEW m \in Nat, NEW S \in SUBSET (1 .. m)
  PROVE  /\ IsFiniteSet(S) /\ Cardinality(S) \in 0 .. m
         /\ \A i \in S : Rank(S, i) \in 1 .. Cardinality(S)
<1>1. IsFiniteSet(1 .. m) /\ Cardinality(1 .. m) = m
  BY FS_Interval
<1>2. IsFiniteSet(S) /\ Cardinality(S) <= m
  BY <1>1, FS_Subset
<1>3. Cardinality(S) \in Nat
  BY <1>2, FS_CardinalityType
<1>4. ASSUME NEW i \in S PROVE Rank(S, i) \in 1 .. Cardinality(S)
  <2> DEFINE B == {j \in S : j <= i}
  <2>1. B \in SUBSET S /\ i \in B
    OBVIOUS
  <2>2. IsFiniteSet(B) /\ Cardinality(B) <= Cardinality(S)
    BY <1>2, <2>1, FS_Subset
  <2>3. Cardinality(B) \in Nat /\ Cardinality(B) # 0
    BY <2>1, <2>2, FS_CardinalityType, FS_EmptySet
  <2> HIDE DEF B
  <2>4. Cardinality(B) \in 1 .. Cardinality(S)
    BY <1>3, <2>2, <2>3
  <2> QED
    BY <2>4 DEF Rank, B
<1> QED
  BY <1>2, <1>3, <1>4

LEMMA RankMonotone ==
  ASSUME NEW m \in Nat, NEW S \in SUBSET (1 .. m), NEW i \in S, NEW j \in S, i < j
  PROVE  Rank(S, i) < Rank(S, j)
<1> DEFINE A == {k \in S : k <= i}
           B == {k \in S : k <= j}
<1>1. IsFiniteSet(S)
  BY RankType
<1>0. \A k \in S : k \in Int
  OBVIOUS
<1>2. B \in SUBSET S /\ A \in SUBSET B /\ j \in B /\ j \notin A
  <2>1. \A k \in S : k <= i => k <= j
    BY <1>0
  <2>2. j <= j /\ ~(j <= i)
    BY <1>0
  <2> QED
    BY <2>1, <2>2, Zenon
<1>3. IsFiniteSet(B)
  BY <1>1, <1>2, FS_Subset
<1>4. IsFiniteSet(A) /\ Cardinality(A) <= Cardinality(B) /\ Cardinality(A) # Cardinality(B)
  BY <1>2, <1>3, FS_Subset
<1>5. Cardinality(A) \in Nat /\ Cardinality(B) \in Nat
  BY <1>3, <1>4, FS_CardinalityType
<1> HIDE DEF A, B
<1>6. Cardinality(A) < Cardinality(B)
  BY <1>4, <1>5
<1> QED
  BY <1>6 DEF Rank, A, B

LEMMA RankInjective ==
  ASSUME NEW m \in Nat, NEW S \in SUBSET (1 .. m), NEW i \in S, NEW j \in S
  PROVE  /\ Rank(S, i) = Rank(S, j) => i = j
         /\ i <= j <=> Rank(S, i) <= Rank(S, j)
<1>1. i < j => Rank(S, i) < Rank(S, j)
  BY RankMonotone
<1>2. j < i => Rank(S, j) < Rank(S, i)
  BY RankMonotone
<1>3. Rank(S, i) \in Int /\ Rank(S, j) \in Int
  BY RankType
<1> QED
  BY <1>1, <1>2, <1>3

LEMMA RankOnto ==
  ASSUME NEW m \in Nat, NEW S \in SUBSET (1 .. m), NEW k \in 1 .. Cardinality(S)
  PROVE  \E i \in S : Rank(S, i) = k
<1> DEFINE n == Cardinality(S)
           f == [i \in S |-> Rank(S, i)]
<1>1. n \in Nat /\ IsFiniteSet(S)
  BY RankType
<1>2. IsFiniteSet(1 .. n) /\ Cardinality(1 .. n) = n
  BY <1>1, FS_Interval
<1>3. f \in [S -> 1 .. n]
  BY RankType
<1>4. f \in Injection(S, 1 .. n)
  BY <1>3, RankInjective, ZenonT(60) DEF Injection, IsInjective
<1>5. f \in Surjection(S, 1 .. n)
  BY <1>2, <1>4, FS_Injection
<1> QED
  BY <1>5 DEF Surjection

LEMMA NthRank ==
  ASSUME NEW m \in Nat, NEW S \in SUBSET (1 .. m)
  PROVE  /\ \A i \in S : Nth(S, Rank(S, i)) = i
         /\ \A k \in 1 .. Cardinality(S) : Nth(S, k) \in S /\ Rank(S, Nth(S, k)) = k
<1>1. ASSUME NEW k \in 1 .. Cardinality(S) PROVE Nth(S, k) \in S /\ Rank(S, Nth(S, k)) = k
  BY RankOnto DEF Nth
<1>2. ASSUME NEW i \in S PROVE Nth(S, Rank(S, i)) = i
  <2>1. Rank(S, i) \in 1 .. Cardinality(S)
    BY RankType
  <2>2. Nth(S, Rank(S, i)) \in S /\ Rank(S, Nth(S, Rank(S, i))) = Rank(S, i)
    BY <1>1, <2>1
  <2> QED
    BY <2>2, RankInjective
<1> QED
  BY <1>1, <1>2

LEMMA RankInterval ==
  ASSUME NEW m \in Nat, NEW i \in 1 .. m
  PROVE  Rank(1 .. m, i) = i /\ Cardinality(1 .. m) = m
<1>1. {j \in 1 .. m : j <= i} = 1 .. i
  OBVIOUS
<1>2. Cardinality(1 .. i) = i /\ Cardinality(1 .. m) = m
  BY FS_Interval
<1> QED
  BY <1>1, <1>2 DEF Rank

Ranks(S, M) == {Rank(S, i) : i \in M}

\* A part of a set, and the ranks of its members in the whole.
LEMMA RankThrough ==
  ASSUME NEW m \in Nat, NEW S \in SUBSET (1 .. m), NEW M \in SUBSET S
  PROVE  /\ Ranks(S, M) \in SUBSET (1 .. Cardinality(S)) /\ Cardinality(Ranks(S, M)) = Cardinality(M)
         /\ \A i \in M : Rank(Ranks(S, M), Rank(S, i)) = Rank(M, i)
<1> DEFINE P == {Rank(S, i) : i \in M}
<1>1. P \in SUBSET (1 .. Cardinality(S))
  BY RankType
<1>2. IsFiniteSet(M) /\ IsFiniteSet(S)
  BY RankType, FS_Subset
<1>3. ASSUME NEW A \in SUBSET M, NEW B, B = {Rank(S, i) : i \in A}
      PROVE  Cardinality(B) = Cardinality(A)
  <2> DEFINE f == [i \in A |-> Rank(S, i)]
  <2>1. f \in [A -> B]
    BY <1>3
  <2>2. \A i, j \in A : f[i] = f[j] => i = j
    BY RankInjective
  <2>3. f \in Bijection(A, B)
    BY <1>3, <2>1, <2>2 DEF Bijection, Injection, Surjection, IsInjective
  <2>4. IsFiniteSet(A)
    BY <1>2, FS_Subset
  <2> QED
    BY <2>3, <2>4, FS_Bijection DEF ExistsBijection
<1>4. ASSUME NEW i \in M PROVE Rank(P, Rank(S, i)) = Rank(M, i)
  <2> DEFINE A == {j \in M : j <= i}
             B == {p \in P : p <= Rank(S, i)}
  <2>1. \A j \in M : j <= i <=> Rank(S, j) <= Rank(S, i)
    BY RankInjective
  <2>2. B = {Rank(S, j) : j \in A}
    BY <2>1
  <2> HIDE DEF B
  <2>3. Cardinality(B) = Cardinality(A)
    BY <1>3, <2>2
  <2> QED
    BY <2>3 DEF Rank, B
<1> QED
  BY <1>1, <1>3, <1>4 DEF Ranks

LEMMA RankAppend ==
  \A n \in Nat : \A S \in SUBSET (1 .. n) : \A T :
    S \subseteq T /\ n + 1 \in T /\ (\A i \in T : i \in S \/ i = n + 1) =>
      /\ Cardinality(T) = Cardinality(S) + 1 /\ Rank(T, n + 1) = Cardinality(S) + 1
      /\ \A i \in S : Rank(T, i) = Rank(S, i)
<1> TAKE n \in Nat
<1> TAKE S \in SUBSET (1 .. n)
<1> TAKE T
<1> HAVE S \subseteq T /\ n + 1 \in T /\ (\A i \in T : i \in S \/ i = n + 1)
<1>0. T = S \cup {n + 1}
  OBVIOUS
<1>1. IsFiniteSet(S) /\ n + 1 \notin S
  BY RankType
<1>2. Cardinality(T) = Cardinality(S) + 1
  BY <1>0, <1>1, FS_AddElement
<1>3. {j \in T : j <= n + 1} = T
  <2>1. \A j \in T : j <= n + 1
    BY <1>0
  <2> QED
    BY <2>1, Zenon
<1>4. \A i \in S : {j \in T : j <= i} = {j \in S : j <= i}
  BY <1>0
<1> QED
  BY <1>2, <1>3, <1>4 DEF Rank

-----------------------------------------------------------------------------
(* Sectors and bytes.                                                       *)

At(e) == (e.startTrack - 1) * SECTORS_PER_TRACK + e.startSector
Free(info) == (info.freeTrack - 1) * SECTORS_PER_TRACK + info.freeSector

LEMMA Division ==
  ASSUME NEW a \in Nat, NEW d \in Nat \ {0}
  PROVE  /\ a \div d \in Nat /\ a % d \in 0 .. d - 1
         /\ a = (a \div d) * d + (a % d)
<1>1. a % d = a - (a \div d) * d
  OBVIOUS
<1>2. a \div d \in Nat /\ a % d \in 0 .. d - 1
  OBVIOUS
<1>3. (a \div d) * d \in Int
  BY <1>2
<1>4. ASSUME NEW x \in Int, NEW r, r = a - x PROVE a = x + r
  BY <1>4
<1>5. a = (a \div d) * d + (a % d)
  BY <1>1, <1>3, <1>4, Zenon
<1> QED
  BY <1>2, <1>5, Zenon

\* Sectors counted from the first track, moved forward.
LEMMA ForwardMoves ==
  ASSUME NEW x \in Nat, NEW s \in Nat, NEW n \in Nat,
         NEW f, f = Forward([track |-> x, sector |-> s], n)
  PROVE  /\ f.track \in Nat /\ f.sector \in Nat
         /\ (f.track - 1) * SECTORS_PER_TRACK + f.sector = (x - 1) * SECTORS_PER_TRACK + s + n
<1>1. SECTORS_PER_TRACK \in Nat \ {0} /\ SECTORS_PER_TRACK \in Nat /\ n + s \in Nat
  BY TrdAssumption
<1>2. PICK q \in Nat, r \in Nat : /\ q = (n + s) \div SECTORS_PER_TRACK
                              /\ r = (n + s) % SECTORS_PER_TRACK
                              /\ n + s = q * SECTORS_PER_TRACK + r
  <2>1. 0 .. SECTORS_PER_TRACK - 1 \subseteq Nat
    OBVIOUS
  <2> QED
    BY <1>1, <2>1, Division, Zenon
<1>3. f.track = x + q /\ f.sector = r
  BY <1>2 DEF Forward
<1>4. ASSUME NEW d \in Nat, n + s = q * d + r
      PROVE  (x + q - 1) * d + r = (x - 1) * d + s + n
  <2>1. (x + q - 1) * d = (x - 1) * d + q * d
    OBVIOUS
  <2>2. ASSUME NEW u \in Int, NEW v \in Int, NEW w \in Int, u = v + w, n + s = w + r
        PROVE  u + r = v + s + n
    BY <2>2
  <2>3. (x + q - 1) * d \in Int /\ (x - 1) * d \in Int /\ q * d \in Int
    OBVIOUS
  <2> QED
    BY <1>4, <2>1, <2>2, <2>3, Zenon
<1>5. (x + q - 1) * SECTORS_PER_TRACK + r = (x - 1) * SECTORS_PER_TRACK + s + n
  BY <1>1, <1>2, <1>4, Zenon
<1>6. x + q \in Nat
  OBVIOUS
<1> QED
  BY <1>3, <1>5, <1>6

LEMMA Scaled ==
  ASSUME NEW a \in Int, NEW b \in Int
  PROVE  /\ a * SECTOR_SZ \in Int /\ (a + b) * SECTOR_SZ = a * SECTOR_SZ + b * SECTOR_SZ
         /\ a <= b <=> a * SECTOR_SZ <= b * SECTOR_SZ
         /\ a < b <=> a * SECTOR_SZ < b * SECTOR_SZ
         /\ a = b <=> a * SECTOR_SZ = b * SECTOR_SZ
<1>1. SECTOR_SZ \in Nat \ {0}
  BY TrdAssumption
<1>2. a < b => a * SECTOR_SZ < b * SECTOR_SZ
  BY <1>1
<1>3. b < a => b * SECTOR_SZ < a * SECTOR_SZ
  BY <1>1
<1>4. a * SECTOR_SZ \in Int /\ b * SECTOR_SZ \in Int
  BY <1>1
<1>5. (a + b) * SECTOR_SZ = a * SECTOR_SZ + b * SECTOR_SZ
  BY <1>1
<1> QED
  BY <1>2, <1>3, <1>4, <1>5

LEMMA ScaledInt ==
  ASSUME NEW a \in Int
  PROVE  a * SECTOR_SZ \in Int /\ (0 <= a => 0 <= a * SECTOR_SZ)
<1>1. 0 * SECTOR_SZ = 0
  BY TrdAssumption
<1>2. 0 <= a => 0 * SECTOR_SZ <= a * SECTOR_SZ
  BY Scaled
<1> QED
  BY <1>1, <1>2, Scaled

LEMMA PlaceIsAt ==
  ASSUME NEW e
  PROVE  Place(e) = At(e) * SECTOR_SZ
BY DEF Place, fileOffset, At

LEMMA FreeIsPlace ==
  ASSUME NEW info
  PROVE  fileOffset(info.freeTrack, info.freeSector) = Free(info) * SECTOR_SZ
BY DEF fileOffset, Free

-----------------------------------------------------------------------------
(* Images whose catalog describes them.                                     *)

Words == {""} \cup UNION {{name.base, name.ext} : name \in TrdNames}
Entries ==
  [first : 0 .. 2, name : Words, ext : Words, alt : Int, length : Int,
   sectorLength : Nat, startSector : Nat, startTrack : Nat]
RecordNames == [base : Words, ext : Words, long : Int]

LEMMA NameWords ==
  ASSUME NEW name \in TrdNames
  PROVE  /\ name.base \in Words /\ name.ext \in Words /\ name.long \in Int
         /\ name = [base |-> name.base, ext |-> name.ext, long |-> name.long]
<1> DEFINE U == {{m.base, m.ext} : m \in TrdNames}
<1>1. {name.base, name.ext} \in U
  OBVIOUS
<1>2. Words = {""} \cup UNION U
  BY DEF Words
<1> HIDE DEF U
<1>3. {name.base, name.ext} \subseteq UNION U
  BY <1>1
<1>4. name \in [base : STRING, ext : STRING, long : Int]
  BY TrdAssumption
<1> QED
  BY <1>2, <1>3, <1>4

Catalogs == [1 .. NUM_OF_FILES_MAX -> Entries]
Infos ==
  [freeSector : Nat, freeTrack : Nat, numOfFiles : 0 .. NUM_OF_FILES_MAX,
   numOfFreeSectors : Nat, numOfDeleted : Nat]
Cells == Int \X Int
Contents == [0 .. FreeSectors * SECTOR_SZ - 1 -> Cells]
Images == [catalog : Catalogs, info : Infos, data : Contents]

\* The sector where a file ends, 0 in front of the first one.
End(c, i) == IF i = 0 THEN 0 ELSE At(c[i]) + c[i].sectorLength

\* The layout in sectors; what lies between two files follows from their neighbours, but
\* saying it of every two spares an induction over the catalog.
LaidOut(c, n) ==
  /\ \A i \in 1 .. NUM_OF_FILES_MAX : c[i].first = 0 <=> i > n
  /\ \A i \in 1 .. n : c[i].sectorLength \in 1 .. MaxSectors /\ At(c[i]) = End(c, i - 1)
  /\ \A i \in 1 .. n : 0 <= At(c[i]) /\ End(c, i) <= End(c, n)
  /\ \A i, j \in 1 .. n : i < j => End(c, i) <= At(c[j])

DeletedFiles(c, n) == {i \in 1 .. n : c[i].first = 1}
LiveFiles(c, n) == {i \in 1 .. n : c[i].first = 2}

Good(t) ==
  /\ t \in Images
  /\ LaidOut(t.catalog, t.info.numOfFiles)
  /\ Free(t.info) = End(t.catalog, t.info.numOfFiles)
  /\ Free(t.info) + t.info.numOfFreeSectors = FreeSectors
  /\ t.info.numOfDeleted = Cardinality(DeletedFiles(t.catalog, t.info.numOfFiles))

LEMMA ImageType ==
  ASSUME NEW t \in Images
  PROVE  /\ t.catalog \in Catalogs /\ t.info \in Infos /\ t.data \in Contents
         /\ t.info.numOfFiles \in 0 .. NUM_OF_FILES_MAX /\ t.info.numOfFiles \in Nat
         /\ t.info.numOfFreeSectors \in Nat
         /\ t.info.freeSector \in Nat /\ t.info.freeTrack \in Nat /\ t.info.numOfDeleted \in Nat
BY DEF Images, Infos

LEMMA EntryType ==
  ASSUME NEW c \in Catalogs, NEW i \in 1 .. NUM_OF_FILES_MAX
  PROVE  /\ c[i] \in Entries /\ c[i].first \in 0 .. 2 /\ c[i].sectorLength \in Nat
         /\ c[i].startSector \in Nat /\ c[i].startTrack \in Nat /\ c[i].length \in Int
         /\ At(c[i]) \in Int /\ End(c, i) \in Int
<1>1. c[i] \in Entries
  BY DEF Catalogs
<1>2. c[i].sectorLength \in Nat /\ c[i].startSector \in Nat /\ c[i].startTrack \in Nat
  BY <1>1 DEF Entries
<1>3. SECTORS_PER_TRACK \in Int
  BY TrdAssumption
<1>4. At(c[i]) \in Int
  BY <1>2, <1>3 DEF At
<1> QED
  BY <1>1, <1>2, <1>4 DEF Entries, End

LEMMA ListedFiles ==
  ASSUME NEW c \in Catalogs, NEW n \in 0 .. NUM_OF_FILES_MAX, LaidOut(c, n)
  PROVE  Listed(c) = 1 .. n
<1>0. NUM_OF_FILES_MAX \in Nat
  BY TrdAssumption
<1>1. ASSUME NEW i \in 1 .. n PROVE i \in Listed(c)
  BY <1>0 DEF Listed, LaidOut
<1>2. ASSUME NEW i \in Listed(c) PROVE i \in 1 .. n
  BY <1>0 DEF Listed, LaidOut
<1> QED
  BY <1>1, <1>2

\* Only the first letters of names may differ between the two catalogs.
SamePlaces(c, d) ==
  \A i \in 1 .. NUM_OF_FILES_MAX :
    /\ d[i].sectorLength = c[i].sectorLength
    /\ d[i].startSector = c[i].startSector /\ d[i].startTrack = c[i].startTrack

LEMMA SamePlacesLaidOut ==
  ASSUME NEW c \in Catalogs, NEW d \in Catalogs, NEW n \in 0 .. NUM_OF_FILES_MAX,
         LaidOut(c, n), SamePlaces(c, d),
         \A i \in 1 .. NUM_OF_FILES_MAX : d[i].first = 0 <=> i > n
  PROVE  LaidOut(d, n) /\ \A i \in 0 .. n : End(d, i) = End(c, i)
<1>0. NUM_OF_FILES_MAX \in Nat
  BY TrdAssumption
<1>1. \A i \in 1 .. NUM_OF_FILES_MAX : At(d[i]) = At(c[i]) /\ d[i].sectorLength = c[i].sectorLength
  BY DEF SamePlaces, At
<1>2. \A i \in 0 .. n : End(d, i) = End(c, i)
  BY <1>0, <1>1 DEF End
<1>3. \A i \in 1 .. n : i \in 1 .. NUM_OF_FILES_MAX /\ i \in 0 .. n /\ i - 1 \in 0 .. n
  BY <1>0
<1>4. n \in 0 .. n
  OBVIOUS
<1> QED
  BY <1>1, <1>2, <1>3, <1>4 DEF LaidOut

LEMMA MarkedEffect ==
  ASSUME NEW c \in Catalogs, NEW X, NEW f \in 0 .. 2, NEW d, d = Marked(c, X, f)
  PROVE  /\ d \in Catalogs /\ SamePlaces(c, d)
         /\ \A i \in 1 .. NUM_OF_FILES_MAX :
              /\ d[i].first = IF i \in X THEN f ELSE c[i].first
              /\ i \notin X => d[i] = c[i]
<1>1. DOMAIN c = 1 .. NUM_OF_FILES_MAX
  BY DEF Catalogs
<1>2. \A i \in 1 .. NUM_OF_FILES_MAX : d[i] = IF i \in X THEN [c[i] EXCEPT !.first = f] ELSE c[i]
  BY <1>1 DEF Marked
<1>3. \A i \in 1 .. NUM_OF_FILES_MAX : c[i] \in Entries
  BY DEF Catalogs
<1>4. ASSUME NEW i \in 1 .. NUM_OF_FILES_MAX, i \in X
      PROVE  /\ d[i] \in Entries /\ d[i].first = f
             /\ d[i].sectorLength = c[i].sectorLength
             /\ d[i].startSector = c[i].startSector /\ d[i].startTrack = c[i].startTrack
  <2>1. d[i] = [c[i] EXCEPT !.first = f] /\ c[i] \in Entries
    BY <1>2, <1>3, <1>4
  <2> QED
    BY <2>1 DEF Entries
<1>5. d \in Catalogs
  BY <1>1, <1>2, <1>3, <1>4 DEF Marked, Catalogs
<1> QED
  BY <1>2, <1>4, <1>5 DEF SamePlaces

\* The ends of a set of places.
LEMMA EndsExist ==
  ASSUME NEW m \in Nat, NEW S \in SUBSET (1 .. m), S # {}
  PROVE  /\ \E i \in S : \A j \in S : i <= j
         /\ \E i \in S : \A j \in S : j <= i
<1>0. IsFiniteSet(S) /\ Cardinality(S) \in Nat
  BY RankType
<1>1. Cardinality(S) # 0
  BY <1>0, FS_EmptySet
<1>5. 1 \in 1 .. Cardinality(S) /\ Cardinality(S) \in 1 .. Cardinality(S)
  BY <1>0, <1>1
<1>2. PICK a \in S : Rank(S, a) = 1
  BY <1>5, RankOnto
<1>3. PICK b \in S : Rank(S, b) = Cardinality(S)
  BY <1>5, RankOnto
<1>4. \A j \in S : Rank(S, a) <= Rank(S, j) /\ Rank(S, j) <= Rank(S, b)
  BY <1>2, <1>3, RankType
<1> QED
  BY <1>4, RankInjective

\* Files of a catalog that go by a name.
Matching(c, n, name, L) == {i \in LiveFiles(c, n) : Matches(c[i], name, L)}

LEMMA LastMatchIs ==
  ASSUME NEW c \in Catalogs, NEW n \in 0 .. NUM_OF_FILES_MAX, LaidOut(c, n), NEW name, NEW L,
         NEW last, last = LastMatch(c, name, L)
  PROVE  /\ Matching(c, n, name, L) = {} => last = NUM_OF_FILES_MAX + 1
         /\ Matching(c, n, name, L) # {} =>
              /\ last \in Matching(c, n, name, L)
              /\ \A j \in Matching(c, n, name, L) : j <= last
<1> DEFINE M == {i \in Listed(c) : Matches(c[i], name, L)}
<1>1. M = Matching(c, n, name, L)
  BY ListedFiles DEF Matching, LiveFiles, Matches
<1>2. M \in SUBSET (1 .. n) /\ n \in Nat
  BY ListedFiles
<1>3. last = IF M = {} THEN NUM_OF_FILES_MAX + 1 ELSE CHOOSE i \in M : \A j \in M : j <= i
  BY DEF LastMatch
<1> HIDE DEF M
<1>4. M # {} => \E i \in M : \A j \in M : j <= i
  BY <1>2, EndsExist
<1>5. M # {} => last \in M /\ \A j \in M : j <= last
  BY <1>3, <1>4
<1> QED
  BY <1>1, <1>3, <1>5

LEMMA MoreDeletedEffect ==
  ASSUME NEW o \in Infos, NEW k \in Nat, NEW p, p = MoreDeleted(o, k)
  PROVE  /\ p \in Infos /\ p.numOfFiles = o.numOfFiles /\ Free(p) = Free(o)
         /\ p.numOfFreeSectors = o.numOfFreeSectors
         /\ p.numOfDeleted = o.numOfDeleted + k
<1>1. p = [o EXCEPT !.numOfDeleted = @ + k]
  BY DEF MoreDeleted
<1>2. p \in Infos
  BY <1>1 DEF Infos
<1>3. /\ p.freeSector = o.freeSector /\ p.freeTrack = o.freeTrack
      /\ p.numOfFiles = o.numOfFiles /\ p.numOfFreeSectors = o.numOfFreeSectors
      /\ p.numOfDeleted = o.numOfDeleted + k
  BY <1>1 DEF Infos
<1> QED
  BY <1>2, <1>3 DEF Free

\* Live files become deleted ones, which stay where they are.
LEMMA DeletedStays ==
  ASSUME NEW t, Good(t), NEW n, n = t.info.numOfFiles,
         NEW X \in SUBSET LiveFiles(t.catalog, n),
         NEW d, d = Deleted(t, X)
  PROVE  /\ Good(d) /\ d.data = t.data /\ d.info.numOfFiles = n
         /\ LiveFiles(d.catalog, n) = LiveFiles(t.catalog, n) \ X
         /\ \A i \in (1 .. NUM_OF_FILES_MAX) \ X : d.catalog[i] = t.catalog[i]
         /\ \A i \in X : d.catalog[i].first = 1
<1> DEFINE c == t.catalog
           e == Marked(t.catalog, X, 1)
           o == MoreDeleted(t.info, Cardinality(X))
<1>1. t \in Images /\ c \in Catalogs /\ t.info \in Infos /\ t.data \in Contents /\ n \in 0 .. NUM_OF_FILES_MAX
  BY ImageType DEF Good
<1>2. NUM_OF_FILES_MAX \in Nat /\ n \in Nat /\ X \in SUBSET (1 .. n)
  BY <1>1, TrdAssumption DEF LiveFiles
<1>3. IsFiniteSet(X) /\ Cardinality(X) \in Nat
  BY <1>2, RankType
<1>4. /\ e \in Catalogs /\ SamePlaces(c, e)
      /\ \A i \in 1 .. NUM_OF_FILES_MAX : /\ e[i].first = IF i \in X THEN 1 ELSE c[i].first
                                          /\ i \notin X => e[i] = c[i]
  BY <1>1, MarkedEffect
<1>5. /\ o \in Infos /\ o.numOfFiles = n /\ Free(o) = Free(t.info)
      /\ o.numOfFreeSectors = t.info.numOfFreeSectors
      /\ o.numOfDeleted = t.info.numOfDeleted + Cardinality(X)
  BY <1>1, <1>3, MoreDeletedEffect
<1>6. /\ d \in Images /\ d.catalog = e /\ d.info = o /\ d.data = t.data
  <2>1. d = [t EXCEPT !.catalog = e, !.info = o]
    BY DEF Deleted
  <2> HIDE DEF e, o
  <2> QED
    BY <1>1, <1>4, <1>5, <2>1 DEF Images
<1> HIDE DEF c, e, o
<1>7. LaidOut(c, n)
  BY DEF Good, c
<1>8. \A i \in X : i \in 1 .. n /\ i \in 1 .. NUM_OF_FILES_MAX /\ c[i].first = 2
  BY <1>1, <1>2 DEF LiveFiles, c
<1>17. \A i \in 1 .. n : i \in 1 .. NUM_OF_FILES_MAX
  BY <1>1, <1>2
<1>9. \A i \in 1 .. NUM_OF_FILES_MAX : e[i].first = 0 <=> i > n
  <2>1. \A i \in 1 .. NUM_OF_FILES_MAX : c[i].first = 0 <=> i > n
    BY <1>7 DEF LaidOut
  <2>2. \A i \in X : ~(i > n)
    BY <1>2
  <2> QED
    BY <1>4, <2>1, <2>2
<1>10. LaidOut(e, n) /\ \A i \in 0 .. n : End(e, i) = End(c, i)
  BY <1>1, <1>4, <1>7, <1>9, SamePlacesLaidOut
<1>11. End(e, n) = End(c, n)
  BY <1>2, <1>10
<1>12. DeletedFiles(e, n) = DeletedFiles(c, n) \cup X
  BY <1>4, <1>8, <1>17 DEF DeletedFiles
<1>13. Cardinality(DeletedFiles(e, n)) = Cardinality(DeletedFiles(c, n)) + Cardinality(X)
  <2>1. DeletedFiles(c, n) \cap X = {}
    BY <1>8 DEF DeletedFiles
  <2>2. DeletedFiles(c, n) \in SUBSET (1 .. n)
    BY DEF DeletedFiles
  <2>3. IsFiniteSet(DeletedFiles(c, n)) /\ Cardinality(DeletedFiles(c, n)) \in Nat
    BY <1>2, <2>2, RankType
  <2>4. Cardinality(DeletedFiles(c, n) \cup X)
          = Cardinality(DeletedFiles(c, n)) + Cardinality(X) - Cardinality(DeletedFiles(c, n) \cap X)
    BY <1>3, <2>3, FS_Union
  <2>5. Cardinality(DeletedFiles(c, n) \cap X) = 0
    BY <2>1, FS_EmptySet
  <2> QED
    BY <1>3, <1>12, <2>3, <2>4, <2>5
<1>14. LiveFiles(e, n) = LiveFiles(c, n) \ X
  BY <1>4, <1>8, <1>17 DEF LiveFiles
<1>15. Good(d)
  <2>1. /\ Free(t.info) = End(c, n) /\ Free(t.info) + t.info.numOfFreeSectors = FreeSectors
        /\ t.info.numOfDeleted = Cardinality(DeletedFiles(c, n))
    BY DEF Good, c
  <2> QED
    BY <1>5, <1>6, <1>10, <1>11, <1>13, <2>1 DEF Good
<1>16. \A i \in X : e[i].first = 1
  BY <1>4, <1>8
<1> QED
  BY <1>4, <1>5, <1>6, <1>14, <1>15, <1>16 DEF c

\* A set without one member, and without all members of another set but the last.
WithoutOne(S, i) == S \ {i}
WithoutFirst(S, M, last) == S \ (M \ {last})

LEMMA DeleteEarlierEffect ==
  ASSUME NEW t, Good(t), NEW n, n = t.info.numOfFiles, NEW name, NEW L,
         NEW d, d = DeleteEarlier(t, name, L), NEW last, last = LastMatch(t.catalog, name, L),
         NEW M, M = Matching(t.catalog, n, name, L)
  PROVE  /\ Good(d) /\ d.data = t.data /\ d.info.numOfFiles = n
         /\ LiveFiles(d.catalog, n) = WithoutFirst(LiveFiles(t.catalog, n), M, last)
         /\ \A i \in (1 .. NUM_OF_FILES_MAX) \ (M \ {last}) : d.catalog[i] = t.catalog[i]
         /\ LastMatch(d.catalog, name, L) = last
<1> DEFINE X == {i \in Listed(t.catalog) : Matches(t.catalog[i], name, L) /\ i < last}
<1>1. /\ t.catalog \in Catalogs /\ n \in 0 .. NUM_OF_FILES_MAX /\ n \in Nat
      /\ LaidOut(t.catalog, n) /\ NUM_OF_FILES_MAX \in Nat
  BY ImageType, TrdAssumption DEF Good
<1>2. /\ M = {} => last = NUM_OF_FILES_MAX + 1
      /\ M # {} => last \in M /\ \A j \in M : j <= last
  BY <1>1, LastMatchIs
<1>3. M \in SUBSET LiveFiles(t.catalog, n) /\ M \in SUBSET (1 .. n)
  BY DEF Matching, LiveFiles
<1>4. X = M \ {last}
  <2>1. X = {i \in M : i < last}
    BY <1>1, ListedFiles DEF Matching, LiveFiles, Matches
  <2>2. \A i \in M : i # last => i < last
    <3>1. \A i \in M : i \in Int
      BY <1>3
    <3> QED
      BY <1>2, <3>1
  <2>3. \A i \in M : i < last => i # last
    BY <1>3
  <2> HIDE DEF X
  <2> QED
    BY <2>1, <2>2, <2>3
<1> HIDE DEF X
<1>5. d = Deleted(t, X)
  BY DEF DeleteEarlier, X
<1>6. X \in SUBSET LiveFiles(t.catalog, n)
  BY <1>3, <1>4
<1>7. /\ Good(d) /\ d.data = t.data /\ d.info.numOfFiles = n
      /\ LiveFiles(d.catalog, n) = LiveFiles(t.catalog, n) \ X
      /\ \A i \in (1 .. NUM_OF_FILES_MAX) \ X : d.catalog[i] = t.catalog[i]
  BY <1>5, <1>6, DeletedStays
<1>8. Matching(d.catalog, n, name, L) = M \ X
  <2>1. \A i \in LiveFiles(d.catalog, n) : d.catalog[i] = t.catalog[i]
    <3>1. LiveFiles(d.catalog, n) \subseteq (1 .. NUM_OF_FILES_MAX) \ X
      BY <1>1, <1>7 DEF LiveFiles
    <3> QED
      BY <1>7, <3>1
  <2> QED
    BY <1>7, <2>1 DEF Matching
<1>9. /\ d.catalog \in Catalogs /\ LaidOut(d.catalog, n)
  BY <1>7, ImageType DEF Good
<1>10. LastMatch(d.catalog, name, L) = last
  <2>1. CASE M = {}
    BY <1>1, <1>2, <1>8, <1>9, <2>1, LastMatchIs
  <2>2. CASE M # {}
    <3>1. Matching(d.catalog, n, name, L) = {last}
      BY <1>2, <1>4, <1>8, <2>2
    <3> QED
      BY <1>1, <1>9, <3>1, LastMatchIs
  <2> QED
    BY <2>1, <2>2
<1> QED
  BY <1>4, <1>7, <1>10 DEF WithoutFirst

\* The last file is taken off the catalog, and its sectors are free again.
LEMMA TakenOff ==
  ASSUME NEW t, Good(t), NEW n \in 1 .. NUM_OF_FILES_MAX, n = t.info.numOfFiles,
         t.catalog[n].first = 2, NEW d, d = RemoveLast(t, n)
  PROVE  /\ Good(d) /\ d.data = t.data /\ d.info.numOfFiles = n - 1
         /\ LiveFiles(d.catalog, n - 1) = LiveFiles(t.catalog, n) \ {n}
         /\ \A i \in 1 .. NUM_OF_FILES_MAX : i # n => d.catalog[i] = t.catalog[i]
<1> DEFINE c == t.catalog
           e == Marked(t.catalog, {n}, 0)
           o == MoreFiles(GivenBack(t.info, t.catalog[n]), -1)
<1>1. t \in Images /\ c \in Catalogs /\ t.info \in Infos /\ t.data \in Contents
  BY ImageType DEF Good
<1>2. NUM_OF_FILES_MAX \in Nat /\ n - 1 \in 0 .. NUM_OF_FILES_MAX /\ n \in 1 .. n /\ n \in Int
  BY TrdAssumption
<1>3. c[n] \in Entries /\ At(c[n]) \in Int /\ c[n].sectorLength \in Nat
  BY <1>1, EntryType
<1>4. /\ e \in Catalogs /\ SamePlaces(c, e)
      /\ \A i \in 1 .. NUM_OF_FILES_MAX : /\ e[i].first = IF i = n THEN 0 ELSE c[i].first
                                          /\ i # n => e[i] = c[i]
  BY <1>1, MarkedEffect
<1>5. /\ o \in Infos /\ o.numOfFiles = n - 1
      /\ o.freeSector = c[n].startSector /\ o.freeTrack = c[n].startTrack
      /\ o.numOfFreeSectors = t.info.numOfFreeSectors + c[n].sectorLength
      /\ o.numOfDeleted = t.info.numOfDeleted
  <2> DEFINE g == GivenBack(t.info, c[n])
  <2>1. g = [t.info EXCEPT !.freeSector = c[n].startSector, !.freeTrack = c[n].startTrack,
                           !.numOfFreeSectors = @ + c[n].sectorLength]
    BY DEF GivenBack
  <2>2. /\ g \in Infos /\ g.numOfFiles = n
        /\ g.freeSector = c[n].startSector /\ g.freeTrack = c[n].startTrack
        /\ g.numOfFreeSectors = t.info.numOfFreeSectors + c[n].sectorLength
        /\ g.numOfDeleted = t.info.numOfDeleted
    <3>1. /\ c[n].startSector \in Nat /\ c[n].startTrack \in Nat
          /\ t.info.numOfFreeSectors + c[n].sectorLength \in Nat /\ t.info \in Infos
      BY <1>1, <1>3, EntryType, ImageType
    <3> HIDE DEF c, g
    <3> QED
      BY <2>1, <3>1 DEF Infos
  <2>3. o = [g EXCEPT !.numOfFiles = g.numOfFiles - 1]
    <3>1. o = [g EXCEPT !.numOfFiles = g.numOfFiles + (-1)]
      BY DEF MoreFiles
    <3> HIDE DEF g, o
    <3> QED
      BY <2>2, <3>1
  <2> HIDE DEF g, o
  <2> QED
    BY <1>2, <2>2, <2>3 DEF Infos
<1>6. d \in Images /\ d.catalog = e /\ d.info = o /\ d.data = t.data
  <2>1. d = [t EXCEPT !.info = o, !.catalog = e]
    BY DEF RemoveLast
  <2> HIDE DEF e, o
  <2> QED
    BY <1>1, <1>4, <1>5, <2>1 DEF Images
<1> HIDE DEF c, e, o
<1>7. /\ LaidOut(c, n) /\ Free(t.info) = End(c, n) /\ Free(t.info) + t.info.numOfFreeSectors = FreeSectors
      /\ t.info.numOfDeleted = Cardinality(DeletedFiles(c, n)) /\ c[n].first = 2
  BY DEF Good, c
<1>8. At(c[n]) = End(c, n - 1) /\ End(c, n) = At(c[n]) + c[n].sectorLength
  BY <1>2, <1>7 DEF LaidOut, End
<1>9. LaidOut(c, n) => \A i \in 1 .. n - 1 : End(c, i) <= End(c, n - 1)
  <2>1. \A i \in 1 .. n - 1 : i \in 1 .. n /\ i < n
    BY <1>2
  <2> QED
    BY <1>2, <1>8, <2>1 DEF LaidOut
<1>10. \A i \in 1 .. NUM_OF_FILES_MAX :
         /\ At(e[i]) = At(c[i]) /\ e[i].sectorLength = c[i].sectorLength /\ End(e, i) = End(c, i)
  BY <1>4 DEF SamePlaces, At, End
<1>11. \A i \in 1 .. n - 1 : i \in 1 .. n /\ i \in 1 .. NUM_OF_FILES_MAX /\ i # n
  BY <1>2
<1>12. \A i \in 0 .. n - 1 : End(e, i) = End(c, i)
  <2>1. End(e, 0) = End(c, 0)
    BY DEF End
  <2>2. \A i \in 0 .. n - 1 : i = 0 \/ i \in 1 .. NUM_OF_FILES_MAX
    BY <1>2
  <2> QED
    BY <1>10, <2>1, <2>2
<1>13. LaidOut(e, n - 1)
  <2>1. \A i \in 1 .. NUM_OF_FILES_MAX : e[i].first = 0 <=> i > n - 1
    <3>1. \A i \in 1 .. NUM_OF_FILES_MAX : c[i].first = 0 <=> i > n
      BY <1>7 DEF LaidOut
    <3>2. \A i \in 1 .. NUM_OF_FILES_MAX : i # n => (i > n <=> i > n - 1)
      BY <1>2
    <3>3. n > n - 1
      BY <1>2
    <3> QED
      BY <1>4, <3>1, <3>2, <3>3
  <2>2. \A i \in 1 .. n - 1 : e[i].sectorLength \in 1 .. MaxSectors /\ At(e[i]) = End(e, i - 1)
    <3>1. \A i \in 1 .. n - 1 : i - 1 \in 0 .. n - 1
      BY <1>2
    <3>2. \A i \in 1 .. n : c[i].sectorLength \in 1 .. MaxSectors /\ At(c[i]) = End(c, i - 1)
      BY <1>7 DEF LaidOut
    <3> QED
      BY <1>10, <1>11, <1>12, <3>1, <3>2
  <2>3. \A i \in 1 .. n - 1 : 0 <= At(e[i]) /\ End(e, i) <= End(e, n - 1)
    <3>1. \A i \in 1 .. n : 0 <= At(c[i])
      BY <1>7 DEF LaidOut
    <3>2. End(e, n - 1) = End(c, n - 1)
      BY <1>2, <1>12
    <3> QED
      BY <1>7, <1>9, <1>10, <1>11, <3>1, <3>2
  <2>4. \A i, j \in 1 .. n - 1 : i < j => End(e, i) <= At(e[j])
    <3>1. \A i, j \in 1 .. n : i < j => End(c, i) <= At(c[j])
      BY <1>7 DEF LaidOut
    <3> QED
      BY <1>10, <1>11, <3>1
  <2> QED
    BY <2>1, <2>2, <2>3, <2>4 DEF LaidOut
<1>14. DeletedFiles(e, n - 1) = DeletedFiles(c, n)
  <2>1. \A i \in 1 .. n : i = n \/ i \in 1 .. n - 1
    BY <1>2
  <2> QED
    BY <1>4, <1>7, <1>11, <2>1 DEF DeletedFiles
<1>15. LiveFiles(e, n - 1) = LiveFiles(c, n) \ {n}
  <2>1. \A i \in 1 .. n : i = n \/ i \in 1 .. n - 1
    BY <1>2
  <2> QED
    BY <1>4, <1>11, <2>1 DEF LiveFiles
<1>16. Free(o) = At(c[n])
  BY <1>5 DEF Free, At
<1>17. Good(d)
  <2>1. Free(o) = End(e, n - 1)
    BY <1>2, <1>8, <1>12, <1>16
  <2>2. Free(o) + o.numOfFreeSectors = FreeSectors
    <3>1. t.info.numOfFreeSectors \in Nat
      BY <1>1 DEF Infos
    <3> QED
      BY <1>3, <1>5, <1>7, <1>8, <1>16, <3>1
  <2> QED
    BY <1>5, <1>6, <1>7, <1>13, <1>14, <2>1, <2>2 DEF Good
<1> QED
  BY <1>4, <1>5, <1>6, <1>15, <1>17 DEF c

LEMMA LessFreeEffect ==
  ASSUME NEW o \in Infos, NEW s \in Nat, s <= o.numOfFreeSectors, NEW p, p = LessFree(o, s)
  PROVE  /\ p \in Infos /\ p.numOfFiles = o.numOfFiles /\ p.numOfDeleted = o.numOfDeleted
         /\ p.numOfFreeSectors = o.numOfFreeSectors - s
         /\ Free(p) = Free(o) + s
<1> DEFINE f == Forward([track |-> o.freeTrack, sector |-> o.freeSector], s)
<1>1. o.freeTrack \in Nat /\ o.freeSector \in Nat /\ o.numOfFreeSectors \in Nat
  BY DEF Infos
<1>2. /\ f.track \in Nat /\ f.sector \in Nat
      /\ (f.track - 1) * SECTORS_PER_TRACK + f.sector
           = (o.freeTrack - 1) * SECTORS_PER_TRACK + o.freeSector + s
  BY <1>1, ForwardMoves
<1>3. p = [o EXCEPT !.freeTrack = f.track, !.freeSector = f.sector, !.numOfFreeSectors = @ - s]
  BY DEF LessFree
<1> HIDE DEF f
<1>4. o.numOfFreeSectors - s \in Nat
  BY <1>1
<1>5. /\ p \in Infos /\ p.numOfFiles = o.numOfFiles /\ p.numOfDeleted = o.numOfDeleted
      /\ p.numOfFreeSectors = o.numOfFreeSectors - s
      /\ p.freeTrack = f.track /\ p.freeSector = f.sector
  BY <1>2, <1>3, <1>4 DEF Infos
<1> QED
  BY <1>2, <1>5 DEF Free

\* Bytes that fit replace what was there.
LEMMA WriteAtEffect ==
  ASSUME NEW data \in Contents, NEW p \in Int, NEW bytes \in Seq(Cells), NEW w, w = WriteAt(data, p, bytes)
  PROVE  /\ w \in Contents
         /\ \A x \in 0 .. FreeSectors * SECTOR_SZ - 1 :
              w[x] = IF p <= x /\ x < p + Len(bytes) THEN bytes[x - p + 1] ELSE data[x]
<1>1. DOMAIN data = 0 .. FreeSectors * SECTOR_SZ - 1
  BY DEF Contents
<1>2. Len(bytes) \in Nat /\ \A k \in 1 .. Len(bytes) : bytes[k] \in Cells
  OBVIOUS
<1>3. w = [x \in DOMAIN data |-> IF p <= x /\ x < p + Len(bytes) THEN bytes[x - p + 1] ELSE data[x]]
  BY DEF WriteAt
<1>4. FreeSectors * SECTOR_SZ \in Int
  BY TrdAssumption DEF FreeSectors
<1>5. \A x \in DOMAIN data : p <= x /\ x < p + Len(bytes) => x - p + 1 \in 1 .. Len(bytes)
  BY <1>1, <1>2, <1>4
<1>6. \A x \in DOMAIN data : data[x] \in Cells
  BY DEF Contents
<1> QED
  BY <1>1, <1>2, <1>3, <1>5, <1>6 DEF Contents

LEMMA Concatenated ==
  ASSUME NEW f \in Seq(Cells), NEW g \in Seq(Cells)
  PROVE  /\ f \o g \in Seq(Cells) /\ Len(f \o g) = Len(f) + Len(g)
         /\ \A k \in 1 .. Len(f) + Len(g) : (f \o g)[k] = IF k <= Len(f) THEN f[k] ELSE g[k - Len(f)]
OBVIOUS

\* The calls of the directive.
Calls ==
  {q \in [id : Nat \ {0}, name : TrdNames, start : TrdStarts, length : SaveLengths,
          autostart : BOOLEAN, lmv : {-1} \cup SaveLengths, mode : {"normal", "replace", "add"}] :
     q.mode = "add" => ~q.autostart /\ q.lmv = -1}

LEMMA CallType ==
  ASSUME NEW q \in Calls
  PROVE  /\ q.id \in Nat \ {0} /\ q.name \in TrdNames
         /\ q.start \in Int /\ q.length \in Int /\ q.lmv \in Int
<1>1. SaveLengths \subseteq Int /\ TrdStarts \subseteq Int
  BY TrdAssumption
<1>2. /\ q.id \in Nat \ {0} /\ q.name \in TrdNames
      /\ q.start \in TrdStarts /\ q.length \in SaveLengths /\ q.lmv \in {-1} \cup SaveLengths
  BY DEF Calls
<1>3. q.lmv \in Int
  <2>1. CASE q.lmv \in SaveLengths
    BY <1>1, <2>1
  <2>2. CASE q.lmv \in {-1}
    BY <2>2
  <2> QED
    BY <1>2, <2>1, <2>2, Zenon
<1> QED
  BY <1>1, <1>2, <1>3, Zenon

\* What a call writes, and what it takes: the sectors its bytes need, and no more than a byte counts.
LEMMA SectorsNeeded ==
  ASSUME NEW q \in Calls, ~ArgumentsRefused(q), NEW b, b = BytesOf(q), NEW s, s = Sectors(q)
  PROVE  /\ s \in 1 .. MaxSectors
         /\ b \in Seq(Cells) /\ q.length \in 1 .. Len(b)
         /\ \A k \in 1 .. Len(b) : b[k][1] = q.id
         /\ Len(b) <= s * SECTOR_SZ /\ s * SECTOR_SZ - Len(b) \in 0 .. SECTOR_SZ - 1
<1> DEFINE a == IF Autostarts(q) THEN AutostartSize ELSE 0
           x == q.length + SECTOR_SZ - 1 + a
           y == x \div SECTOR_SZ
<1>1. /\ SECTOR_SZ \in Nat \ {0} /\ SECTOR_SZ \in Nat /\ MaxSectors \in Nat
      /\ AutostartSize \in Nat /\ AutostartSize <= SECTOR_SZ
      /\ SaveLengths \subseteq Int
  BY TrdAssumption
<1>2. q.length \in Int /\ q.id \in Nat /\ q.autostart \in BOOLEAN /\ (q.mode = "add" => ~q.autostart)
  BY <1>1 DEF Calls
<1>3. 0 < q.length /\ q.length <= MaxSectors * SECTOR_SZ /\ s # 0
  <2>1. MaxSectors * SECTOR_SZ \in Int
    BY <1>1
  <2> QED
    BY <1>2, <2>1 DEF ArgumentsRefused
<1>4. a \in Nat /\ a <= SECTOR_SZ
  BY <1>1
<1>5. s = y % (MaxSectors + 1)
  BY DEF Sectors
<1> HIDE DEF a
<1>6. x \in Nat
  BY <1>1, <1>2, <1>3, <1>4
<1>7. y \in Nat /\ x % SECTOR_SZ \in 0 .. SECTOR_SZ - 1 /\ x = y * SECTOR_SZ + (x % SECTOR_SZ)
  BY <1>1, <1>6, Division
<1> HIDE DEF y
<1>8. PICK r \in 0 .. SECTOR_SZ - 1 : x = y * SECTOR_SZ + r
  BY <1>7
<1>9. y * SECTOR_SZ \in Int
  BY <1>1, <1>7
<1>10. y <= MaxSectors + 1
  <2> SUFFICES ASSUME y >= MaxSectors + 2 PROVE FALSE
    BY <1>1, <1>7
  <2>1. (MaxSectors + 2) * SECTOR_SZ <= y * SECTOR_SZ
    BY <1>1, <1>7, Scaled
  <2>2. (MaxSectors + 2) * SECTOR_SZ = MaxSectors * SECTOR_SZ + SECTOR_SZ + SECTOR_SZ
    BY <1>1
  <2>3. MaxSectors * SECTOR_SZ \in Int
    BY <1>1
  <2> DEFINE u == MaxSectors * SECTOR_SZ
             v == y * SECTOR_SZ
  <2>4. u \in Int /\ v \in Int /\ u + SECTOR_SZ + SECTOR_SZ <= v /\ q.length <= u /\ x = v + r
    BY <1>3, <1>8, <1>9, <2>1, <2>2, <2>3
  <2> HIDE DEF u, v
  <2>5. q.length + SECTOR_SZ - 1 + a = v + r
    BY <2>4
  <2> QED
    BY <1>1, <1>2, <1>4, <2>4, <2>5
<1>11. y # MaxSectors + 1
  <2>1. (MaxSectors + 1) % (MaxSectors + 1) = 0
    <3>1. ASSUME NEW m \in Nat PROVE (m + 1) % (m + 1) = 0
      OBVIOUS
    <3> QED
      BY <1>1, <3>1
  <2> QED
    BY <1>3, <1>5, <2>1
<1>12. s = y
  <2>1. ASSUME NEW m \in Nat, NEW k \in 0 .. m PROVE k % (m + 1) = k
    OBVIOUS
  <2>2. y \in 0 .. MaxSectors
    BY <1>1, <1>7, <1>10, <1>11
  <2> QED
    BY <1>1, <1>5, <2>1, <2>2
<1>13. s \in 1 .. MaxSectors
  BY <1>1, <1>3, <1>7, <1>10, <1>11, <1>12
<1>14. /\ b \in Seq(Cells) /\ Len(b) = q.length + a
       /\ \A k \in 1 .. Len(b) : b[k][1] = q.id
  <2> DEFINE f == [k \in 1 .. q.length |-> <<q.id, k>>]
             g == [k \in 1 .. AutostartSize |-> <<q.id, -k>>]
  <2>1. f \in Seq(Cells) /\ Len(f) = q.length /\ \A k \in 1 .. q.length : f[k] = <<q.id, k>>
    BY <1>2, <1>3 DEF Cells
  <2>2. g \in Seq(Cells) /\ Len(g) = AutostartSize /\ \A k \in 1 .. AutostartSize : g[k] = <<q.id, -k>>
    BY <1>1, <1>2 DEF Cells
  <2>3. b = f \o IF Autostarts(q) THEN g ELSE << >>
    BY <1>2 DEF BytesOf, Autostarts
  <2> HIDE DEF f, g
  <2>4. CASE Autostarts(q)
    <3>1. b = f \o g /\ a = AutostartSize
      BY <2>3, <2>4 DEF a
    <3>2. b \in Seq(Cells) /\ Len(b) = q.length + a /\ Len(b) = Len(f) + Len(g)
      BY <2>1, <2>2, <3>1, Concatenated
    <3>3. \A k \in 1 .. Len(b) : b[k] = IF k <= Len(f) THEN f[k] ELSE g[k - Len(f)]
      <4>1. f \in Seq(Cells) /\ g \in Seq(Cells)
        BY <2>1, <2>2
      <4>2. \A k \in 1 .. Len(f) + Len(g) : (f \o g)[k] = IF k <= Len(f) THEN f[k] ELSE g[k - Len(f)]
        BY <4>1, Concatenated, Zenon
      <4> QED
        BY <3>1, <3>2, <4>2, Zenon
    <3>4. \A k \in 1 .. Len(b) : k <= Len(f) => k \in 1 .. q.length
      BY <1>2, <2>1
    <3>5. \A k \in 1 .. Len(b) : ~(k <= Len(f)) => k - Len(f) \in 1 .. AutostartSize
      BY <1>1, <1>2, <2>1, <3>1, <3>2
    <3>6. ASSUME NEW k \in 1 .. Len(b) PROVE b[k][1] = q.id
      <4>1. CASE k <= Len(f)
        BY <2>1, <3>3, <3>4, <4>1
      <4>2. CASE ~(k <= Len(f))
        BY <2>2, <3>3, <3>5, <4>2
      <4> QED
        BY <4>1, <4>2
    <3> QED
      BY <3>2, <3>6
  <2>5. CASE ~Autostarts(q)
    <3>1. b = f /\ a = 0
      BY <2>1, <2>3, <2>5 DEF a
    <3> QED
      BY <1>2, <2>1, <3>1
  <2> QED
    BY <2>4, <2>5
<1>15. /\ Len(b) <= s * SECTOR_SZ /\ s * SECTOR_SZ - Len(b) \in 0 .. SECTOR_SZ - 1
       /\ q.length \in 1 .. Len(b)
  <2> DEFINE v == y * SECTOR_SZ
  <2>1. v \in Int /\ x = v + r
    BY <1>8, <1>9
  <2>2. q.length + SECTOR_SZ - 1 + a = v + r
    BY <2>1
  <2> HIDE DEF v
  <2>3. v - Len(b) = SECTOR_SZ - 1 - r
    BY <1>1, <1>2, <1>4, <1>14, <2>1, <2>2, SMTT(40)
  <2>4. Len(b) <= v /\ v - Len(b) \in 0 .. SECTOR_SZ - 1 /\ q.length \in 1 .. Len(b)
    BY <1>1, <1>2, <1>3, <1>4, <1>14, <2>1, <2>3, SMTT(40)
  <2> QED
    BY <1>12, <2>4 DEF v
<1> QED
  BY <1>13, <1>14, <1>15

-----------------------------------------------------------------------------
(* Files and their bytes.                                                   *)

Files == [name : RecordNames, data : Seq(Cells), length : Int]

\* The entry e of an image with these bytes is the file f.
Holds(data, e, f) ==
  /\ e.name = f.name.base /\ e.ext = f.name.ext /\ e.alt = f.name.long
  /\ e.length = f.length /\ e.sectorLength * SECTOR_SZ = Len(f.data)
  /\ \A b \in 1 .. Len(f.data) : f.data[b] # ZeroByte => data[Place(e) + b - 1] = f.data[b]

HoldsFiles(t, ks) ==
  LET live == LiveFiles(t.catalog, t.info.numOfFiles)
  IN  /\ Cardinality(live) = Len(ks)
      /\ \A i \in live : Holds(t.data, t.catalog[i], ks[Rank(live, i)])

\* Files that may be kept after m calls: each of its own call, with bytes that are no zeroes.
WellKept(f, m) ==
  /\ Len(f.data) > 0 /\ f.length <= Len(f.data)
  /\ \A k \in 1 .. f.length : f.data[k] # ZeroByte
  /\ f.data[1][1] \in 1 .. m
KeptFiles(ks, m) ==
  /\ ks \in Seq(Files)
  /\ \A k \in 1 .. Len(ks) : WellKept(ks[k], m)
  /\ \A j, k \in 1 .. Len(ks) : ks[j].data[1][1] = ks[k].data[1][1] => j = k

\* A file is where its bytes are.
LEMMA HoldsMoved ==
  ASSUME NEW e \in Entries, NEW g \in Entries, NEW f \in Files, NEW data, NEW w, Holds(data, e, f),
         g.name = e.name, g.ext = e.ext, g.alt = e.alt, g.length = e.length,
         g.sectorLength = e.sectorLength,
         \A k \in 0 .. e.sectorLength * SECTOR_SZ - 1 : w[Place(g) + k] = data[Place(e) + k]
  PROVE  Holds(w, g, f)
<1>1. At(e) \in Int /\ At(g) \in Int /\ SECTOR_SZ \in Nat /\ e.sectorLength \in Nat
  <2>1. SECTORS_PER_TRACK \in Nat /\ SECTOR_SZ \in Nat
    BY TrdAssumption
  <2>2. /\ e.startTrack \in Nat /\ e.startSector \in Nat /\ e.sectorLength \in Nat
        /\ g.startTrack \in Nat /\ g.startSector \in Nat
    BY DEF Entries
  <2> QED
    BY <2>1, <2>2 DEF At
<1>2. Place(e) \in Int /\ Place(g) \in Int
  BY <1>1, PlaceIsAt, Scaled
<1>3. Len(f.data) \in Nat /\ Len(f.data) = e.sectorLength * SECTOR_SZ
  BY DEF Holds, Files
<1>4. ASSUME NEW b \in 1 .. Len(f.data), f.data[b] # ZeroByte PROVE w[Place(g) + b - 1] = f.data[b]
  <2>1. data[Place(e) + b - 1] = f.data[b]
    BY <1>4 DEF Holds
  <2>2. b - 1 \in 0 .. e.sectorLength * SECTOR_SZ - 1
    <3> DEFINE l == e.sectorLength * SECTOR_SZ
    <3>1. l \in Nat /\ b \in 1 .. l
      BY <1>3
    <3> HIDE DEF l
    <3>2. b - 1 \in 0 .. l - 1
      BY <3>1
    <3> QED
      BY <3>2 DEF l
  <2>3. w[Place(g) + (b - 1)] = data[Place(e) + (b - 1)]
    BY <2>2
  <2>4. Place(g) + (b - 1) = Place(g) + b - 1 /\ Place(e) + (b - 1) = Place(e) + b - 1
    BY <1>2
  <2> QED
    BY <2>1, <2>3, <2>4
<1> QED
  BY <1>4 DEF Holds

LEMMA PaddedEffect ==
  ASSUME NEW b \in Seq(Cells), NEW s \in Nat, s * SECTOR_SZ - Len(b) \in 0 .. SECTOR_SZ - 1,
         NEW p, p = Padded(b)
  PROVE  /\ p \in Seq(Cells) /\ Len(p) = s * SECTOR_SZ
         /\ \A k \in 1 .. Len(p) : p[k] = IF k <= Len(b) THEN b[k] ELSE ZeroByte
<1> DEFINE z == (-Len(b)) % SECTOR_SZ
           g == [k \in 1 .. z |-> ZeroByte]
<1>1. SECTOR_SZ \in Nat \ {0} /\ Len(b) \in Nat /\ s * SECTOR_SZ \in Nat
  BY TrdAssumption
<1>2. z = s * SECTOR_SZ - Len(b)
  <2>1. ASSUME NEW d \in Nat \ {0}, NEW l \in Nat, s * d - l \in 0 .. d - 1
        PROVE  (-l) % d = s * d - l
    <3>1. (-l) = (-s) * d + (s * d - l)
      <4>1. (-s) * d = -(s * d) /\ s * d \in Int
        OBVIOUS
      <4>2. ASSUME NEW u \in Int, NEW v \in Int, v = -u PROVE (-l) = v + (u - l)
        BY <4>2
      <4> QED
        BY <4>1, <4>2
    <3>2. ASSUME NEW q \in Int, NEW r \in 0 .. d - 1, NEW a \in Int, a = d * q + r PROVE a % d = r
      BY <3>2
    <3>3. d * (-s) = (-s) * d /\ -s \in Int /\ -l \in Int
      OBVIOUS
    <3>4. (-l) = d * (-s) + (s * d - l)
      BY <3>1, <3>3, Zenon
    <3> QED
      BY <2>1, <3>2, <3>3, <3>4, Zenon
  <2> QED
    BY <1>1, <2>1, Zenon
<1>3. p = b \o g
  BY DEF Padded
<1>4. z \in Nat
  BY <1>1, <1>2
<1> HIDE DEF z
<1>5. g \in Seq(Cells) /\ Len(g) = z /\ \A k \in 1 .. z : g[k] = ZeroByte
  BY <1>4 DEF Cells, ZeroByte
<1> HIDE DEF g
<1>6. /\ p \in Seq(Cells) /\ Len(p) = Len(b) + z
      /\ \A k \in 1 .. Len(b) + Len(g) : p[k] = IF k <= Len(b) THEN b[k] ELSE g[k - Len(b)]
  <2>1. /\ b \o g \in Seq(Cells) /\ Len(b \o g) = Len(b) + Len(g)
        /\ \A k \in 1 .. Len(b) + Len(g) : (b \o g)[k] = IF k <= Len(b) THEN b[k] ELSE g[k - Len(b)]
    BY <1>5, Concatenated, Zenon
  <2> QED
    BY <1>3, <1>5, <2>1, Zenon
<1>7. Len(p) = s * SECTOR_SZ
  BY <1>1, <1>2, <1>6
<1>8. ASSUME NEW k \in 1 .. Len(p) PROVE p[k] = IF k <= Len(b) THEN b[k] ELSE ZeroByte
  <2>1. k \in 1 .. Len(b) + Len(g) /\ (~(k <= Len(b)) => k - Len(b) \in 1 .. z)
    BY <1>1, <1>4, <1>5, <1>6
  <2> QED
    BY <1>5, <1>6, <2>1
<1> QED
  BY <1>6, <1>7, <1>8

\* The sectors of a laid out image are on the disk, and so are the bytes in them.
LEMMA OnDisk ==
  ASSUME NEW t, Good(t), NEW n, n = t.info.numOfFiles
  PROVE  /\ n \in Nat /\ n <= NUM_OF_FILES_MAX /\ NUM_OF_FILES_MAX \in Nat
         /\ Free(t.info) \in Nat /\ FreeSectors \in Nat /\ t.info.numOfFreeSectors \in Nat
         /\ Free(t.info) + t.info.numOfFreeSectors = FreeSectors
         /\ \A i \in 1 .. n : /\ i \in 1 .. NUM_OF_FILES_MAX /\ t.catalog[i] \in Entries
                              /\ At(t.catalog[i]) \in Nat
                              /\ At(t.catalog[i]) + t.catalog[i].sectorLength <= Free(t.info)
                              /\ t.catalog[i].sectorLength \in Nat
<1>1. /\ t.catalog \in Catalogs /\ t.info \in Infos /\ n \in 0 .. NUM_OF_FILES_MAX
      /\ t.info.numOfFreeSectors \in Nat
  BY ImageType DEF Good
<1>2. NUM_OF_FILES_MAX \in Nat
  BY TrdAssumption
<1>3. FreeSectors \in Nat
  BY TrdAssumption DEF FreeSectors
<1>4. \A i \in 1 .. n : i \in 1 .. NUM_OF_FILES_MAX
  BY <1>1, <1>2
<1>5. \A i \in 1 .. n : /\ t.catalog[i] \in Entries /\ At(t.catalog[i]) \in Int
                        /\ t.catalog[i].sectorLength \in Nat /\ End(t.catalog, i) \in Int
                        /\ End(t.catalog, i) = At(t.catalog[i]) + t.catalog[i].sectorLength
  <2>1. \A i \in 1 .. n : End(t.catalog, i) = At(t.catalog[i]) + t.catalog[i].sectorLength
    BY <1>1 DEF End
  <2> QED
    BY <1>1, <1>4, <2>1, EntryType
<1>6. \A i \in 1 .. n : 0 <= At(t.catalog[i]) /\ End(t.catalog, i) <= Free(t.info)
  BY DEF Good, LaidOut
<1>7. Free(t.info) \in Nat
  <2>1. CASE n = 0
    BY <2>1 DEF Good, End
  <2>2. CASE n # 0
    <3>1. n \in 1 .. n
      BY <1>1, <2>2
    <3>2. Free(t.info) = End(t.catalog, n)
      BY DEF Good
    <3> QED
      BY <1>5, <1>6, <3>1, <3>2
  <2> QED
    BY <2>1, <2>2
<1>8. Free(t.info) + t.info.numOfFreeSectors = FreeSectors
  BY DEF Good
<1> QED
  BY <1>1, <1>2, <1>3, <1>4, <1>5, <1>6, <1>7, <1>8

\* One more entry, which begins where the others end.
LEMMA FreshLaidOut ==
  ASSUME NEW c \in Catalogs, NEW n \in Nat, n + 1 \in 1 .. NUM_OF_FILES_MAX, LaidOut(c, n),
         NEW e \in Entries, e.first # 0, e.sectorLength \in 1 .. MaxSectors, At(e) = End(c, n),
         NEW d, d = With(c, n + 1, e)
  PROVE  /\ d \in Catalogs /\ d[n + 1] = e /\ LaidOut(d, n + 1)
         /\ \A i \in 1 .. NUM_OF_FILES_MAX : i # n + 1 => d[i] = c[i]
<1>1. DOMAIN c = 1 .. NUM_OF_FILES_MAX /\ NUM_OF_FILES_MAX \in Nat
  BY TrdAssumption DEF Catalogs
<1>2. d = [c EXCEPT ![n + 1] = e]
  BY DEF With
<1>3. d \in Catalogs /\ d[n + 1] = e /\ \A i \in 1 .. NUM_OF_FILES_MAX : i # n + 1 => d[i] = c[i]
  BY <1>1, <1>2 DEF Catalogs
<1>4. \A i \in 1 .. n : i \in 1 .. NUM_OF_FILES_MAX /\ i # n + 1 /\ i - 1 \in 0 .. n
  BY <1>1
<1>5. \A i \in 0 .. n : End(d, i) = End(c, i)
  <2>1. End(d, 0) = End(c, 0)
    BY DEF End
  <2>2. \A i \in 0 .. n : i = 0 \/ i \in 1 .. n
    OBVIOUS
  <2>3. \A i \in 1 .. n : d[i] = c[i]
    BY <1>3, <1>4
  <2> QED
    BY <2>1, <2>2, <2>3 DEF End
<1>6. End(d, n + 1) = At(e) + e.sectorLength
  BY <1>3 DEF End
<1>7. \A i \in 1 .. n : /\ At(c[i]) \in Int /\ End(c, i) \in Int
  BY <1>4, EntryType
<1>8. e.sectorLength \in Nat /\ At(e) \in Int /\ 0 <= At(e)
  <2>1. e.sectorLength \in Nat
    BY DEF Entries
  <2>2. CASE n = 0
    BY <2>1, <2>2 DEF End
  <2>3. CASE n # 0
    <3>1. n \in 1 .. n /\ n \in 1 .. NUM_OF_FILES_MAX
      BY <1>4, <2>3
    <3>2. End(c, n) = At(c[n]) + c[n].sectorLength
      BY <3>1 DEF End
    <3>3. 0 <= At(c[n]) /\ At(c[n]) \in Int /\ c[n].sectorLength \in Nat
      BY <3>1, EntryType DEF LaidOut
    <3> QED
      BY <2>1, <3>2, <3>3
  <2> QED
    BY <2>2, <2>3
<1>9. \A i \in 1 .. n + 1 : i \in 1 .. n \/ i = n + 1
  OBVIOUS
<1>10. LaidOut(d, n + 1)
  <2>1. ASSUME NEW i \in 1 .. NUM_OF_FILES_MAX PROVE d[i].first = 0 <=> i > n + 1
    <3>1. c[i].first = 0 <=> i > n
      BY DEF LaidOut
    <3>2. i # n + 1 => (i > n <=> i > n + 1)
      OBVIOUS
    <3> QED
      BY <1>3, <3>1, <3>2
  <2>2. ASSUME NEW i \in 1 .. n + 1
        PROVE  d[i].sectorLength \in 1 .. MaxSectors /\ At(d[i]) = End(d, i - 1)
    <3>1. CASE i = n + 1
      <4>1. End(d, n) = End(c, n) /\ (n + 1) - 1 = n
        BY <1>5
      <4> QED
        BY <1>3, <3>1, <4>1
    <3>2. CASE i \in 1 .. n
      <4>1. c[i].sectorLength \in 1 .. MaxSectors /\ At(c[i]) = End(c, i - 1)
        BY <3>2 DEF LaidOut
      <4> QED
        BY <1>3, <1>4, <1>5, <3>2, <4>1
    <3> QED
      BY <1>9, <3>1, <3>2
  <2>3. ASSUME NEW i \in 1 .. n + 1
        PROVE  0 <= At(d[i]) /\ End(d, i) <= End(d, n + 1)
    <3>1. CASE i = n + 1
      BY <1>3, <1>6, <1>8, <3>1
    <3>2. CASE i \in 1 .. n
      <4>1. 0 <= At(c[i]) /\ End(c, i) <= End(c, n)
        BY <3>2 DEF LaidOut
      <4>2. d[i] = c[i] /\ End(d, i) = End(c, i)
        BY <1>3, <1>4, <1>5, <3>2
      <4>3. End(c, i) <= At(e) + e.sectorLength
        BY <1>7, <1>8, <3>2, <4>1
      <4> QED
        BY <1>6, <4>1, <4>2, <4>3
    <3> QED
      BY <1>9, <3>1, <3>2
  <2>4. ASSUME NEW i \in 1 .. n + 1, NEW j \in 1 .. n + 1, i < j
        PROVE  End(d, i) <= At(d[j])
    <3>1. i \in 1 .. n
      BY <2>4
    <3>2. d[i] = c[i] /\ End(d, i) = End(c, i)
      BY <1>3, <1>4, <1>5, <3>1
    <3>3. CASE j = n + 1
      <4>1. End(c, i) <= End(c, n)
        BY <3>1 DEF LaidOut
      <4> QED
        BY <1>3, <3>2, <3>3, <4>1
    <3>4. CASE j \in 1 .. n
      <4>1. End(c, i) <= At(c[j])
        BY <2>4, <3>1, <3>4 DEF LaidOut
      <4> QED
        BY <1>3, <1>4, <3>2, <3>4, <4>1
    <3> QED
      BY <1>9, <3>3, <3>4
  <2> QED
    BY <2>1, <2>2, <2>3, <2>4 DEF LaidOut
<1> QED
  BY <1>3, <1>10

LEMMA AcceptedEffect ==
  ASSUME NEW u \in Images, NEW q, Sectors(q) \in Nat, Sectors(q) <= u.info.numOfFreeSectors,
         NEW at \in Int, BytesOf(q) \in Seq(Cells)
  PROVE  /\ Accepted(u, at, q).ok = TRUE /\ Accepted(u, at, q).trd \in Images
         /\ Accepted(u, at, q).trd.catalog = u.catalog
         /\ Accepted(u, at, q).trd.data = WriteAt(u.data, at, BytesOf(q))
         /\ Accepted(u, at, q).trd.info = LessFree(u.info, Sectors(q))
<1> DEFINE s == Sectors(q)
           w == WriteAt(u.data, at, BytesOf(q))
           v == [u EXCEPT !.data = w]
           o == LessFree(u.info, s)
<1>1. u.catalog \in Catalogs /\ u.info \in Infos /\ u.data \in Contents
  BY ImageType
<1>2. w \in Contents
  BY <1>1, WriteAtEffect
<1>3. Accepted(u, at, q) = [ok |-> TRUE, trd |-> Taken(v, s)]
  BY DEF Accepted
<1> HIDE DEF w
<1>4. v \in Images /\ v.catalog = u.catalog /\ v.info = u.info /\ v.data = w
  BY <1>2 DEF Images
<1> HIDE DEF v
<1>5. o \in Infos
  BY <1>1, LessFreeEffect
<1>6. Taken(v, s) = [v EXCEPT !.info = o]
  BY <1>4 DEF Taken
<1> HIDE DEF o, s
<1>7. /\ Taken(v, s) \in Images /\ Taken(v, s).catalog = v.catalog /\ Taken(v, s).data = v.data
      /\ Taken(v, s).info = o
  BY <1>4, <1>5, <1>6 DEF Images
<1> QED
  BY <1>3, <1>4, <1>7 DEF w, o, s

\* The file a call that adds none to another asks for.
FileOf(q) ==
  [name |-> Recorded(q), data |-> Padded(BytesOf(q)), length |-> IF q.lmv = -1 THEN q.length ELSE q.lmv]

\* The record has the name that is asked for, and the letters are compared when it has them.
LEMMA BuiltIsRecorded ==
  ASSUME NEW q \in Calls
  PROVE  /\ Built(q) = Recorded(q)
         /\ Recorded(q).base = q.name.base /\ Recorded(q).ext = q.name.ext
         /\ Recorded(q) \in RecordNames
         /\ Compared(q) = IF Three(q) THEN 11 ELSE 9
<1> DEFINE w == q.name
           long == IF w.ext = "B" THEN q.length ELSE IF w.long = NoLetters THEN q.start ELSE w.long
<1>1. /\ w.base \in Words /\ w.ext \in Words /\ w.long \in Int
      /\ w = [base |-> w.base, ext |-> w.ext, long |-> w.long]
      /\ q.length \in Int /\ q.start \in Int
  BY CallType, NameWords
<1>2. Compared(q) = IF w.ext = "B" /\ q.mode # "add" THEN 9 ELSE IF w.long = NoLetters THEN 9 ELSE 11
  BY DEF Compared, IsB, Lname
<1>3. Built(q) = [w EXCEPT !.long = IF w.ext = "B" THEN q.length ELSE IF Compared(q) = 9 THEN q.start ELSE w.long]
  BY DEF Built, IsB
<1>4. Compared(q) = IF Three(q) THEN 11 ELSE 9
  BY <1>2 DEF Three
<1>5. Recorded(q) = [base |-> w.base, ext |-> w.ext, long |-> long]
  <2>1. CASE w.ext = "B"
    BY <2>1 DEF Recorded
  <2>2. CASE w.ext # "B" /\ w.long = NoLetters
    BY <2>2 DEF Recorded
  <2>3. CASE w.ext # "B" /\ w.long # NoLetters
    BY <2>3 DEF Recorded
  <2> QED
    BY <2>1, <2>2, <2>3
<1>6. Built(q) = [w EXCEPT !.long = long]
  BY <1>2, <1>3
<1>7. long \in Int
  BY <1>1
<1> HIDE DEF long, w
<1>8. Built(q) = [base |-> w.base, ext |-> w.ext, long |-> long]
  <2> DEFINE x == w.base
             y == w.ext
             z == w.long
  <2>1. w = [base |-> x, ext |-> y, long |-> z]
    BY <1>1
  <2> HIDE DEF x, y, z
  <2>2. [w EXCEPT !.long = long] = [base |-> x, ext |-> y, long |-> long]
    BY <2>1
  <2> QED
    BY <1>6, <2>2 DEF x, y
<1>9. Recorded(q) \in RecordNames
  BY <1>1, <1>5, <1>7 DEF RecordNames
<1>10. Recorded(q).base = w.base /\ Recorded(q).ext = w.ext
  BY <1>5
<1> QED
  BY <1>4, <1>5, <1>8, <1>9, <1>10 DEF w

LEMMA FileOfCall ==
  ASSUME NEW q \in Calls, ~ArgumentsRefused(q), NEW f, f = FileOf(q)
  PROVE  /\ f \in Files /\ WellKept(f, q.id) /\ f.data[1][1] = q.id
         /\ f.data = Padded(BytesOf(q)) /\ Len(f.data) = Sectors(q) * SECTOR_SZ
<1> DEFINE b == BytesOf(q)
           s == Sectors(q)
<1>1. /\ s \in 1 .. MaxSectors /\ b \in Seq(Cells) /\ q.length \in 1 .. Len(b)
      /\ \A k \in 1 .. Len(b) : b[k][1] = q.id
      /\ s * SECTOR_SZ - Len(b) \in 0 .. SECTOR_SZ - 1 /\ Len(b) <= s * SECTOR_SZ
  BY SectorsNeeded
<1>2. s \in Nat
  BY <1>1
<1>3. /\ f.data \in Seq(Cells) /\ Len(f.data) = s * SECTOR_SZ
      /\ \A k \in 1 .. Len(f.data) : f.data[k] = IF k <= Len(b) THEN b[k] ELSE ZeroByte
  BY <1>1, <1>2, PaddedEffect DEF FileOf
<1>4. /\ q.lmv \in Int /\ q.id \in Nat \ {0} /\ (q.lmv # -1 => q.lmv <= q.length)
      /\ q.length \in Int
  <2>1. q.lmv \in Int /\ q.length \in Int /\ q.id \in Nat \ {0}
    BY CallType
  <2> QED
    BY <2>1 DEF ArgumentsRefused
<1>5. f.name = Recorded(q) /\ Recorded(q) \in RecordNames
      /\ f.length = IF q.lmv = -1 THEN q.length ELSE q.lmv
  BY BuiltIsRecorded DEF FileOf
<1> HIDE DEF b, s
<1>6. f.length \in Int /\ f.length <= Len(b) /\ Len(b) \in Nat
  BY <1>1, <1>4, <1>5
<1>7. f \in Files
  BY <1>3, <1>4, <1>5, <1>6 DEF Files, FileOf
<1>8. Len(b) <= Len(f.data) /\ Len(f.data) \in Nat
  BY <1>1, <1>3
<1>9. \A k \in 1 .. Len(b) : f.data[k] = b[k] /\ f.data[k][1] = q.id
  BY <1>1, <1>3, <1>8
<1>10. \A k \in 1 .. f.length : f.data[k] # ZeroByte
  <2>1. \A k \in 1 .. f.length : k \in 1 .. Len(b)
    BY <1>6
  <2>2. ZeroByte[1] = 0
    BY DEF ZeroByte
  <2> QED
    BY <1>4, <1>9, <2>1, <2>2
<1>11. f.data[1][1] = q.id /\ Len(f.data) > 0
  BY <1>1, <1>6, <1>8, <1>9
<1>12. WellKept(f, q.id)
  BY <1>4, <1>6, <1>8, <1>10, <1>11 DEF WellKept
<1> QED
  BY <1>3, <1>7, <1>11, <1>12 DEF FileOf, b, s

\* TRD_AddFile of a new file: an entry behind the last one, over free sectors.
LEMMA NewEntryEffect ==
  ASSUME NEW t, NEW now, Good(now), NEW n, n = now.info.numOfFiles,
         NEW q \in Calls, ~ArgumentsRefused(q), q.mode # "add",
         NEW r, r = NewEntry(t, now, n + 1, q)
  PROVE  \/ r = Refused(t)
         \/ /\ r.ok = TRUE /\ Good(r.trd)
            /\ \A ks \in Seq(Files) : HoldsFiles(now, ks) => HoldsFiles(r.trd, Append(ks, FileOf(q)))
<1>1. CASE \/ n + 1 > NUM_OF_FILES_MAX
           \/ now.catalog[n + 1].first # 0 \/ now.info.numOfFreeSectors < Sectors(q)
  BY <1>1 DEF NewEntry
<1>2. CASE ~(\/ n + 1 > NUM_OF_FILES_MAX
             \/ now.catalog[n + 1].first # 0 \/ now.info.numOfFreeSectors < Sectors(q))
  <2> DEFINE b == BytesOf(q)
             s == Sectors(q)
             e == Entry(now, q)
             c == With(now.catalog, n + 1, e)
             o == MoreFiles(now.info, 1)
             u == [now EXCEPT !.catalog = c, !.info = o]
             at == fileOffset(now.info.freeTrack, now.info.freeSector)
             d == r.trd
  <2>1. /\ s \in 1 .. MaxSectors /\ b \in Seq(Cells) /\ s \in Nat
        /\ Len(b) <= s * SECTOR_SZ /\ Len(b) \in Nat
    BY SectorsNeeded
  <2>2. /\ now \in Images /\ now.catalog \in Catalogs /\ now.info \in Infos /\ now.data \in Contents
        /\ LaidOut(now.catalog, n) /\ Free(now.info) = End(now.catalog, n)
        /\ now.info.numOfDeleted = Cardinality(DeletedFiles(now.catalog, n))
    BY ImageType DEF Good
  <2>3. /\ n \in Nat /\ NUM_OF_FILES_MAX \in Nat /\ Free(now.info) \in Nat /\ FreeSectors \in Nat
        /\ now.info.numOfFreeSectors \in Nat /\ Free(now.info) + now.info.numOfFreeSectors = FreeSectors
    BY OnDisk
  <2>4. n + 1 \in 1 .. NUM_OF_FILES_MAX /\ s <= now.info.numOfFreeSectors
    BY <1>2, <2>1, <2>3, SMTT(40)
  <2>5. at = Free(now.info) * SECTOR_SZ /\ at \in Int
    <3>1. at = Free(now.info) * SECTOR_SZ
      BY FreeIsPlace
    <3>2. Free(now.info) \in Int
      BY <2>3
    <3> QED
      BY <3>1, <3>2, ScaledInt
  <2>6. r = Accepted(u, at, q)
    BY <1>2 DEF NewEntry
  <2>7. /\ e \in Entries /\ e.first = 2 /\ e.sectorLength = s /\ At(e) = Free(now.info)
        /\ e.name = Recorded(q).base /\ e.ext = Recorded(q).ext /\ e.alt = Recorded(q).long
        /\ e.length = FileOf(q).length
    <3>1. q.lmv \in Int /\ q.length \in Int
      BY CallType
    <3>2. now.info.freeSector \in Nat /\ now.info.freeTrack \in Nat
      BY <2>2, ImageType
    <3> DEFINE w == Recorded(q)
    <3>3. /\ w \in RecordNames /\ Built(q) = w
          /\ q.name.base = w.base /\ q.name.ext = w.ext
      BY BuiltIsRecorded
    <3> HIDE DEF w
    <3>4. e = [first |-> 2, name |-> w.base, ext |-> w.ext, alt |-> w.long,
               length |-> IF q.lmv = -1 THEN q.length ELSE q.lmv, sectorLength |-> s,
               startSector |-> now.info.freeSector, startTrack |-> now.info.freeTrack]
      BY <3>3 DEF Entry
    <3>5. (IF q.lmv = -1 THEN q.length ELSE q.lmv) \in Int
      BY <3>1
    <3> HIDE DEF e, s
    <3>6. e \in Entries
      BY <2>1, <3>2, <3>3, <3>4, <3>5 DEF Entries, RecordNames
    <3> QED
      BY <3>4, <3>6 DEF At, Free, FileOf, w
  <2> HIDE DEF e, s
  <2>8. /\ c \in Catalogs /\ c[n + 1] = e /\ LaidOut(c, n + 1)
        /\ \A i \in 1 .. NUM_OF_FILES_MAX : i # n + 1 => c[i] = now.catalog[i]
    <3>1. e.first # 0 /\ e.sectorLength \in 1 .. MaxSectors /\ At(e) = End(now.catalog, n)
      BY <2>1, <2>2, <2>7
    <3>2. /\ c \in Catalogs /\ c[n + 1] = e /\ LaidOut(c, n + 1)
          /\ \A i \in 1 .. NUM_OF_FILES_MAX : i # n + 1 => c[i] = now.catalog[i]
      <4>1. /\ now.catalog \in Catalogs /\ n \in Nat /\ n + 1 \in 1 .. NUM_OF_FILES_MAX
            /\ LaidOut(now.catalog, n) /\ e \in Entries
        BY <2>2, <2>3, <2>4, <2>7
      <4>2. c = With(now.catalog, n + 1, e)
        OBVIOUS
      <4> HIDE DEF c
      <4> QED
        BY <3>1, <4>1, <4>2, FreshLaidOut
    <3> QED
      BY <3>2
  <2>9. /\ o \in Infos /\ o.numOfFiles = n + 1 /\ Free(o) = Free(now.info)
        /\ o.numOfFreeSectors = now.info.numOfFreeSectors /\ o.numOfDeleted = now.info.numOfDeleted
    <3>1. o = [now.info EXCEPT !.numOfFiles = @ + 1]
      BY DEF MoreFiles
    <3>2. n + 1 \in 0 .. NUM_OF_FILES_MAX
      BY <2>3, <2>4
    <3> HIDE DEF o
    <3> QED
      BY <2>2, <3>1, <3>2 DEF Infos, Free
  <2> HIDE DEF c, o
  <2>10. u \in Images /\ u.catalog = c /\ u.info = o /\ u.data = now.data
    BY <2>2, <2>8, <2>9 DEF Images
  <2> HIDE DEF u, at
  <2>11. /\ r.ok = TRUE /\ d \in Images /\ d.catalog = c
         /\ d.data = WriteAt(now.data, at, b) /\ d.info = LessFree(o, s)
    <3>1. Sectors(q) <= u.info.numOfFreeSectors /\ Sectors(q) \in Nat
      BY <2>1, <2>4, <2>9, <2>10 DEF s
    <3>2. u \in Images /\ at \in Int /\ BytesOf(q) \in Seq(Cells)
      BY <2>1, <2>5, <2>10
    <3>3. /\ Accepted(u, at, q).ok = TRUE /\ Accepted(u, at, q).trd \in Images
          /\ Accepted(u, at, q).trd.catalog = u.catalog
          /\ Accepted(u, at, q).trd.data = WriteAt(u.data, at, BytesOf(q))
          /\ Accepted(u, at, q).trd.info = LessFree(u.info, Sectors(q))
      BY <3>1, <3>2, AcceptedEffect
    <3> QED
      BY <2>6, <2>10, <3>3 DEF s
  <2>12. /\ d.info \in Infos /\ d.info.numOfFiles = n + 1 /\ Free(d.info) = Free(now.info) + s
         /\ d.info.numOfFreeSectors = now.info.numOfFreeSectors - s
         /\ d.info.numOfDeleted = now.info.numOfDeleted
    BY <2>1, <2>4, <2>9, <2>11, LessFreeEffect
  <2> HIDE DEF d
  <2>13. Good(d)
    <3>1. End(c, n + 1) = Free(now.info) + s
      BY <2>3, <2>7, <2>8 DEF End
    <3>2. DeletedFiles(c, n + 1) = DeletedFiles(now.catalog, n)
      <4>1. \A i \in 1 .. n + 1 : i \in 1 .. n \/ i = n + 1
        BY <2>3
      <4>2. \A i \in 1 .. n : i \in 1 .. n + 1 /\ i \in 1 .. NUM_OF_FILES_MAX /\ i # n + 1
        BY <2>3, <2>4
      <4> QED
        BY <2>7, <2>8, <4>1, <4>2 DEF DeletedFiles
    <3>3. Free(d.info) + d.info.numOfFreeSectors = FreeSectors
      BY <2>1, <2>3, <2>12
    <3> QED
      BY <2>2, <2>8, <2>11, <2>12, <3>1, <3>2, <3>3 DEF Good
  <2>14. ASSUME NEW ks \in Seq(Files), HoldsFiles(now, ks)
         PROVE  HoldsFiles(d, Append(ks, FileOf(q)))
    <3> DEFINE live == LiveFiles(now.catalog, n)
               more == LiveFiles(c, n + 1)
               lf == Append(ks, FileOf(q))
    <3>1. more = live \cup {n + 1}
      <4>1. \A i \in 1 .. n + 1 : i \in 1 .. n \/ i = n + 1
        BY <2>3
      <4>2. \A i \in 1 .. n : i \in 1 .. n + 1 /\ i \in 1 .. NUM_OF_FILES_MAX /\ i # n + 1
        BY <2>3, <2>4
      <4>3. n + 1 \in 1 .. n + 1
        BY <2>3
      <4> QED
        BY <2>7, <2>8, <4>1, <4>2, <4>3 DEF LiveFiles
    <3>2. live \in SUBSET (1 .. n)
      BY DEF LiveFiles
    <3>3. /\ Cardinality(live) = Len(ks)
          /\ \A i \in live : Holds(now.data, now.catalog[i], ks[Rank(live, i)])
      BY <2>14 DEF HoldsFiles
    <3> HIDE DEF live, more
    <3>4. /\ Cardinality(more) = Cardinality(live) + 1 /\ Rank(more, n + 1) = Cardinality(live) + 1
          /\ \A i \in live : Rank(more, i) = Rank(live, i)
      <4>1. n \in Nat
        BY <2>3
      <4>2. live \subseteq more /\ n + 1 \in more /\ \A i \in more : i \in live \/ i = n + 1
        BY <3>1
      <4>4. \A T :
              live \subseteq T /\ n + 1 \in T /\ (\A i \in T : i \in live \/ i = n + 1) =>
                /\ Cardinality(T) = Cardinality(live) + 1 /\ Rank(T, n + 1) = Cardinality(live) + 1
                /\ \A i \in live : Rank(T, i) = Rank(live, i)
        BY <3>2, <4>1, RankAppend
      <4> QED
        BY <4>2, <4>4
    <3>5. FileOf(q) \in Files /\ FileOf(q).name = Recorded(q) /\ FileOf(q).data = Padded(b)
          /\ Len(FileOf(q).data) = s * SECTOR_SZ
      BY FileOfCall DEF FileOf, s
    <3>6. /\ Len(lf) = Len(ks) + 1 /\ lf[Len(ks) + 1] = FileOf(q) /\ lf \in Seq(Files)
          /\ \A k \in 1 .. Len(ks) : lf[k] = ks[k]
      BY <3>5
    <3> HIDE DEF lf
    <3>7. /\ d.data \in Contents
          /\ \A x \in 0 .. FreeSectors * SECTOR_SZ - 1 :
               d.data[x] = IF at <= x /\ x < at + Len(b) THEN b[x - at + 1] ELSE now.data[x]
      BY <2>1, <2>2, <2>5, <2>11, WriteAtEffect
    <3>8. ASSUME NEW i \in live PROVE Holds(d.data, c[i], lf[Rank(more, i)])
      <4>1. i \in 1 .. n /\ i # n + 1 /\ c[i] = now.catalog[i]
        BY <2>3, <2>4, <2>8, <3>2
      <4>2. /\ c[i] \in Entries /\ At(c[i]) \in Nat /\ c[i].sectorLength \in Nat
            /\ At(c[i]) + c[i].sectorLength <= Free(now.info)
        BY <4>1, OnDisk
      <4>3. Rank(live, i) \in 1 .. Len(ks)
        BY <2>3, <3>2, <3>3, RankType
      <4>4. Holds(now.data, c[i], ks[Rank(live, i)]) /\ ks[Rank(live, i)] \in Files
        BY <3>3, <4>1, <4>3
      <4>5. ASSUME NEW k \in 0 .. c[i].sectorLength * SECTOR_SZ - 1
            PROVE  d.data[Place(c[i]) + k] = now.data[Place(c[i]) + k]
        <5> DEFINE l == c[i].sectorLength * SECTOR_SZ
                   p == Place(c[i])
                   z == FreeSectors * SECTOR_SZ
        <5>1. p \in Int /\ l \in Int /\ 0 <= p /\ p + l <= at /\ at <= z /\ z \in Int
          <6>0. /\ At(c[i]) \in Int /\ c[i].sectorLength \in Int /\ Free(now.info) \in Int
                /\ FreeSectors \in Int /\ At(c[i]) + c[i].sectorLength \in Int /\ 0 <= At(c[i])
                /\ Free(now.info) <= FreeSectors
            BY <2>3, <4>2, SMTT(40)
          <6>1. p = At(c[i]) * SECTOR_SZ
            BY PlaceIsAt
          <6>2. (At(c[i]) + c[i].sectorLength) * SECTOR_SZ = p + l
            <7>1. ASSUME NEW a \in Int, NEW m \in Int
                  PROVE  (a + m) * SECTOR_SZ = a * SECTOR_SZ + m * SECTOR_SZ
              BY Scaled
            <7> QED
              BY <6>0, <6>1, <7>1, ZenonT(60)
          <6>3. (At(c[i]) + c[i].sectorLength) * SECTOR_SZ <= at
            BY <2>5, <4>2, <6>0, Scaled, Zenon
          <6>4. at <= z /\ z \in Int
            BY <2>5, <6>0, Scaled, Zenon
          <6>5. 0 <= p /\ p \in Int /\ l \in Int
            BY <6>0, <6>1, ScaledInt
          <6> QED
            BY <6>2, <6>3, <6>4, <6>5
        <5>2. k \in 0 .. l - 1
          OBVIOUS
        <5> HIDE DEF l, p, z
        <5>3. p + k \in 0 .. z - 1 /\ p + k < at
          BY <5>1, <5>2, <2>5
        <5>4. d.data[p + k] = now.data[p + k]
          BY <2>5, <3>7, <5>1, <5>3 DEF z
        <5> QED
          BY <5>4 DEF p
      <4> QED
        BY <3>4, <3>6, <4>2, <4>3, <4>4, <4>5, HoldsMoved
    <3>9. Holds(d.data, e, FileOf(q))
      <4> DEFINE z == FreeSectors * SECTOR_SZ
                 f == FileOf(q)
                 l == s * SECTOR_SZ
      <4>1. Place(e) = at
        BY <2>5, <2>7, PlaceIsAt
      <4>2. at + l <= z /\ 0 <= at /\ l \in Int /\ z \in Int
        <5>1. (Free(now.info) + s) * SECTOR_SZ = at + l /\ l \in Int
          BY <2>1, <2>3, <2>5, Scaled
        <5>2. (Free(now.info) + s) * SECTOR_SZ <= z /\ z \in Int
          <6>1. Free(now.info) + s <= FreeSectors /\ Free(now.info) + s \in Int /\ FreeSectors \in Int
            BY <2>1, <2>3, <2>4, SMTT(40)
          <6> QED
            BY <6>1, Scaled
        <5>3. 0 * SECTOR_SZ <= at /\ 0 * SECTOR_SZ = 0
          <6>1. 0 * SECTOR_SZ <= Free(now.info) * SECTOR_SZ
            BY <2>3, Scaled
          <6> QED
            BY <2>5, <6>1, TrdAssumption
        <5> QED
          BY <5>1, <5>2, <5>3
      <4>3. /\ Len(f.data) = l
            /\ \A k \in 1 .. Len(f.data) : f.data[k] = IF k <= Len(b) THEN b[k] ELSE ZeroByte
        <5>1. s * SECTOR_SZ - Len(b) \in 0 .. SECTOR_SZ - 1
          BY SectorsNeeded DEF s
        <5>2. \A k \in 1 .. Len(Padded(b)) : Padded(b)[k] = IF k <= Len(b) THEN b[k] ELSE ZeroByte
          BY <2>1, <5>1, PaddedEffect
        <5> QED
          BY <3>5, <5>2
      <4> HIDE DEF f, l, z, b
      <4>4. ASSUME NEW k \in 1 .. Len(f.data), f.data[k] # ZeroByte
            PROVE  d.data[Place(e) + k - 1] = f.data[k]
        <5>1. k <= Len(b) /\ f.data[k] = b[k] /\ k \in 1 .. l
          BY <4>3, <4>4
        <5>2. at + k - 1 \in 0 .. z - 1 /\ at <= at + k - 1 /\ at + k - 1 < at + Len(b)
              /\ (at + k - 1) - at + 1 = k
          BY <2>1, <2>5, <4>2, <5>1, SMTT(40)
        <5>3. d.data[at + k - 1] = b[(at + k - 1) - at + 1]
          BY <3>7, <5>2 DEF z
        <5> QED
          BY <4>1, <5>1, <5>2, <5>3
      <4>5. e.length = f.length
        BY <2>7 DEF f
      <4>6. f.name = Recorded(q)
        BY <3>5 DEF f
      <4> QED
        BY <2>7, <4>3, <4>4, <4>5, <4>6 DEF Holds, f, l
    <3>10. HoldsFiles(d, lf)
      <4>1. \A i \in more : Holds(d.data, c[i], lf[Rank(more, i)])
        <5>1. Holds(d.data, c[n + 1], lf[Rank(more, n + 1)])
          BY <2>8, <3>3, <3>4, <3>6, <3>9
        <5> QED
          BY <3>1, <3>8, <5>1
      <4>2. Cardinality(more) = Len(lf)
        BY <3>3, <3>4, <3>6
      <4> QED
        BY <2>11, <2>12, <4>1, <4>2 DEF HoldsFiles, more
    <3> QED
      BY <3>10 DEF lf
  <2> QED
    BY <2>11, <2>13, <2>14 DEF d
<1> QED
  BY <1>1, <1>2

-----------------------------------------------------------------------------
(* A file that is extended, and those behind it.                            *)

LEMMA AheadEffect ==
  ASSUME NEW e \in Entries, NEW s \in Nat, NEW a, a = Ahead(e, s)
  PROVE  /\ a \in Entries /\ At(a) = At(e) + s
         /\ a.first = e.first /\ a.sectorLength = e.sectorLength
         /\ a.name = e.name /\ a.ext = e.ext /\ a.alt = e.alt /\ a.length = e.length
<1> DEFINE f == Forward([track |-> e.startTrack, sector |-> e.startSector], s)
<1>1. e.startTrack \in Nat /\ e.startSector \in Nat
  BY DEF Entries
<1>2. /\ f.track \in Nat /\ f.sector \in Nat
      /\ (f.track - 1) * SECTORS_PER_TRACK + f.sector
           = (e.startTrack - 1) * SECTORS_PER_TRACK + e.startSector + s
  BY <1>1, ForwardMoves
<1>3. a = [e EXCEPT !.startTrack = f.track, !.startSector = f.sector]
  BY DEF Ahead
<1> HIDE DEF f
<1>4. /\ a \in Entries /\ a.startTrack = f.track /\ a.startSector = f.sector
      /\ a.first = e.first /\ a.sectorLength = e.sectorLength
      /\ a.name = e.name /\ a.ext = e.ext /\ a.alt = e.alt /\ a.length = e.length
  BY <1>2, <1>3 DEF Entries
<1> QED
  BY <1>2, <1>4 DEF At

LEMMA GrownEffect ==
  ASSUME NEW e \in Entries, NEW s \in Nat
  PROVE  /\ Grown(e, s) \in Entries /\ At(Grown(e, s)) = At(e) /\ Place(Grown(e, s)) = Place(e)
         /\ Grown(e, s).first = e.first /\ Grown(e, s).sectorLength = e.sectorLength + s
         /\ Grown(e, s).name = e.name /\ Grown(e, s).ext = e.ext
         /\ Grown(e, s).alt = e.alt /\ Grown(e, s).length = e.length
<1> DEFINE g == Grown(e, s)
<1>1. e.sectorLength + s \in Nat
  BY DEF Entries
<1>2. /\ g \in Entries /\ g.first = e.first /\ g.sectorLength = e.sectorLength + s
      /\ g.startTrack = e.startTrack /\ g.startSector = e.startSector
      /\ g.name = e.name /\ g.ext = e.ext /\ g.alt = e.alt /\ g.length = e.length
  BY <1>1 DEF Entries, Grown
<1> QED
  BY <1>2 DEF At, Place

\* Behind the file i in the catalog is behind it on the disk.
LEMMA Behind ==
  ASSUME NEW c \in Catalogs, NEW n \in 0 .. NUM_OF_FILES_MAX, LaidOut(c, n),
         NEW i \in 1 .. n, NEW k \in 1 .. n, k # i
  PROVE  /\ k > i => At(c[i]) + c[i].sectorLength <= At(c[k]) /\ At(c[i]) < At(c[k])
         /\ k < i => At(c[k]) + c[k].sectorLength <= At(c[i]) /\ At(c[k]) < At(c[i])
<1>0. i \in 1 .. NUM_OF_FILES_MAX /\ k \in 1 .. NUM_OF_FILES_MAX
  BY TrdAssumption
<1>1. /\ At(c[i]) \in Int /\ At(c[k]) \in Int
      /\ c[i].sectorLength \in Int /\ c[k].sectorLength \in Int
  BY <1>0, EntryType
<1>2. MaxSectors \in Int
  BY TrdAssumption
<1>3. 1 <= c[i].sectorLength /\ 1 <= c[k].sectorLength
  BY <1>1, <1>2 DEF LaidOut
<1>4. End(c, i) = At(c[i]) + c[i].sectorLength /\ End(c, k) = At(c[k]) + c[k].sectorLength
  BY DEF End
<1>5. k > i => End(c, i) <= At(c[k])
  BY DEF LaidOut
<1>6. k < i => End(c, k) <= At(c[i])
  BY DEF LaidOut
<1> QED
  BY <1>1, <1>3, <1>4, <1>5, <1>6

\* The catalog afterwards: the file has grown, those behind it have moved.
MovedFrom(c, d, n, i, s) ==
  /\ d \in Catalogs /\ d[i] = Grown(c[i], s)
  /\ \A k \in 1 .. NUM_OF_FILES_MAX : k # i => d[k] = IF k > i /\ k <= n THEN Ahead(c[k], s) ELSE c[k]

LEMMA WithEffect ==
  ASSUME NEW c \in Catalogs, NEW i \in 1 .. NUM_OF_FILES_MAX, NEW e \in Entries
  PROVE  /\ With(c, i, e) \in Catalogs /\ With(c, i, e)[i] = e
         /\ \A k \in 1 .. NUM_OF_FILES_MAX : k # i => With(c, i, e)[k] = c[k]
BY DEF Catalogs, With

LEMMA ShiftedMoves ==
  ASSUME NEW c \in Catalogs, NEW n \in 0 .. NUM_OF_FILES_MAX, LaidOut(c, n), NEW i \in 1 .. n,
         NEW s \in Nat, NEW g, g = With(c, i, Grown(c[i], s)), NEW d, d = Shifted(g, i, s)
  PROVE  MovedFrom(c, d, n, i, s)
<1>0. NUM_OF_FILES_MAX \in Nat /\ n \in Nat /\ i \in 1 .. NUM_OF_FILES_MAX
  BY TrdAssumption
<1>1. /\ g \in Catalogs /\ g[i] = Grown(c[i], s)
      /\ \A k \in 1 .. NUM_OF_FILES_MAX : k # i => g[k] = c[k]
  <2>1. c[i] \in Entries
    BY <1>0, EntryType
  <2>2. Grown(c[i], s) \in Entries
    BY <2>1, GrownEffect
  <2> QED
    BY <1>0, <2>2, WithEffect
<1>2. \A k \in 1 .. NUM_OF_FILES_MAX : g[k].first = c[k].first /\ Place(g[k]) = Place(c[k])
  <2>1. g[i].first = c[i].first /\ Place(g[i]) = Place(c[i])
    BY <1>0, <1>1, EntryType, GrownEffect
  <2> QED
    BY <1>1, <2>1
<1>3. Listed(g) = 1 .. n
  <2>1. \A k \in 1 .. NUM_OF_FILES_MAX : \A j \in 1 .. k : j \in 1 .. NUM_OF_FILES_MAX
    BY <1>0
  <2>2. Listed(g) = Listed(c)
    BY <1>2, <2>1 DEF Listed
  <2> QED
    BY <2>2, ListedFiles
<1>4. DOMAIN g = 1 .. NUM_OF_FILES_MAX
  BY <1>1 DEF Catalogs
<1>5. d = [k \in 1 .. NUM_OF_FILES_MAX |->
             IF k # i /\ k \in 1 .. n /\ Place(g[k]) >= Place(g[i]) THEN Ahead(g[k], s) ELSE g[k]]
  BY <1>3, <1>4 DEF Shifted
<1>6. ASSUME NEW k \in 1 .. n, k # i PROVE Place(g[k]) >= Place(g[i]) <=> k > i
  <2>1. k \in 1 .. NUM_OF_FILES_MAX
    BY <1>0
  <2>2. At(c[i]) \in Int /\ At(c[k]) \in Int
    BY <1>0, <2>1, EntryType
  <2>3. At(c[i]) <= At(c[k]) <=> k > i
    <3>1. k > i => At(c[i]) < At(c[k])
      BY <1>6, Behind
    <3>2. k < i => At(c[k]) < At(c[i])
      BY <1>6, Behind
    <3> QED
      BY <1>6, <2>2, <3>1, <3>2
  <2>4. At(c[i]) <= At(c[k]) <=> Place(c[i]) <= Place(c[k])
    BY <2>2, Scaled, PlaceIsAt
  <2>5. Place(c[i]) \in Int /\ Place(c[k]) \in Int
    BY <2>2, Scaled, PlaceIsAt
  <2>6. Place(g[i]) = Place(c[i]) /\ Place(g[k]) = Place(c[k])
    BY <1>0, <1>2, <2>1
  <2> QED
    BY <2>3, <2>4, <2>5, <2>6
<1>7. \A k \in 1 .. NUM_OF_FILES_MAX : k # i => d[k] = IF k > i /\ k <= n THEN Ahead(c[k], s) ELSE c[k]
  <2> SUFFICES ASSUME NEW k \in 1 .. NUM_OF_FILES_MAX, k # i
               PROVE  d[k] = IF k > i /\ k <= n THEN Ahead(c[k], s) ELSE c[k]
    OBVIOUS
  <2>1. g[k] = c[k]
    BY <1>1
  <2>2. k \in 1 .. n <=> k <= n
    BY <1>0
  <2>3. k \in 1 .. n => (Place(g[k]) >= Place(g[i]) <=> k > i)
    BY <1>6
  <2> QED
    BY <1>5, <2>1, <2>2, <2>3
<1>8. d[i] = Grown(c[i], s)
  BY <1>0, <1>1, <1>5
<1>9. d \in Catalogs
  <2>1. \A k \in 1 .. NUM_OF_FILES_MAX : g[k] \in Entries /\ Ahead(g[k], s) \in Entries
    BY <1>1, EntryType, AheadEffect
  <2> QED
    BY <1>5, <2>1 DEF Catalogs
<1> QED
  BY <1>7, <1>8, <1>9 DEF MovedFrom

\* Of the last file nothing follows.
LEMMA LastMoves ==
  ASSUME NEW c \in Catalogs, NEW n \in 1 .. NUM_OF_FILES_MAX, NEW s \in Nat,
         NEW g, g = With(c, n, Grown(c[n], s))
  PROVE  MovedFrom(c, g, n, n, s)
<1>1. /\ g \in Catalogs /\ g[n] = Grown(c[n], s)
      /\ \A k \in 1 .. NUM_OF_FILES_MAX : k # n => g[k] = c[k]
  <2>1. c[n] \in Entries
    BY EntryType
  <2>2. Grown(c[n], s) \in Entries
    BY <2>1, GrownEffect
  <2> QED
    BY <2>2, WithEffect
<1>2. \A k \in 1 .. NUM_OF_FILES_MAX : ~(k > n /\ k <= n)
  OBVIOUS
<1> QED
  BY <1>1, <1>2 DEF MovedFrom

LEMMA MovedLaidOut ==
  ASSUME NEW c \in Catalogs, NEW n \in 0 .. NUM_OF_FILES_MAX, LaidOut(c, n), NEW i \in 1 .. n,
         NEW s \in Nat, c[i].sectorLength + s <= MaxSectors, NEW d, MovedFrom(c, d, n, i, s)
  PROVE  /\ LaidOut(d, n) /\ End(d, n) = End(c, n) + s
         /\ At(d[i]) = At(c[i]) /\ d[i].sectorLength = c[i].sectorLength + s
         /\ \A k \in 1 .. n : k # i =>
              /\ At(d[k]) = At(c[k]) + (IF k > i THEN s ELSE 0)
              /\ d[k].sectorLength = c[k].sectorLength
              /\ d[k].name = c[k].name /\ d[k].ext = c[k].ext /\ d[k].alt = c[k].alt
              /\ d[k].length = c[k].length
         /\ \A k \in 1 .. NUM_OF_FILES_MAX : d[k].first = c[k].first
<1>0. NUM_OF_FILES_MAX \in Nat /\ n \in Nat /\ i \in 1 .. NUM_OF_FILES_MAX /\ MaxSectors \in Nat
  BY TrdAssumption
<1>1. \A k \in 1 .. n : k \in 1 .. NUM_OF_FILES_MAX /\ k <= n /\ k \in Int
  BY <1>0
<1>2. \A k \in 1 .. NUM_OF_FILES_MAX :
        c[k] \in Entries /\ At(c[k]) \in Int /\ c[k].sectorLength \in Nat /\ End(c, k) \in Int
  BY EntryType
<1>3. /\ d[i].first = c[i].first /\ At(d[i]) = At(c[i])
      /\ d[i].sectorLength = c[i].sectorLength + s
  <2>1. d[i] = Grown(c[i], s)
    BY DEF MovedFrom
  <2>2. c[i] \in Entries
    BY <1>0, <1>2
  <2>3. /\ Grown(c[i], s).first = c[i].first /\ At(Grown(c[i], s)) = At(c[i])
        /\ Grown(c[i], s).sectorLength = c[i].sectorLength + s
    BY <2>2, GrownEffect
  <2> QED
    BY <2>1, <2>3, Zenon
<1>4. ASSUME NEW k \in 1 .. n, k # i
      PROVE  /\ At(d[k]) = At(c[k]) + (IF k > i THEN s ELSE 0)
             /\ d[k].sectorLength = c[k].sectorLength /\ d[k].first = c[k].first
             /\ d[k].name = c[k].name /\ d[k].ext = c[k].ext /\ d[k].alt = c[k].alt
             /\ d[k].length = c[k].length
  <2>1. k \in 1 .. NUM_OF_FILES_MAX /\ k <= n /\ c[k] \in Entries /\ At(c[k]) \in Int
    BY <1>1, <1>2
  <2>2. CASE k > i
    <3>1. d[k] = Ahead(c[k], s)
      BY <1>4, <2>1, <2>2 DEF MovedFrom
    <3>2. /\ At(d[k]) = At(c[k]) + s
          /\ d[k].first = c[k].first /\ d[k].sectorLength = c[k].sectorLength
          /\ d[k].name = c[k].name /\ d[k].ext = c[k].ext
          /\ d[k].alt = c[k].alt /\ d[k].length = c[k].length
      <4> DEFINE e == c[k]
                 a == d[k]
      <4>1. e \in Entries /\ a = Ahead(e, s)
        BY <2>1, <3>1
      <4> HIDE DEF a, e
      <4>2. /\ At(a) = At(e) + s
            /\ a.first = e.first /\ a.sectorLength = e.sectorLength
            /\ a.name = e.name /\ a.ext = e.ext /\ a.alt = e.alt /\ a.length = e.length
        BY <4>1, AheadEffect
      <4> QED
        BY <4>2 DEF a, e
    <3> QED
      BY <2>2, <3>2, Zenon
  <2>3. CASE ~(k > i)
    <3>1. d[k] = c[k]
      BY <1>4, <2>1, <2>3 DEF MovedFrom
    <3>2. At(c[k]) = At(c[k]) + 0
      BY <2>1
    <3> QED
      BY <2>3, <3>1, <3>2
  <2> QED
    BY <2>2, <2>3
<1>5. \A k \in 1 .. NUM_OF_FILES_MAX : d[k].first = c[k].first
  <2>1. \A k \in 1 .. NUM_OF_FILES_MAX : ~(k <= n) => k # i /\ d[k] = c[k]
    BY <1>0 DEF MovedFrom
  <2>2. \A k \in 1 .. NUM_OF_FILES_MAX : k <= n => k \in 1 .. n
    BY <1>0
  <2> QED
    BY <1>3, <1>4, <2>1, <2>2
<1>6. \A k \in 0 .. n : End(d, k) = End(c, k) + (IF k >= i THEN s ELSE 0)
  <2> SUFFICES ASSUME NEW k \in 0 .. n
               PROVE  End(d, k) = End(c, k) + (IF k >= i THEN s ELSE 0)
    OBVIOUS
  <2>1. CASE k = 0
    BY <2>1 DEF End
  <2>2. CASE k # 0 /\ k # i
    <3>1. k \in 1 .. n /\ (k >= i <=> k > i)
      BY <1>0, <2>2
    <3>2. At(d[k]) = At(c[k]) + (IF k > i THEN s ELSE 0) /\ d[k].sectorLength = c[k].sectorLength
      BY <1>4, <2>2, <3>1
    <3>3. End(d, k) = At(d[k]) + d[k].sectorLength /\ End(c, k) = At(c[k]) + c[k].sectorLength
      BY <2>2 DEF End
    <3>4. At(c[k]) \in Int /\ c[k].sectorLength \in Int
      BY <1>1, <1>2, <3>1
    <3> QED
      BY <3>1, <3>2, <3>3, <3>4
  <2>3. CASE k # 0 /\ k = i
    <3>3. End(d, i) = At(d[i]) + d[i].sectorLength /\ End(c, i) = At(c[i]) + c[i].sectorLength
      BY DEF End
    <3>4. At(c[i]) \in Int /\ c[i].sectorLength \in Int
      BY <1>0, <1>2
    <3> QED
      BY <1>3, <2>3, <3>3, <3>4
  <2> QED
    BY <2>1, <2>2, <2>3
<1>7. \A k \in 0 .. n : End(c, k) \in Int
  BY <1>1, <1>2 DEF End
<1>8. At(d[i]) = At(c[i]) + (IF i > i THEN s ELSE 0)
  BY <1>0, <1>2, <1>3
<1>9. \A k \in 1 .. n : At(d[k]) = At(c[k]) + (IF k > i THEN s ELSE 0)
  BY <1>4, <1>8
<1>10. LaidOut(d, n)
  <2>1. \A k \in 1 .. NUM_OF_FILES_MAX : d[k].first = 0 <=> k > n
    BY <1>5 DEF LaidOut
  <2>2. ASSUME NEW k \in 1 .. n PROVE d[k].sectorLength \in 1 .. MaxSectors
    <3>1. c[k].sectorLength \in 1 .. MaxSectors
      BY DEF LaidOut
    <3> QED
      BY <1>0, <1>3, <1>4, <3>1
  <2>3. ASSUME NEW k \in 1 .. n PROVE At(d[k]) = End(d, k - 1)
    <3>1. At(c[k]) = End(c, k - 1)
      BY DEF LaidOut
    <3>2. k - 1 \in 0 .. n /\ (k - 1 >= i <=> k > i)
      BY <1>0
    <3> QED
      BY <1>6, <1>9, <3>1, <3>2
  <2>4. ASSUME NEW k \in 1 .. n PROVE 0 <= At(d[k]) /\ End(d, k) <= End(d, n)
    <3>1. 0 <= At(c[k]) /\ End(c, k) <= End(c, n)
      BY DEF LaidOut
    <3>2. k \in 0 .. n /\ n \in 0 .. n /\ n >= i
      BY <1>0
    <3>3. At(c[k]) \in Int /\ End(c, k) \in Int /\ End(c, n) \in Int
      BY <1>1, <1>2, <1>7, <3>2
    <3> QED
      BY <1>6, <1>9, <3>1, <3>2, <3>3
  <2>5. ASSUME NEW j \in 1 .. n, NEW k \in 1 .. n, j < k PROVE End(d, j) <= At(d[k])
    <3>1. End(c, j) <= At(c[k])
      BY <2>5 DEF LaidOut
    <3>2. j \in 0 .. n /\ (j >= i => k > i)
      BY <1>0, <2>5
    <3>3. At(c[k]) \in Int /\ End(c, j) \in Int
      BY <1>1, <1>2, <1>7, <3>2
    <3> QED
      BY <1>6, <1>9, <3>1, <3>2, <3>3
  <2> QED
    BY <2>1, <2>2, <2>3, <2>4, <2>5 DEF LaidOut
<1>11. End(d, n) = End(c, n) + s
  <2>1. n \in 0 .. n /\ n >= i
    BY <1>0
  <2> QED
    BY <1>6, <2>1
<1> QED
  BY <1>3, <1>4, <1>5, <1>10, <1>11

\* Bytes from offset end up to offset free are w further.
MovedBytes(data, d, end, free, w) ==
  \A x \in 0 .. FreeSectors * SECTOR_SZ - 1 :
    d[x] = IF end + w <= x /\ x < free + w THEN data[x - w] ELSE data[x]

LEMMA BetweenEffect ==
  ASSUME NEW data \in Contents, NEW p \in Nat, NEW q \in Nat, p <= q, q <= FreeSectors * SECTOR_SZ
  PROVE  /\ Between(data, p, q) \in Seq(Cells) /\ Len(Between(data, p, q)) = q - p
         /\ \A k \in 1 .. q - p : Between(data, p, q)[k] = data[p + k - 1]
<1> DEFINE z == FreeSectors * SECTOR_SZ
           b == Between(data, p, q)
<1>1. z \in Int /\ q <= z
  BY TrdAssumption DEF FreeSectors
<1>2. \A x \in 0 .. z - 1 : data[x] \in Cells
  BY DEF Contents
<1> HIDE DEF z
<1>3. \A k \in 1 .. q - p : p + k - 1 \in 0 .. z - 1
  BY <1>1
<1>4. b = [k \in 1 .. q - p |-> data[p + k - 1]]
  BY DEF Between
<1>5. b \in [1 .. q - p -> Cells]
  BY <1>2, <1>3, <1>4
<1>6. q - p \in Nat
  OBVIOUS
<1> HIDE DEF b
<1>7. b \in Seq(Cells) /\ Len(b) = q - p
  BY <1>5, <1>6
<1> QED
  BY <1>4, <1>7 DEF b

LEMMA WrittenBehind ==
  ASSUME NEW data \in Contents, NEW end \in Nat, NEW free \in Nat, NEW w \in Nat, end <= free,
         free + w <= FreeSectors * SECTOR_SZ
  PROVE  /\ WriteAt(data, end + w, Between(data, end, free)) \in Contents
         /\ MovedBytes(data, WriteAt(data, end + w, Between(data, end, free)), end, free, w)
<1> DEFINE z == FreeSectors * SECTOR_SZ
           b == Between(data, end, free)
           d == WriteAt(data, end + w, b)
<1>1. z \in Int /\ free <= z
  BY TrdAssumption DEF FreeSectors
<1>2. /\ b \in Seq(Cells) /\ Len(b) = free - end
      /\ \A k \in 1 .. free - end : b[k] = data[end + k - 1]
  BY <1>1, BetweenEffect
<1> HIDE DEF b
<1>3. end + w \in Int
  OBVIOUS
<1>4. /\ d \in Contents
      /\ \A x \in 0 .. z - 1 :
           d[x] = IF end + w <= x /\ x < (end + w) + Len(b) THEN b[x - (end + w) + 1] ELSE data[x]
  <2>1. d = WriteAt(data, end + w, b) /\ b \in Seq(Cells)
    BY <1>2
  <2> HIDE DEF d, z
  <2>2. /\ d \in Contents
        /\ \A x \in 0 .. FreeSectors * SECTOR_SZ - 1 :
             d[x] = IF end + w <= x /\ x < (end + w) + Len(b) THEN b[x - (end + w) + 1] ELSE data[x]
    BY <1>3, <2>1, WriteAtEffect, ZenonT(60)
  <2> QED
    BY <2>2, Zenon DEF z
<1> HIDE DEF z, d
<1>5. ASSUME NEW x \in 0 .. z - 1
      PROVE  d[x] = IF end + w <= x /\ x < free + w THEN data[x - w] ELSE data[x]
  <2>1. (end + w) + Len(b) = free + w
    BY <1>2
  <2>2. CASE end + w <= x /\ x < free + w
    <3>1. x - (end + w) + 1 \in 1 .. free - end
      BY <1>1, <2>2
    <3>2. end + (x - (end + w) + 1) - 1 = x - w
      BY <1>1
    <3>3. b[x - (end + w) + 1] = data[end + (x - (end + w) + 1) - 1]
      BY <1>2, <3>1, Zenon
    <3> QED
      BY <1>4, <2>1, <2>2, <3>2, <3>3, Zenon
  <2>3. CASE ~(end + w <= x /\ x < free + w)
    BY <1>4, <2>1, <2>3, Zenon
  <2> QED
    BY <2>2, <2>3
<1> QED
  BY <1>4, <1>5 DEF MovedBytes, z, d, b

\* Where a file and the free sectors are, in bytes.
LEMMA BytesOnDisk ==
  ASSUME NEW t, Good(t), NEW n, n = t.info.numOfFiles, NEW i \in 1 .. n
  PROVE  /\ Place(t.catalog[i]) \in Nat /\ t.catalog[i].sectorLength * SECTOR_SZ \in Nat
         /\ Free(t.info) * SECTOR_SZ \in Nat /\ FreeSectors * SECTOR_SZ \in Nat
         /\ Place(t.catalog[i]) + t.catalog[i].sectorLength * SECTOR_SZ <= Free(t.info) * SECTOR_SZ
         /\ \A s \in Nat : s <= t.info.numOfFreeSectors =>
              s * SECTOR_SZ \in Nat /\ Free(t.info) * SECTOR_SZ + s * SECTOR_SZ <= FreeSectors * SECTOR_SZ
<1> DEFINE a == At(t.catalog[i])
           l == t.catalog[i].sectorLength
           f == Free(t.info)
<1>1. a \in Nat /\ l \in Nat /\ f \in Nat /\ a + l <= f /\ FreeSectors \in Nat
  BY OnDisk
<1>2. t.info.numOfFreeSectors \in Nat /\ f + t.info.numOfFreeSectors = FreeSectors
  BY OnDisk
<1>3. Place(t.catalog[i]) = a * SECTOR_SZ
  BY PlaceIsAt
<1> HIDE DEF a, l, f
<1>4. \A x \in Nat : x * SECTOR_SZ \in Nat
  BY ScaledInt
<1>5. a * SECTOR_SZ + l * SECTOR_SZ <= f * SECTOR_SZ
  <2>1. (a + l) * SECTOR_SZ = a * SECTOR_SZ + l * SECTOR_SZ
    BY <1>1, Scaled
  <2>2. (a + l) * SECTOR_SZ <= f * SECTOR_SZ
    <3>1. a + l \in Int /\ f \in Int
      BY <1>1
    <3> QED
      BY <1>1, <3>1, Scaled, Zenon
  <2> QED
    BY <2>1, <2>2
<1>6. ASSUME NEW s \in Nat, s <= t.info.numOfFreeSectors
      PROVE  f * SECTOR_SZ + s * SECTOR_SZ <= FreeSectors * SECTOR_SZ
  <2>1. (f + s) * SECTOR_SZ = f * SECTOR_SZ + s * SECTOR_SZ
    BY <1>1, Scaled
  <2>2. (f + s) * SECTOR_SZ <= FreeSectors * SECTOR_SZ
    <3>1. f + s \in Int /\ FreeSectors \in Int /\ f + s <= FreeSectors
      BY <1>1, <1>2, <1>6
    <3> QED
      BY <3>1, Scaled, Zenon
  <2> QED
    BY <2>1, <2>2
<1> QED
  BY <1>1, <1>3, <1>4, <1>5, <1>6 DEF a, l, f

\* The file is the last one, when nothing lies between its end and the free sectors.
LEMMA ShiftEffect ==
  ASSUME NEW now, Good(now), NEW n, n = now.info.numOfFiles, NEW i \in 1 .. n,
         NEW s \in Nat, s <= now.info.numOfFreeSectors,
         NEW u \in Images, u.data = now.data, u.info = now.info,
         u.catalog = With(now.catalog, i, Grown(now.catalog[i], s)),
         NEW keep, keep = now.catalog[i].sectorLength, NEW m, m = Shift(u, i, keep, s)
  PROVE  /\ m \in Images /\ m.info = now.info /\ MovedFrom(now.catalog, m.catalog, n, i, s)
         /\ MovedBytes(now.data, m.data, Place(now.catalog[i]) + keep * SECTOR_SZ,
                       Free(now.info) * SECTOR_SZ, s * SECTOR_SZ)
         /\ m.data # now.data => Place(now.catalog[i]) + keep * SECTOR_SZ < Free(now.info) * SECTOR_SZ
<1> DEFINE c == now.catalog
           end == Place(c[i]) + keep * SECTOR_SZ
           free == Free(now.info) * SECTOR_SZ
           w == s * SECTOR_SZ
           z == FreeSectors * SECTOR_SZ
<1>1. /\ now \in Images /\ c \in Catalogs /\ now.info \in Infos /\ now.data \in Contents
      /\ n \in 0 .. NUM_OF_FILES_MAX /\ LaidOut(c, n)
  BY ImageType DEF Good
<1>2. i \in 1 .. NUM_OF_FILES_MAX /\ n \in Nat
  BY TrdAssumption, <1>1
<1>3. end \in Nat /\ free \in Nat /\ w \in Nat /\ end <= free /\ free + w <= z /\ z \in Nat
  BY BytesOnDisk
<1>4. Place(u.catalog[i]) = Place(c[i])
  <2>1. c[i] \in Entries
    BY <1>1, <1>2, EntryType
  <2>2. Grown(c[i], s) \in Entries /\ Place(Grown(c[i], s)) = Place(c[i])
    BY <2>1, GrownEffect
  <2>3. With(c, i, Grown(c[i], s))[i] = Grown(c[i], s)
    BY <1>1, <1>2, <2>2, WithEffect
  <2> QED
    BY <2>2, <2>3
<1>5. fileOffset(u.info.freeTrack, u.info.freeSector) = free
  BY FreeIsPlace
<1>6. m = IF end >= free THEN u
          ELSE [u EXCEPT !.data = WriteAt(now.data, end + w, Between(now.data, end, free)),
                         !.catalog = Shifted(u.catalog, i, s)]
  BY <1>4, <1>5 DEF Shift
<1>7. CASE end >= free
  <2>1. m = u
    BY <1>6, <1>7
  <2>2. i = n
    <3>1. CASE i < n
      <4>1. n \in 1 .. n
        BY <1>2
      <4>2. At(c[i]) + c[i].sectorLength <= At(c[n])
        BY <1>1, <3>1, <4>1, Behind
      <4>3. At(c[n]) + c[n].sectorLength = Free(now.info)
        BY <4>1 DEF Good, End
      <4>4. /\ At(c[i]) \in Int /\ c[i].sectorLength \in Nat /\ At(c[n]) \in Int /\ c[n].sectorLength \in Nat
        BY <1>1, <1>2, <4>1, EntryType
      <4>5. c[n].sectorLength \in 1 .. MaxSectors
        BY <1>1, <4>1 DEF LaidOut
      <4>6. At(c[i]) + keep < Free(now.info) /\ At(c[i]) + keep \in Int /\ Free(now.info) \in Int
        <5>1. MaxSectors \in Int
          BY TrdAssumption
        <5> QED
          BY <4>2, <4>3, <4>4, <4>5, <5>1
      <4>7. (At(c[i]) + keep) * SECTOR_SZ < free
        BY <4>6, Scaled, Zenon
      <4>8. (At(c[i]) + keep) * SECTOR_SZ = end
        <5>1. At(c[i]) \in Int /\ keep \in Int
          BY <4>4
        <5>2. (At(c[i]) + keep) * SECTOR_SZ = At(c[i]) * SECTOR_SZ + keep * SECTOR_SZ
          BY <5>1, Scaled, Zenon
        <5> QED
          BY <5>2, PlaceIsAt
      <4> QED
        BY <1>3, <1>7, <4>7, <4>8
    <3> QED
      BY <1>2, <3>1
  <2>3. MovedFrom(c, m.catalog, n, i, s)
    BY <1>1, <1>2, <2>1, <2>2, LastMoves
  <2>4. MovedBytes(now.data, now.data, end, free, w)
    <3>1. \A x \in 0 .. z - 1 : ~(end + w <= x /\ x < free + w)
      BY <1>3, <1>7
    <3> QED
      BY <3>1 DEF MovedBytes
  <2> QED
    BY <2>1, <2>3, <2>4
<1>8. CASE ~(end >= free)
  <2> DEFINE d == WriteAt(now.data, end + w, Between(now.data, end, free))
             g == Shifted(u.catalog, i, s)
  <2>1. d \in Contents /\ MovedBytes(now.data, d, end, free, w)
    BY <1>1, <1>3, WrittenBehind
  <2>2. MovedFrom(c, g, n, i, s)
    BY <1>1, ShiftedMoves
  <2>3. m = [u EXCEPT !.data = d, !.catalog = g]
    BY <1>6, <1>8
  <2>4. g \in Catalogs
    BY <2>2 DEF MovedFrom
  <2> HIDE DEF d, g
  <2>5. m \in Images /\ m.info = u.info /\ m.data = d /\ m.catalog = g
    BY <2>1, <2>3, <2>4 DEF Images
  <2>6. end < free
    BY <1>3, <1>8
  <2> QED
    BY <2>1, <2>2, <2>5, <2>6
<1> QED
  BY <1>7, <1>8

\* The order of the catalog is the one of the data.
LEMMA NeverInconsistent ==
  ASSUME NEW t, Good(t), NEW i \in 1 .. t.info.numOfFiles
  PROVE  ~Inconsistent(t, i)
<1> DEFINE n == t.info.numOfFiles
           c == t.catalog
<1>1. c \in Catalogs /\ n \in 0 .. NUM_OF_FILES_MAX /\ LaidOut(c, n)
  BY ImageType DEF Good
<1>2. Listed(c) = 1 .. n
  BY <1>1, ListedFiles
<1> HIDE DEF n, c
<1>3. ASSUME NEW k \in 1 .. n, k # i PROVE k < i <=> Place(c[k]) < Place(c[i])
  <2>0. i \in 1 .. n /\ i \in 1 .. NUM_OF_FILES_MAX /\ k \in 1 .. NUM_OF_FILES_MAX
    BY <1>1, TrdAssumption DEF n
  <2>1. At(c[i]) \in Int /\ At(c[k]) \in Int
    BY <1>1, <2>0, EntryType
  <2>2. k < i <=> At(c[k]) < At(c[i])
    <3>1. /\ k > i => At(c[i]) < At(c[k])
          /\ k < i => At(c[k]) < At(c[i])
      BY <1>1, <1>3, <2>0, Behind
    <3> QED
      BY <1>3, <2>0, <2>1, <3>1
  <2> QED
    BY <2>1, <2>2, Scaled, PlaceIsAt
<1> QED
  BY <1>2, <1>3 DEF Inconsistent, n, c

\* The image after the file i got the bytes b in s more sectors.
Extent(now, d, i, s, b) ==
  LET end  == Place(now.catalog[i]) + now.catalog[i].sectorLength * SECTOR_SZ
      free == Free(now.info) * SECTOR_SZ
      w    == s * SECTOR_SZ
  IN  /\ d \in Images /\ MovedFrom(now.catalog, d.catalog, now.info.numOfFiles, i, s)
      /\ d.info = LessFree(now.info, s)
      /\ \A x \in 0 .. FreeSectors * SECTOR_SZ - 1 :
           d.data[x] = IF end <= x /\ x < end + Len(b) THEN b[x - end + 1]
                       ELSE IF end + w <= x /\ x < free + w THEN now.data[x - w] ELSE now.data[x]

LEMMA ExtendShape ==
  ASSUME NEW t, NEW now, Good(now), NEW i \in 1 .. now.info.numOfFiles,
         NEW q \in Calls, ~ArgumentsRefused(q),
         NEW r, r = Extend(t, now, i, now.catalog[i].sectorLength, q)
  PROVE  \/ r = Refused(t)
         \/ /\ r.ok = TRUE /\ Extent(now, r.trd, i, Sectors(q), BytesOf(q))
            /\ Sectors(q) <= now.info.numOfFreeSectors
            /\ now.catalog[i].sectorLength + Sectors(q) <= MaxSectors
<1> DEFINE n == now.info.numOfFiles
           c == now.catalog
           keep == now.catalog[i].sectorLength
           s == Sectors(q)
           b == BytesOf(q)
           u == [now EXCEPT !.catalog = With(c, i, Grown(c[i], s))]
           m == Shift(u, i, keep, s)
           end == Place(c[i]) + keep * SECTOR_SZ
           free == Free(now.info) * SECTOR_SZ
           w == s * SECTOR_SZ
           z == FreeSectors * SECTOR_SZ
<1>1. CASE now.info.numOfFreeSectors < s \/ MaxSectors < keep + s
  BY <1>1 DEF Extend
<1>2. CASE ~(now.info.numOfFreeSectors < s \/ MaxSectors < keep + s)
  <2>1. /\ now \in Images /\ c \in Catalogs /\ now.info \in Infos /\ now.data \in Contents
        /\ n \in 0 .. NUM_OF_FILES_MAX /\ LaidOut(c, n) /\ n \in Nat
    BY ImageType DEF Good
  <2>2. i \in 1 .. NUM_OF_FILES_MAX /\ c[i] \in Entries /\ keep \in Nat
    <3>1. i \in 1 .. NUM_OF_FILES_MAX
      BY <2>1, TrdAssumption
    <3> QED
      BY <2>1, <3>1, EntryType
  <2>3. s \in Nat /\ b \in Seq(Cells) /\ Len(b) \in Nat /\ Len(b) <= w
    BY SectorsNeeded
  <2>4. s <= now.info.numOfFreeSectors /\ keep + s <= MaxSectors
    <3>1. now.info.numOfFreeSectors \in Nat /\ MaxSectors \in Nat
      BY <2>1, ImageType, TrdAssumption
    <3> QED
      BY <1>2, <2>2, <2>3, <3>1
  <2>5. /\ u \in Images /\ u.data = now.data /\ u.info = now.info
        /\ u.catalog = With(c, i, Grown(c[i], s))
    <3> DEFINE g == With(c, i, Grown(c[i], s))
    <3>1. Grown(c[i], s) \in Entries
      BY <2>2, <2>3, GrownEffect
    <3>2. g \in Catalogs
      BY <2>1, <2>2, <3>1, WithEffect
    <3> HIDE DEF g
    <3>3. u = [now EXCEPT !.catalog = g]
      BY DEF g
    <3>4. u \in Images /\ u.data = now.data /\ u.info = now.info /\ u.catalog = g
      BY <2>1, <3>2, <3>3 DEF Images
    <3> QED
      BY <3>4 DEF g
  <2>6. r = Extended(t, now, m, i, keep, q)
    BY <1>2 DEF Extend
  <2> HIDE DEF u
  <2>7. /\ m \in Images /\ m.info = now.info /\ MovedFrom(c, m.catalog, n, i, s)
        /\ MovedBytes(now.data, m.data, end, free, w)
    BY <2>3, <2>4, <2>5, ShiftEffect
  <2> HIDE DEF m
  <2>8. Place(m.catalog[i]) = Place(c[i])
    <3>1. m.catalog[i] = Grown(c[i], s)
      BY <2>7 DEF MovedFrom
    <3> QED
      BY <2>2, <2>3, <3>1, GrownEffect
  <2>9. r = Accepted(m, end, q)
    BY <2>6, <2>8, NeverInconsistent DEF Extended
  <2>10. end \in Int
    BY BytesOnDisk
  <2>11. /\ r.ok = TRUE /\ r.trd \in Images /\ r.trd.catalog = m.catalog
         /\ r.trd.data = WriteAt(m.data, end, b) /\ r.trd.info = LessFree(now.info, s)
    <3>1. Sectors(q) \in Nat /\ Sectors(q) <= m.info.numOfFreeSectors /\ BytesOf(q) \in Seq(Cells)
      BY <2>3, <2>4, <2>7
    <3>2. /\ Accepted(m, end, q).ok = TRUE /\ Accepted(m, end, q).trd \in Images
          /\ Accepted(m, end, q).trd.catalog = m.catalog
          /\ Accepted(m, end, q).trd.data = WriteAt(m.data, end, BytesOf(q))
          /\ Accepted(m, end, q).trd.info = LessFree(m.info, Sectors(q))
      BY <2>7, <2>10, <3>1, AcceptedEffect
    <3> QED
      BY <2>7, <2>9, <3>2
  <2>12. \A x \in 0 .. z - 1 :
           r.trd.data[x] = IF end <= x /\ x < end + Len(b) THEN b[x - end + 1] ELSE m.data[x]
    <3>1. m.data \in Contents
      BY <2>7, ImageType
    <3> QED
      BY <2>3, <2>10, <2>11, <3>1, WriteAtEffect
  <2>13. Extent(now, r.trd, i, s, b)
    BY <2>7, <2>11, <2>12 DEF Extent, MovedBytes
  <2> QED
    BY <2>4, <2>11, <2>13
<1> QED
  BY <1>1, <1>2

LEMMA ExtendGood ==
  ASSUME NEW now, Good(now), NEW n, n = now.info.numOfFiles, NEW i \in 1 .. n,
         NEW s \in Nat, s <= now.info.numOfFreeSectors, now.catalog[i].sectorLength + s <= MaxSectors,
         NEW b, NEW d, Extent(now, d, i, s, b)
  PROVE  /\ Good(d) /\ d.info.numOfFiles = n
         /\ LiveFiles(d.catalog, n) = LiveFiles(now.catalog, n)
<1>1. /\ now \in Images /\ now.catalog \in Catalogs /\ now.info \in Infos
      /\ n \in 0 .. NUM_OF_FILES_MAX /\ LaidOut(now.catalog, n)
  BY ImageType DEF Good
<1>2. /\ d \in Images /\ MovedFrom(now.catalog, d.catalog, n, i, s)
      /\ d.info = LessFree(now.info, s)
  BY DEF Extent
<1>3. /\ LaidOut(d.catalog, n) /\ End(d.catalog, n) = End(now.catalog, n) + s
      /\ \A k \in 1 .. NUM_OF_FILES_MAX : d.catalog[k].first = now.catalog[k].first
  BY <1>1, <1>2, MovedLaidOut
<1>4. /\ d.info.numOfFiles = n /\ d.info.numOfDeleted = now.info.numOfDeleted
      /\ d.info.numOfFreeSectors = now.info.numOfFreeSectors - s
      /\ Free(d.info) = Free(now.info) + s
  BY <1>1, <1>2, LessFreeEffect
<1>5. \A k \in 1 .. n : k \in 1 .. NUM_OF_FILES_MAX
  BY <1>1, TrdAssumption
<1>6. /\ DeletedFiles(d.catalog, n) = DeletedFiles(now.catalog, n)
      /\ LiveFiles(d.catalog, n) = LiveFiles(now.catalog, n)
  BY <1>3, <1>5 DEF DeletedFiles, LiveFiles
<1>7. Free(d.info) + d.info.numOfFreeSectors = FreeSectors
  <2>1. /\ Free(now.info) \in Nat /\ now.info.numOfFreeSectors \in Nat
        /\ Free(now.info) + now.info.numOfFreeSectors = FreeSectors
    BY OnDisk
  <2> QED
    BY <1>4, <2>1
<1>8. /\ Free(now.info) = End(now.catalog, n)
      /\ now.info.numOfDeleted = Cardinality(DeletedFiles(now.catalog, n))
  BY DEF Good
<1> QED
  BY <1>2, <1>3, <1>4, <1>6, <1>7, <1>8 DEF Good

\* s is the number of sectors that the bytes b need.
Fits(b, s) ==
  b \in Seq(Cells) /\ Len(b) <= s * SECTOR_SZ /\ s * SECTOR_SZ - Len(b) \in 0 .. SECTOR_SZ - 1

LEMMA LongerEffect ==
  ASSUME NEW f \in Files, NEW s \in Nat, NEW b, Fits(b, s)
  PROVE  /\ Longer(f, b) \in Files /\ Longer(f, b).name = f.name /\ Longer(f, b).length = f.length
         /\ Len(Longer(f, b).data) = Len(f.data) + s * SECTOR_SZ /\ Len(f.data) \in Nat
         /\ \A k \in 1 .. Len(f.data) : Longer(f, b).data[k] = f.data[k]
         /\ \A k \in 1 .. Len(f.data) + s * SECTOR_SZ : ~(k <= Len(f.data)) =>
              Longer(f, b).data[k] = IF k - Len(f.data) <= Len(b) THEN b[k - Len(f.data)] ELSE ZeroByte
<1> DEFINE p == Padded(b)
           l == f.data
           x == l \o p
           w == s * SECTOR_SZ
<1>1. p \in Seq(Cells) /\ Len(p) = w /\ \A k \in 1 .. Len(p) : p[k] = IF k <= Len(b) THEN b[k] ELSE ZeroByte
  BY PaddedEffect DEF Fits
<1>2. l \in Seq(Cells) /\ Len(l) \in Nat /\ w \in Nat
  <2>1. l \in Seq(Cells)
    BY DEF Files
  <2>2. w \in Nat
    BY ScaledInt
  <2> HIDE DEF w, l
  <2> QED
    BY <2>1, <2>2
<1>3. Longer(f, b) = [f EXCEPT !.data = x]
  BY DEF Longer
<1> HIDE DEF p, l
<1>4. /\ x \in Seq(Cells) /\ Len(x) = Len(l) + Len(p)
      /\ \A k \in 1 .. Len(l) + Len(p) : x[k] = IF k <= Len(l) THEN l[k] ELSE p[k - Len(l)]
  BY <1>1, <1>2, Concatenated, Zenon
<1> HIDE DEF x, w
<1>5. /\ Longer(f, b) \in Files /\ Longer(f, b).name = f.name /\ Longer(f, b).length = f.length
      /\ Longer(f, b).data = x
  BY <1>3, <1>4 DEF Files
<1>6. \A k \in 1 .. Len(l) : x[k] = l[k]
  <2>1. \A k \in 1 .. Len(l) : k \in 1 .. Len(l) + w /\ k <= Len(l)
    BY <1>2
  <2> QED
    BY <1>1, <1>4, <2>1
<1>7. \A k \in 1 .. Len(l) + w : ~(k <= Len(l)) =>
        x[k] = IF k - Len(l) <= Len(b) THEN b[k - Len(l)] ELSE ZeroByte
  <2>1. \A k \in 1 .. Len(l) + w : ~(k <= Len(l)) => k - Len(l) \in 1 .. w
    BY <1>2
  <2> QED
    BY <1>1, <1>4, <2>1
<1> QED
  BY <1>1, <1>2, <1>4, <1>5, <1>6, <1>7 DEF l, w

LEMMA BytesApart ==
  ASSUME NEW t, Good(t), NEW n, n = t.info.numOfFiles, NEW i \in 1 .. n, NEW k \in 1 .. n, i < k
  PROVE  Place(t.catalog[i]) + t.catalog[i].sectorLength * SECTOR_SZ <= Place(t.catalog[k])
<1> DEFINE c == t.catalog
           a == At(c[i])
           l == c[i].sectorLength
           p == At(c[k])
<1>1. /\ c \in Catalogs /\ n \in 0 .. NUM_OF_FILES_MAX /\ LaidOut(c, n)
      /\ i \in 1 .. NUM_OF_FILES_MAX /\ k \in 1 .. NUM_OF_FILES_MAX
  BY ImageType, TrdAssumption DEF Good
<1>2. a \in Int /\ l \in Int /\ p \in Int
  BY <1>1, EntryType
<1>3. a + l <= p
  BY <1>1, Behind
<1>4. Place(c[i]) = a * SECTOR_SZ /\ Place(c[k]) = p * SECTOR_SZ
  BY PlaceIsAt
<1> HIDE DEF a, l, p
<1>5. (a + l) * SECTOR_SZ = a * SECTOR_SZ + l * SECTOR_SZ
  BY <1>2, Scaled
<1>6. (a + l) * SECTOR_SZ <= p * SECTOR_SZ
  <2>1. a + l \in Int
    BY <1>2
  <2> QED
    BY <1>2, <1>3, <2>1, Scaled, Zenon
<1> QED
  BY <1>4, <1>5, <1>6 DEF l

\* The files in front of the one that is extended stay, those behind it move with their bytes.
LEMMA OthersMoved ==
  ASSUME NEW now, Good(now), NEW n, n = now.info.numOfFiles, NEW i \in 1 .. n,
         NEW s \in Nat, s <= now.info.numOfFreeSectors, now.catalog[i].sectorLength + s <= MaxSectors,
         NEW b, Fits(b, s), NEW d, Extent(now, d, i, s, b),
         NEW k \in 1 .. n, k # i, NEW f \in Files, Holds(now.data, now.catalog[k], f)
  PROVE  Holds(d.data, d.catalog[k], f)
<1> DEFINE c == now.catalog
           g == d.catalog
           end == Place(c[i]) + c[i].sectorLength * SECTOR_SZ
           free == Free(now.info) * SECTOR_SZ
           w == s * SECTOR_SZ
           z == FreeSectors * SECTOR_SZ
           l == c[k].sectorLength * SECTOR_SZ
           p == Place(c[k])
<1>1. /\ now \in Images /\ c \in Catalogs /\ n \in 0 .. NUM_OF_FILES_MAX /\ LaidOut(c, n)
      /\ i \in 1 .. NUM_OF_FILES_MAX /\ k \in 1 .. NUM_OF_FILES_MAX
  BY ImageType, TrdAssumption DEF Good
<1>2. MovedFrom(c, g, n, i, s) /\ g \in Catalogs /\ d \in Images
  BY DEF Extent, MovedFrom
<1>3. /\ At(g[k]) = At(c[k]) + (IF k > i THEN s ELSE 0)
      /\ g[k].sectorLength = c[k].sectorLength
      /\ g[k].name = c[k].name /\ g[k].ext = c[k].ext /\ g[k].alt = c[k].alt
      /\ g[k].length = c[k].length
  BY <1>1, <1>2, MovedLaidOut
<1>4. /\ end \in Nat /\ free \in Nat /\ w \in Nat /\ z \in Nat /\ p \in Nat /\ l \in Nat
      /\ p + l <= free /\ free + w <= z
  BY BytesOnDisk
<1>5. /\ At(c[i]) \in Int /\ At(c[k]) \in Int /\ c[i].sectorLength \in Nat /\ c[k].sectorLength \in Nat
      /\ c[k] \in Entries /\ g[k] \in Entries
  BY <1>1, <1>2, EntryType
<1>6. k > i => end <= p
  BY BytesApart
<1>7. ~(k > i) => p + l <= end
  <2>1. k < i => p + l <= Place(c[i])
    BY BytesApart
  <2>2. Place(c[i]) \in Nat /\ c[i].sectorLength * SECTOR_SZ \in Nat
    BY BytesOnDisk
  <2> DEFINE x == c[i].sectorLength * SECTOR_SZ
             y == Place(c[i])
  <2>3. x \in Nat /\ y \in Nat /\ end = y + x /\ (k < i => p + l <= y)
    BY <2>1, <2>2
  <2> HIDE DEF x, y, end, p, l
  <2> QED
    BY <1>4, <2>3
<1>8. Place(g[k]) = p + (IF k > i THEN w ELSE 0)
  <2>1. CASE k > i
    <3>1. (At(c[k]) + s) * SECTOR_SZ = At(c[k]) * SECTOR_SZ + s * SECTOR_SZ
      BY <1>5, Scaled
    <3>2. Place(g[k]) = (At(c[k]) + s) * SECTOR_SZ
      BY <1>3, <2>1, PlaceIsAt
    <3> QED
      BY <2>1, <3>1, <3>2, PlaceIsAt
  <2>2. CASE ~(k > i)
    <3>1. At(g[k]) = At(c[k])
      BY <1>3, <1>5, <2>2
    <3>2. Place(g[k]) = p
      BY <3>1, PlaceIsAt
    <3> QED
      BY <1>4, <2>2, <3>2
  <2> QED
    BY <2>1, <2>2
<1>9. \A x \in 0 .. z - 1 :
        d.data[x] = IF end <= x /\ x < end + Len(b) THEN b[x - end + 1]
                    ELSE IF end + w <= x /\ x < free + w THEN now.data[x - w] ELSE now.data[x]
  BY DEF Extent
<1>10. Len(b) \in Nat /\ Len(b) <= w
  BY DEF Fits
<1>11. ASSUME NEW y \in 0 .. l - 1 PROVE d.data[Place(g[k]) + y] = now.data[p + y]
  <2>1. CASE k > i
    <3>1. Place(g[k]) + y = p + w + y
      BY <1>8, <2>1
    <3> HIDE DEF end, free, w, z, l, p
    <3>2. end <= p
      BY <1>6, <2>1
    <3>3. /\ p + w + y \in 0 .. z - 1 /\ ~(p + w + y < end + Len(b))
          /\ end + w <= p + w + y /\ p + w + y < free + w /\ (p + w + y) - w = p + y
      BY <1>4, <1>10, <3>2
    <3>4. d.data[p + w + y] = now.data[(p + w + y) - w]
      BY <1>9, <3>3, Zenon
    <3> QED
      BY <3>1, <3>3, <3>4
  <2>2. CASE ~(k > i)
    <3>1. Place(g[k]) + y = p + y
      BY <1>4, <1>8, <2>2
    <3> HIDE DEF end, free, w, z, l, p
    <3>2. p + l <= end
      BY <1>7, <2>2
    <3>3. p + y \in 0 .. z - 1 /\ ~(end <= p + y) /\ ~(end + w <= p + y)
      BY <1>4, <3>2
    <3>4. d.data[p + y] = now.data[p + y]
      BY <1>9, <3>3, Zenon
    <3> QED
      BY <3>1, <3>4
  <2> QED
    BY <2>1, <2>2
<1> QED
  BY <1>3, <1>5, <1>11, HoldsMoved

LEMMA ExtendedHolds ==
  ASSUME NEW now, Good(now), NEW n, n = now.info.numOfFiles, NEW i \in 1 .. n,
         NEW s \in Nat, s <= now.info.numOfFreeSectors, now.catalog[i].sectorLength + s <= MaxSectors,
         NEW b, Fits(b, s), NEW d, Extent(now, d, i, s, b),
         NEW f \in Files, Holds(now.data, now.catalog[i], f)
  PROVE  Holds(d.data, d.catalog[i], Longer(f, b))
<1> DEFINE c == now.catalog
           g == d.catalog
           keep == c[i].sectorLength
           l == keep * SECTOR_SZ
           p == Place(c[i])
           free == Free(now.info) * SECTOR_SZ
           w == s * SECTOR_SZ
           z == FreeSectors * SECTOR_SZ
           h == Longer(f, b)
<1>1. /\ now \in Images /\ c \in Catalogs /\ i \in 1 .. NUM_OF_FILES_MAX /\ n \in 0 .. NUM_OF_FILES_MAX
  BY ImageType, TrdAssumption DEF Good
<1>2. c[i] \in Entries /\ keep \in Nat
  BY <1>1, EntryType
<1>3. g[i] = Grown(c[i], s)
  BY DEF Extent, MovedFrom
<1>4. /\ Place(g[i]) = p /\ g[i].sectorLength = keep + s
      /\ g[i].name = c[i].name /\ g[i].ext = c[i].ext /\ g[i].alt = c[i].alt /\ g[i].length = c[i].length
  <2>1. /\ Place(Grown(c[i], s)) = Place(c[i]) /\ Grown(c[i], s).sectorLength = c[i].sectorLength + s
        /\ Grown(c[i], s).name = c[i].name /\ Grown(c[i], s).ext = c[i].ext
        /\ Grown(c[i], s).alt = c[i].alt /\ Grown(c[i], s).length = c[i].length
    BY <1>2, GrownEffect
  <2> QED
    BY <1>3, <2>1, Zenon
<1>5. /\ h \in Files /\ h.name = f.name /\ h.length = f.length
      /\ Len(h.data) = Len(f.data) + w /\ Len(f.data) \in Nat
      /\ \A k \in 1 .. Len(f.data) : h.data[k] = f.data[k]
      /\ \A k \in 1 .. Len(f.data) + w : ~(k <= Len(f.data)) =>
           h.data[k] = IF k - Len(f.data) <= Len(b) THEN b[k - Len(f.data)] ELSE ZeroByte
  BY LongerEffect, SMTT(40)
<1>6. /\ c[i].name = f.name.base /\ c[i].ext = f.name.ext /\ c[i].alt = f.name.long
      /\ c[i].length = f.length /\ l = Len(f.data)
      /\ \A k \in 1 .. Len(f.data) : f.data[k] # ZeroByte => now.data[p + k - 1] = f.data[k]
  BY DEF Holds
<1>7. /\ free \in Nat /\ w \in Nat /\ z \in Nat /\ p \in Nat /\ l \in Nat
      /\ p + l <= free /\ free + w <= z
  BY BytesOnDisk
<1>8. \A x \in 0 .. z - 1 :
        d.data[x] = IF p + l <= x /\ x < (p + l) + Len(b) THEN b[x - (p + l) + 1]
                    ELSE IF (p + l) + w <= x /\ x < free + w THEN now.data[x - w] ELSE now.data[x]
  BY DEF Extent
<1>9. (keep + s) * SECTOR_SZ = l + w
  BY <1>2, Scaled
<1> HIDE DEF l, p, free, w, z, h, keep
<1>10. Len(b) \in Nat /\ Len(b) <= w
  BY DEF w, Fits
<1>11. ASSUME NEW k \in 1 .. Len(h.data), h.data[k] # ZeroByte
       PROVE  d.data[p + k - 1] = h.data[k]
  <2>1. k \in 1 .. l + w
    BY <1>5, <1>6
  <2>2. CASE k <= l
    <3>1. k \in 1 .. Len(f.data)
      BY <1>6, <1>7, <2>1, <2>2
    <3>2. now.data[p + k - 1] = h.data[k]
      BY <1>5, <1>6, <1>11, <3>1
    <3>3. p + k - 1 \in 0 .. z - 1 /\ ~(p + l <= p + k - 1) /\ ~((p + l) + w <= p + k - 1)
      BY <1>7, <2>1, <2>2
    <3>4. d.data[p + k - 1] = now.data[p + k - 1]
      BY <1>8, <3>3, Zenon
    <3> QED
      BY <3>2, <3>4
  <2>3. CASE ~(k <= l)
    <3>1. h.data[k] = IF k - l <= Len(b) THEN b[k - l] ELSE ZeroByte
      BY <1>5, <1>6, <2>1, <2>3
    <3>2. k - l <= Len(b) /\ h.data[k] = b[k - l]
      BY <1>11, <3>1
    <3>3. /\ p + k - 1 \in 0 .. z - 1 /\ p + l <= p + k - 1 /\ p + k - 1 < (p + l) + Len(b)
          /\ (p + k - 1) - (p + l) + 1 = k - l
      BY <1>7, <1>10, <2>1, <2>3, <3>2, SMTT(40)
    <3>4. d.data[p + k - 1] = b[(p + k - 1) - (p + l) + 1]
      BY <1>8, <3>3, Zenon
    <3> QED
      BY <3>2, <3>3, <3>4
  <2> QED
    BY <2>2, <2>3
<1>12. g[i].sectorLength * SECTOR_SZ = Len(h.data)
  BY <1>4, <1>5, <1>6, <1>9
<1> QED
  BY <1>4, <1>5, <1>6, <1>11, <1>12 DEF Holds, h

LEMMA OneReplaced ==
  ASSUME NEW ks \in Seq(Files), NEW j \in 1 .. Len(ks), NEW h \in Files
  PROVE  /\ [ks EXCEPT ![j] = h] \in Seq(Files) /\ Len([ks EXCEPT ![j] = h]) = Len(ks)
         /\ \A k \in 1 .. Len(ks) : [ks EXCEPT ![j] = h][k] = IF k = j THEN h ELSE ks[k]
<1>1. DOMAIN ks = 1 .. Len(ks) /\ Len(ks) \in Nat /\ ks \in [1 .. Len(ks) -> Files]
  OBVIOUS
<1> DEFINE lf == [ks EXCEPT ![j] = h]
<1>2. lf \in [1 .. Len(ks) -> Files] /\ \A k \in 1 .. Len(ks) : lf[k] = IF k = j THEN h ELSE ks[k]
  BY <1>1
<1> HIDE DEF lf
<1>3. lf \in Seq(Files) /\ Len(lf) = Len(ks)
  BY <1>1, <1>2
<1> QED
  BY <1>2, <1>3 DEF lf

LEMMA ExtendHolds ==
  ASSUME NEW now, Good(now), NEW n, n = now.info.numOfFiles,
         NEW live, live = LiveFiles(now.catalog, n), NEW i \in live,
         NEW s \in Nat, s <= now.info.numOfFreeSectors, now.catalog[i].sectorLength + s <= MaxSectors,
         NEW b, Fits(b, s), NEW d, Extent(now, d, i, s, b),
         NEW ks \in Seq(Files), HoldsFiles(now, ks)
  PROVE  HoldsFiles(d, [ks EXCEPT ![Rank(live, i)] = Longer(@, b)])
<1> DEFINE j == Rank(live, i)
           h == Longer(ks[j], b)
           lf == [ks EXCEPT ![j] = h]
<1>1. live \in SUBSET (1 .. n) /\ n \in Nat
  BY OnDisk DEF LiveFiles
<1>2. /\ Cardinality(live) = Len(ks)
      /\ \A k \in live : Holds(now.data, now.catalog[k], ks[Rank(live, k)])
  BY DEF HoldsFiles
<1>3. \A k \in live : Rank(live, k) \in 1 .. Len(ks)
  BY <1>1, <1>2, RankType
<1>4. \A k \in live : k # i => Rank(live, k) # j
  BY <1>1, RankInjective
<1>5. \A k \in 1 .. Len(ks) : ks[k] \in Files
  OBVIOUS
<1>6. h \in Files
  BY <1>3, <1>5, LongerEffect
<1>7. Len(lf) = Len(ks) /\ \A k \in 1 .. Len(ks) : lf[k] = IF k = j THEN h ELSE ks[k]
  <2>1. j \in 1 .. Len(ks)
    BY <1>3
  <2> HIDE DEF j, h
  <2>2. /\ [ks EXCEPT ![j] = h] \in Seq(Files) /\ Len([ks EXCEPT ![j] = h]) = Len(ks)
        /\ \A k \in 1 .. Len(ks) : [ks EXCEPT ![j] = h][k] = IF k = j THEN h ELSE ks[k]
    BY <1>6, <2>1, OneReplaced
  <2> QED
    BY <2>2, Zenon
<1>8. /\ d.info.numOfFiles = n /\ LiveFiles(d.catalog, n) = live
  BY <1>1, ExtendGood
<1>9. ASSUME NEW k \in live PROVE Holds(d.data, d.catalog[k], lf[Rank(live, k)])
  <2>1. Holds(now.data, now.catalog[k], ks[Rank(live, k)]) /\ ks[Rank(live, k)] \in Files
    BY <1>2, <1>3, <1>5
  <2>2. k \in 1 .. n /\ i \in 1 .. n
    BY <1>1
  <2>3. CASE k = i
    <3>1. lf[Rank(live, k)] = Longer(ks[Rank(live, i)], b)
      BY <1>3, <1>7, <2>3
    <3>2. Holds(d.data, d.catalog[i], Longer(ks[Rank(live, i)], b))
      BY <2>1, <2>2, <2>3, ExtendedHolds
    <3> QED
      BY <2>3, <3>1, <3>2
  <2>4. CASE k # i
    <3>1. lf[Rank(live, k)] = ks[Rank(live, k)]
      BY <1>3, <1>4, <1>7, <2>4
    <3>2. Holds(d.data, d.catalog[k], ks[Rank(live, k)])
      BY <2>1, <2>2, <2>4, OthersMoved
    <3> QED
      BY <3>1, <3>2
  <2> QED
    BY <2>3, <2>4
<1> HIDE DEF lf
<1>10. HoldsFiles(d, lf)
  BY <1>2, <1>7, <1>8, <1>9 DEF HoldsFiles
<1> QED
  BY <1>10 DEF lf, h

-----------------------------------------------------------------------------
(* Files by name, and the files that are kept.                              *)

\* The entry of a file goes by the names the file goes by.
LEMMA MatchesSame ==
  ASSUME NEW data, NEW e, NEW f \in Files, Holds(data, e, f), e.first = 2,
         NEW name, NEW three \in BOOLEAN, NEW L, L = IF three THEN 11 ELSE 9
  PROVE  Matches(e, name, L) <=> Same(f, name, three)
<1>1. e.name = f.name.base /\ e.ext = f.name.ext /\ e.alt = f.name.long
  BY DEF Holds
<1>2. L = 11 <=> three
  OBVIOUS
<1> QED
  BY <1>1, <1>2, Zenon DEF Matches, Same

\* The files of ks that go by a name.
SameIn(ks, name, three) == {k \in DOMAIN ks : Same(ks[k], name, three)}

LEMMA SameRanks ==
  ASSUME NEW t, NEW n, n \in Nat, n = t.info.numOfFiles, NEW ks, ks \in Seq(Files), HoldsFiles(t, ks),
         NEW name, NEW three, three \in BOOLEAN, NEW L, L = IF three THEN 11 ELSE 9
  PROVE  SameIn(ks, name, three) = Ranks(LiveFiles(t.catalog, n), Matching(t.catalog, n, name, L))
<1> DEFINE live == LiveFiles(t.catalog, n)
           M == Matching(t.catalog, n, name, L)
<1>1. live \in SUBSET (1 .. n) /\ \A i \in live : t.catalog[i].first = 2
  BY DEF LiveFiles
<1>2. /\ Cardinality(live) = Len(ks) /\ DOMAIN ks = 1 .. Len(ks)
      /\ \A i \in live : Holds(t.data, t.catalog[i], ks[Rank(live, i)])
  BY DEF HoldsFiles
<1>3. M = {i \in live : Matches(t.catalog[i], name, L)}
  BY DEF Matching
<1> HIDE DEF live, M
<1>4. \A k \in DOMAIN ks : \E i \in live : Rank(live, i) = k
  BY <1>1, <1>2, RankOnto
<1>5. \A i \in live : Rank(live, i) \in DOMAIN ks
  BY <1>1, <1>2, RankType
<1>6. ASSUME NEW i \in live
      PROVE  Matches(t.catalog[i], name, L) <=> Same(ks[Rank(live, i)], name, three)
  <2>1. ks[Rank(live, i)] \in Files
    BY <1>2, <1>5
  <2> QED
    BY <1>1, <1>2, <2>1, MatchesSame
<1>7. \A k \in DOMAIN ks : Same(ks[k], name, three) => k \in Ranks(live, M)
  BY <1>3, <1>4, <1>6 DEF Ranks
<1>8. \A i \in M : Rank(live, i) \in DOMAIN ks /\ Same(ks[Rank(live, i)], name, three)
  BY <1>3, <1>5, <1>6
<1> QED
  BY <1>7, <1>8 DEF live, M, Ranks, SameIn

\* What is left when some files go.
LeftOf(ks, out) ==
  [k \in 1 .. Cardinality(DOMAIN ks \ out) |-> ks[Nth(DOMAIN ks \ out, k)]]

LEMMA WithoutEffect ==
  \A ks \in Seq(Files), n \in Nat : \A live \in SUBSET (1 .. n) : \A X \in SUBSET live :
    Cardinality(live) = Len(ks) =>
      /\ LeftOf(ks, Ranks(live, X)) \in Seq(Files)
      /\ Len(LeftOf(ks, Ranks(live, X))) = Cardinality(live \ X)
      /\ \A i \in live \ X : LeftOf(ks, Ranks(live, X))[Rank(live \ X, i)] = ks[Rank(live, i)]
      /\ \A j \in 1 .. Cardinality(live \ X) : \E i \in live \ X : Rank(live \ X, i) = j
<1> TAKE ks \in Seq(Files), n \in Nat
<1> TAKE live \in SUBSET (1 .. n)
<1> TAKE X \in SUBSET live
<1> HAVE Cardinality(live) = Len(ks)
<1> DEFINE left == live \ X
           out == Ranks(live, X)
           P == DOMAIN ks \ out
<1>1. DOMAIN ks = 1 .. Len(ks) /\ Len(ks) \in Nat /\ \A k \in DOMAIN ks : ks[k] \in Files
  OBVIOUS
<1>2. left \in SUBSET live
  OBVIOUS
<1>3. P = Ranks(live, left)
  <2>1. \A k \in 1 .. Len(ks) : \E i \in live : Rank(live, i) = k
    BY RankOnto
  <2>2. \A i \in live : Rank(live, i) \in 1 .. Len(ks)
    BY RankType
  <2>3. \A i, j \in live : Rank(live, i) = Rank(live, j) => i = j
    BY RankInjective
  <2>4. \A k \in P : \E i \in left : Rank(live, i) = k
    BY <1>1, <2>1 DEF Ranks
  <2>5. \A i \in left : Rank(live, i) \in P
    BY <1>1, <2>2, <2>3 DEF Ranks
  <2> HIDE DEF P
  <2> QED
    BY <2>4, <2>5 DEF Ranks
<1>4. /\ P \in SUBSET (1 .. Len(ks)) /\ Cardinality(P) = Cardinality(left)
      /\ \A i \in left : Rank(P, Rank(live, i)) = Rank(left, i)
  <2> DEFINE U == Ranks(live, left)
  <2>1. /\ U \in SUBSET (1 .. Cardinality(live)) /\ Cardinality(U) = Cardinality(left)
        /\ \A i \in left : Rank(U, Rank(live, i)) = Rank(left, i)
    BY <1>2, RankThrough
  <2>2. P = U
    BY <1>3
  <2> HIDE DEF P, U, out
  <2> QED
    BY <2>1, <2>2
<1>5. LeftOf(ks, out) = [k \in 1 .. Cardinality(P) |-> ks[Nth(P, k)]]
  BY DEF LeftOf
<1> HIDE DEF P
<1>6. Cardinality(P) \in Nat /\ \A k \in 1 .. Cardinality(P) : Nth(P, k) \in P
  <2>1. Cardinality(P) \in Nat
    BY <1>1, <1>4, RankType
  <2>2. \A k \in 1 .. Cardinality(P) : Nth(P, k) \in P
    BY <1>1, <1>4, NthRank
  <2> QED
    BY <2>1, <2>2
<1>7. \A k \in 1 .. Cardinality(P) : ks[Nth(P, k)] \in Files
  BY <1>1, <1>4, <1>6
<1>8. LeftOf(ks, out) \in [1 .. Cardinality(P) -> Files]
  BY <1>5, <1>7
<1>9. LeftOf(ks, out) \in Seq(Files) /\ Len(LeftOf(ks, out)) = Cardinality(P)
  BY <1>6, <1>8
<1>10. ASSUME NEW i \in left PROVE LeftOf(ks, out)[Rank(left, i)] = ks[Rank(live, i)]
  <2>1. Rank(live, i) \in P
    BY <1>3 DEF Ranks
  <2>2. Nth(P, Rank(P, Rank(live, i))) = Rank(live, i) /\ Rank(P, Rank(live, i)) \in 1 .. Cardinality(P)
    BY <1>1, <1>4, <2>1, NthRank, RankType
  <2>3. Rank(P, Rank(live, i)) = Rank(left, i)
    BY <1>4
  <2> QED
    BY <1>5, <2>2, <2>3
<1>11. \A j \in 1 .. Cardinality(left) : \E i \in left : Rank(left, i) = j
  <2>1. left \in SUBSET (1 .. n)
    OBVIOUS
  <2> QED
    BY <2>1, RankOnto
<1> QED
  BY <1>4, <1>9, <1>10, <1>11

LEMMA HeldWithout ==
  ASSUME NEW ks, NEW t, HoldsFiles(t, ks), NEW X, NEW d,
         LiveFiles(d.catalog, d.info.numOfFiles) = LiveFiles(t.catalog, t.info.numOfFiles) \ X,
         d.data = t.data,
         \A i \in LiveFiles(d.catalog, d.info.numOfFiles) : d.catalog[i] = t.catalog[i],
         NEW lf, Len(lf) = Cardinality(LiveFiles(d.catalog, d.info.numOfFiles)),
         \A i \in LiveFiles(d.catalog, d.info.numOfFiles) :
           lf[Rank(LiveFiles(d.catalog, d.info.numOfFiles), i)]
             = ks[Rank(LiveFiles(t.catalog, t.info.numOfFiles), i)]
  PROVE  HoldsFiles(d, lf)
BY DEF HoldsFiles

LEMMA KeptWithout ==
  \A ks : \A m \in Nat, n \in Nat : \A live \in SUBSET (1 .. n) : \A X \in SUBSET live :
    KeptFiles(ks, m) /\ Cardinality(live) = Len(ks) =>
      /\ KeptFiles(LeftOf(ks, Ranks(live, X)), m)
      /\ Len(LeftOf(ks, Ranks(live, X))) = Cardinality(live \ X)
      /\ \A i \in live \ X : LeftOf(ks, Ranks(live, X))[Rank(live \ X, i)] = ks[Rank(live, i)]
<1> TAKE ks
<1> TAKE m \in Nat, n \in Nat
<1> TAKE live \in SUBSET (1 .. n)
<1> TAKE X \in SUBSET live
<1> HAVE KeptFiles(ks, m) /\ Cardinality(live) = Len(ks)
<1> DEFINE left == live \ X
           lf == LeftOf(ks, Ranks(live, X))
<1>1. ks \in Seq(Files)
  BY DEF KeptFiles
<1>2. /\ lf \in Seq(Files) /\ Len(lf) = Cardinality(left)
      /\ \A i \in left : lf[Rank(left, i)] = ks[Rank(live, i)]
      /\ \A j \in 1 .. Cardinality(left) : \E i \in left : Rank(left, i) = j
  <2>1. \A Y \in SUBSET live :
          /\ LeftOf(ks, Ranks(live, Y)) \in Seq(Files)
          /\ Len(LeftOf(ks, Ranks(live, Y))) = Cardinality(live \ Y)
          /\ \A i \in live \ Y : LeftOf(ks, Ranks(live, Y))[Rank(live \ Y, i)] = ks[Rank(live, i)]
          /\ \A j \in 1 .. Cardinality(live \ Y) : \E i \in live \ Y : Rank(live \ Y, i) = j
    BY <1>1, WithoutEffect, Zenon
  <2> QED
    BY <2>1, Zenon
<1>3. \A i \in live : Rank(live, i) \in 1 .. Len(ks)
  BY RankType
<1>4. \A i, j \in live : Rank(live, i) = Rank(live, j) => i = j
  BY RankInjective
<1> HIDE DEF lf
<1>5. ASSUME NEW j \in 1 .. Len(lf) PROVE WellKept(lf[j], m)
  BY <1>2, <1>3 DEF KeptFiles
<1>6. ASSUME NEW j \in 1 .. Len(lf), NEW k \in 1 .. Len(lf), lf[j].data[1][1] = lf[k].data[1][1]
      PROVE  j = k
  <2>1. PICK a \in left : Rank(left, a) = j
    BY <1>2
  <2>2. PICK b \in left : Rank(left, b) = k
    BY <1>2
  <2>3. lf[j] = ks[Rank(live, a)] /\ lf[k] = ks[Rank(live, b)]
    BY <1>2, <2>1, <2>2
  <2>4. Rank(live, a) = Rank(live, b)
    BY <1>3, <1>6, <2>3 DEF KeptFiles
  <2> QED
    BY <1>4, <2>1, <2>2, <2>4
<1> QED
  BY <1>2, <1>5, <1>6 DEF KeptFiles, lf

LEMMA KeptOn ==
  ASSUME NEW m \in Nat, NEW ks, KeptFiles(ks, m)
  PROVE  KeptFiles(ks, m + 1)
<1>1. \A x : x \in 1 .. m => x \in 1 .. m + 1
  OBVIOUS
<1> QED
  BY <1>1 DEF KeptFiles, WellKept

LEMMA KeptAppend ==
  ASSUME NEW m \in Nat, NEW ks, KeptFiles(ks, m), NEW f \in Files, WellKept(f, m + 1),
         f.data[1][1] = m + 1
  PROVE  KeptFiles(Append(ks, f), m + 1)
<1> DEFINE lf == Append(ks, f)
<1>1. ks \in Seq(Files) /\ Len(ks) \in Nat
  BY DEF KeptFiles
<1>2. /\ lf \in Seq(Files) /\ Len(lf) = Len(ks) + 1 /\ lf[Len(ks) + 1] = f
      /\ \A k \in 1 .. Len(ks) : lf[k] = ks[k]
  BY <1>1
<1> HIDE DEF lf
<1>3. \A k \in 1 .. Len(lf) : k \in 1 .. Len(ks) \/ k = Len(ks) + 1
  BY <1>1, <1>2
<1>4. KeptFiles(ks, m + 1)
  BY KeptOn
<1>5. \A k \in 1 .. Len(lf) : WellKept(lf[k], m + 1)
  BY <1>2, <1>3, <1>4 DEF KeptFiles
<1>6. \A k \in 1 .. Len(ks) : ks[k].data[1][1] # m + 1
  <2>1. \A k \in 1 .. Len(ks) : ks[k].data[1][1] \in 1 .. m
    BY DEF KeptFiles, WellKept
  <2>2. \A x \in 1 .. m : x # m + 1
    OBVIOUS
  <2> QED
    BY <2>1, <2>2
<1>7. ASSUME NEW j \in 1 .. Len(lf), NEW k \in 1 .. Len(lf), lf[j].data[1][1] = lf[k].data[1][1]
      PROVE  j = k
  BY <1>2, <1>3, <1>6, <1>7 DEF KeptFiles
<1> QED
  BY <1>2, <1>5, <1>7 DEF KeptFiles, lf

LEMMA KeptLonger ==
  ASSUME NEW m \in Nat, NEW ks, KeptFiles(ks, m), NEW j \in 1 .. Len(ks),
         NEW s \in Nat, NEW b, Fits(b, s)
  PROVE  KeptFiles([ks EXCEPT ![j] = Longer(ks[j], b)], m)
<1> DEFINE h == Longer(ks[j], b)
           lf == [ks EXCEPT ![j] = h]
<1>1. ks \in Seq(Files) /\ ks[j] \in Files /\ WellKept(ks[j], m)
  BY DEF KeptFiles
<1>2. /\ h \in Files /\ h.length = ks[j].length
      /\ Len(h.data) = Len(ks[j].data) + s * SECTOR_SZ /\ Len(ks[j].data) \in Nat
      /\ \A k \in 1 .. Len(ks[j].data) : h.data[k] = ks[j].data[k]
  BY <1>1, LongerEffect
<1> HIDE DEF h
<1>3. /\ lf \in Seq(Files) /\ Len(lf) = Len(ks)
      /\ \A k \in 1 .. Len(ks) : lf[k] = IF k = j THEN h ELSE ks[k]
  BY <1>1, <1>2, OneReplaced
<1> HIDE DEF lf
<1>4. /\ Len(ks[j].data) > 0 /\ ks[j].length <= Len(ks[j].data) /\ ks[j].length \in Int
      /\ \A k \in 1 .. ks[j].length : ks[j].data[k] # ZeroByte
      /\ ks[j].data[1][1] \in 1 .. m
  BY <1>1 DEF WellKept, Files
<1>5. 1 \in 1 .. Len(ks[j].data) /\ \A k \in 1 .. ks[j].length : k \in 1 .. Len(ks[j].data)
  BY <1>2, <1>4
<1>6. h.data[1][1] = ks[j].data[1][1]
  BY <1>2, <1>5
<1>7. WellKept(h, m)
  <2>1. s * SECTOR_SZ \in Nat
    BY ScaledInt
  <2>2. Len(h.data) > 0 /\ h.length <= Len(h.data)
    <3> DEFINE w == s * SECTOR_SZ
    <3> HIDE DEF w
    <3>1. w \in Nat /\ Len(h.data) = Len(ks[j].data) + w
      BY <1>2, <2>1 DEF w
    <3> QED
      BY <1>2, <1>4, <3>1
  <2>3. \A k \in 1 .. h.length : h.data[k] # ZeroByte
    BY <1>2, <1>4, <1>5
  <2> QED
    BY <1>4, <1>6, <2>2, <2>3 DEF WellKept
<1>8. \A k \in 1 .. Len(ks) : lf[k].data[1][1] = ks[k].data[1][1]
  BY <1>3, <1>6
<1>9. \A k \in 1 .. Len(ks) : WellKept(lf[k], m)
  BY <1>3, <1>7 DEF KeptFiles
<1> QED
  BY <1>3, <1>8, <1>9 DEF KeptFiles, lf, h

-----------------------------------------------------------------------------
(* TRD_AddFile as a whole.                                                  *)

\* A file with the name is taken away.
LEMMA RemovedEffect ==
  ASSUME NEW t, Good(t), NEW n, n = t.info.numOfFiles, NEW i \in LiveFiles(t.catalog, n),
         NEW d, d = RemoveLast(t, i)
  PROVE  /\ Good(d) /\ d.data = t.data
         /\ LiveFiles(d.catalog, d.info.numOfFiles) = WithoutOne(LiveFiles(t.catalog, n), i)
         /\ \A k \in LiveFiles(t.catalog, n) : k # i => d.catalog[k] = t.catalog[k]
<1>1. n \in Nat /\ n <= NUM_OF_FILES_MAX /\ NUM_OF_FILES_MAX \in Nat
  BY OnDisk
<1>2. i \in 1 .. n /\ t.catalog[i].first = 2
  BY DEF LiveFiles
<1>3. \A k \in LiveFiles(t.catalog, n) : k \in 1 .. NUM_OF_FILES_MAX
  BY <1>1 DEF LiveFiles
<1>4. CASE i = n
  <2> DEFINE e == RemoveLast(t, n)
  <2>1. n \in 1 .. NUM_OF_FILES_MAX /\ t.catalog[n].first = 2 /\ d = e
    BY <1>1, <1>2, <1>4
  <2>2. e = RemoveLast(t, n)
    OBVIOUS
  <2> HIDE DEF e
  <2>3. /\ Good(e) /\ e.data = t.data /\ e.info.numOfFiles = n - 1
        /\ LiveFiles(e.catalog, n - 1) = LiveFiles(t.catalog, n) \ {n}
        /\ \A k \in 1 .. NUM_OF_FILES_MAX : k # n => e.catalog[k] = t.catalog[k]
    BY <2>1, <2>2, TakenOff
  <2> QED
    BY <1>3, <1>4, <2>1, <2>3 DEF WithoutOne
<1>5. CASE i # n
  <2> DEFINE X == {i}
             e == Deleted(t, X)
  <2>1. d = e
    BY <1>5 DEF RemoveLast
  <2>2. X \in SUBSET LiveFiles(t.catalog, n) /\ e = Deleted(t, X)
    OBVIOUS
  <2> HIDE DEF X, e
  <2>3. /\ Good(e) /\ e.data = t.data /\ e.info.numOfFiles = n
        /\ LiveFiles(e.catalog, n) = LiveFiles(t.catalog, n) \ X
        /\ \A k \in (1 .. NUM_OF_FILES_MAX) \ X : e.catalog[k] = t.catalog[k]
    BY <2>2, DeletedStays
  <2>4. \A k \in LiveFiles(t.catalog, n) \ X : e.catalog[k] = t.catalog[k]
    BY <1>3, <2>3
  <2> QED
    BY <2>1, <2>3, <2>4 DEF X, WithoutOne
<1> QED
  BY <1>4, <1>5

\* The files lf of the entries left are those of ks of the entries live.
SameFiles(lf, left, ks, live) == \A i \in left : lf[Rank(left, i)] = ks[Rank(live, i)]

LEMMA LeftHeld ==
  ASSUME NEW m \in Nat, NEW ks, KeptFiles(ks, m), NEW t, Good(t), HoldsFiles(t, ks),
         NEW X \in SUBSET LiveFiles(t.catalog, t.info.numOfFiles), NEW d,
         LiveFiles(d.catalog, d.info.numOfFiles) = LiveFiles(t.catalog, t.info.numOfFiles) \ X,
         d.data = t.data,
         \A i \in LiveFiles(t.catalog, t.info.numOfFiles) \ X : d.catalog[i] = t.catalog[i]
  PROVE  /\ KeptFiles(LeftOf(ks, Ranks(LiveFiles(t.catalog, t.info.numOfFiles), X)), m)
         /\ HoldsFiles(d, LeftOf(ks, Ranks(LiveFiles(t.catalog, t.info.numOfFiles), X)))
         /\ SameFiles(LeftOf(ks, Ranks(LiveFiles(t.catalog, t.info.numOfFiles), X)),
                      LiveFiles(d.catalog, d.info.numOfFiles), ks, LiveFiles(t.catalog, t.info.numOfFiles))
<1> DEFINE n == t.info.numOfFiles
           live == LiveFiles(t.catalog, n)
           left == LiveFiles(d.catalog, d.info.numOfFiles)
           lf == LeftOf(ks, Ranks(live, X))
<1>1. /\ m \in Nat /\ n \in Nat /\ live \in SUBSET (1 .. n) /\ X \in SUBSET live
      /\ KeptFiles(ks, m) /\ Cardinality(live) = Len(ks)
  BY OnDisk DEF HoldsFiles, LiveFiles
<1>2. left = live \ X
  OBVIOUS
<1>3. /\ KeptFiles(lf, m) /\ Len(lf) = Cardinality(live \ X)
      /\ \A i \in live \ X : lf[Rank(live \ X, i)] = ks[Rank(live, i)]
  <2> HIDE DEF live, n
  <2>1. \A Y \in SUBSET live :
            /\ KeptFiles(LeftOf(ks, Ranks(live, Y)), m)
            /\ Len(LeftOf(ks, Ranks(live, Y))) = Cardinality(live \ Y)
            /\ \A i \in live \ Y : LeftOf(ks, Ranks(live, Y))[Rank(live \ Y, i)] = ks[Rank(live, i)]
    <3>1. m \in Nat /\ n \in Nat /\ live \in SUBSET (1 .. n) /\ KeptFiles(ks, m) /\ Cardinality(live) = Len(ks)
      BY <1>1, Zenon
    <3>2. \A mm \in Nat, nn \in Nat : \A S \in SUBSET (1 .. nn) : \A Y \in SUBSET S :
            KeptFiles(ks, mm) /\ Cardinality(S) = Len(ks) =>
              /\ KeptFiles(LeftOf(ks, Ranks(S, Y)), mm)
              /\ Len(LeftOf(ks, Ranks(S, Y))) = Cardinality(S \ Y)
              /\ \A i \in S \ Y : LeftOf(ks, Ranks(S, Y))[Rank(S \ Y, i)] = ks[Rank(S, i)]
      BY KeptWithout, Zenon
    <3>3. \A S \in SUBSET (1 .. n) : \A Y \in SUBSET S :
            KeptFiles(ks, m) /\ Cardinality(S) = Len(ks) =>
              /\ KeptFiles(LeftOf(ks, Ranks(S, Y)), m)
              /\ Len(LeftOf(ks, Ranks(S, Y))) = Cardinality(S \ Y)
              /\ \A i \in S \ Y : LeftOf(ks, Ranks(S, Y))[Rank(S \ Y, i)] = ks[Rank(S, i)]
      BY <3>1, <3>2, Zenon
    <3> QED
      BY <3>1, <3>3, Zenon
  <2> QED
    BY <1>1, <2>1, Zenon
<1> HIDE DEF lf
<1>4. HoldsFiles(d, lf)
  BY <1>2, <1>3 DEF HoldsFiles
<1>5. \A i \in left : lf[Rank(left, i)] = ks[Rank(live, i)]
  BY <1>2, <1>3
<1> QED
  BY <1>3, <1>4, <1>5 DEF lf, SameFiles

SameOf(ks, q) == SameIn(ks, Recorded(q), Three(q))

\* A call is refused, and the image stays, or the image is a good one of the files asked for.
Outcome(t, r, m, ks) ==
  \/ r = Refused(t)
  \/ r.ok = TRUE /\ Good(r.trd) /\ HoldsFiles(r.trd, ks) /\ KeptFiles(ks, m + 1)

LEMMA NewFile ==
  ASSUME NEW m \in Nat, NEW ks, KeptFiles(ks, m), NEW t, NEW now, Good(now), HoldsFiles(now, ks),
         NEW q \in Calls, q.id = m + 1, ~ArgumentsRefused(q), q.mode # "add"
  PROVE  Outcome(t, AddNew(t, now, q), m, Append(ks, FileOf(q)))
<1> DEFINE r == AddNew(t, now, q)
           n == now.info.numOfFiles
<1>1. r = NewEntry(t, now, n + 1, q)
  BY DEF AddNew
<1>2. \/ NewEntry(t, now, n + 1, q) = Refused(t)
      \/ /\ NewEntry(t, now, n + 1, q).ok = TRUE /\ Good(NewEntry(t, now, n + 1, q).trd)
         /\ \A kl \in Seq(Files) : HoldsFiles(now, kl) =>
              HoldsFiles(NewEntry(t, now, n + 1, q).trd, Append(kl, FileOf(q)))
  BY NewEntryEffect
<1>3. ks \in Seq(Files)
  BY DEF KeptFiles
<1>4. FileOf(q) \in Files /\ WellKept(FileOf(q), m + 1) /\ FileOf(q).data[1][1] = m + 1
  BY FileOfCall
<1>5. KeptFiles(Append(ks, FileOf(q)), m + 1)
  BY <1>4, KeptAppend
<1> HIDE DEF r
<1> QED
  BY <1>1, <1>2, <1>3, <1>5 DEF Outcome, r

LEMMA NormalCall ==
  ASSUME NEW m \in Nat, NEW ks, KeptFiles(ks, m), NEW t, Good(t), HoldsFiles(t, ks),
         NEW q \in Calls, q.id = m + 1, ~ArgumentsRefused(q), q.mode = "normal"
  PROVE  Outcome(t, AddFile(t, q), m, Append(ks, FileOf(q)))
<1>1. AddFile(t, q) = AddNew(t, t, q)
  BY DEF AddFile, AddLast, AddTo
<1>2. q.mode # "add"
  OBVIOUS
<1> QED
  BY <1>1, <1>2, NewFile

\* The files that go by the name of a call.
LEMMA Found ==
  ASSUME NEW t, Good(t), NEW n, n = t.info.numOfFiles, NEW ks \in Seq(Files), HoldsFiles(t, ks),
         NEW q \in Calls
  PROVE  SameOf(ks, q) = Ranks(LiveFiles(t.catalog, n), Matching(t.catalog, n, Built(q), Compared(q)))
<1> DEFINE L == Compared(q)
           w == Recorded(q)
           three == Three(q)
<1>1. n \in Nat /\ ks \in Seq(Files)
  BY OnDisk
<1>2. L = (IF three THEN 11 ELSE 9) /\ w = Built(q)
  BY BuiltIsRecorded
<1>3. three \in BOOLEAN
  BY DEF Three
<1>4. SameOf(ks, q) = SameIn(ks, w, three)
  BY DEF SameOf
<1> HIDE DEF L, w, three
<1>5. SameIn(ks, w, three) = Ranks(LiveFiles(t.catalog, n), Matching(t.catalog, n, w, L))
  BY <1>1, <1>2, <1>3, SameRanks, SMT
<1> QED
  BY <1>2, <1>4, <1>5 DEF L, w

\* What a call in the modes "add" and "replace" begins with.
LEMMA DeletedEarlier ==
  ASSUME NEW t, Good(t), NEW q
  PROVE  LET n    == t.info.numOfFiles
             M    == Matching(t.catalog, n, Built(q), Compared(q))
             now  == DeleteEarlier(t, Built(q), Compared(q))
             last == LastMatch(t.catalog, Built(q), Compared(q))
         IN  /\ Good(now) /\ now.data = t.data /\ now.info.numOfFiles = n
             /\ LiveFiles(now.catalog, n) = WithoutFirst(LiveFiles(t.catalog, n), M, last)
             /\ \A i \in (1 .. NUM_OF_FILES_MAX) \ (M \ {last}) : now.catalog[i] = t.catalog[i]
             /\ LastMatch(now.catalog, Built(q), Compared(q)) = last
             /\ M = {} => last = NUM_OF_FILES_MAX + 1
             /\ M # {} => last \in M /\ \A j \in M : j <= last
<1> DEFINE n == t.info.numOfFiles
           L == Compared(q)
           M == Matching(t.catalog, n, Built(q), L)
           now == DeleteEarlier(t, Built(q), L)
           last == LastMatch(t.catalog, Built(q), L)
<1>1. /\ Good(now) /\ now.data = t.data /\ now.info.numOfFiles = n
      /\ LiveFiles(now.catalog, n) = WithoutFirst(LiveFiles(t.catalog, n), M, last)
      /\ \A i \in (1 .. NUM_OF_FILES_MAX) \ (M \ {last}) : now.catalog[i] = t.catalog[i]
      /\ LastMatch(now.catalog, Built(q), L) = last
  <2> DEFINE nm == Built(q)
  <2>1. now = DeleteEarlier(t, nm, L) /\ last = LastMatch(t.catalog, nm, L) /\ M = Matching(t.catalog, n, nm, L)
    OBVIOUS
  <2> HIDE DEF now, last, M, L, nm, n
  <2>2. n = t.info.numOfFiles
    BY DEF n
  <2>3. /\ Good(now) /\ now.data = t.data /\ now.info.numOfFiles = n
        /\ LiveFiles(now.catalog, n) = WithoutFirst(LiveFiles(t.catalog, n), M, last)
        /\ \A i \in (1 .. NUM_OF_FILES_MAX) \ (M \ {last}) : now.catalog[i] = t.catalog[i]
        /\ LastMatch(now.catalog, nm, L) = last
    BY <2>1, <2>2, DeleteEarlierEffect, SMT
  <2> QED
    BY <2>3 DEF nm
<1>2. /\ M = {} => last = NUM_OF_FILES_MAX + 1
      /\ M # {} => last \in M /\ \A j \in M : j <= last
  <2>1. t.catalog \in Catalogs /\ n \in 0 .. NUM_OF_FILES_MAX /\ LaidOut(t.catalog, n)
    BY ImageType DEF Good
  <2> DEFINE c == t.catalog
             nm == Built(q)
  <2>2. last = LastMatch(c, nm, L) /\ M = Matching(c, n, nm, L) /\ c \in Catalogs /\ LaidOut(c, n) /\ n \in 0 .. NUM_OF_FILES_MAX
    BY <2>1
  <2> HIDE DEF c, nm, L, n, last, M
  <2>3. /\ Matching(c, n, nm, L) = {} => last = NUM_OF_FILES_MAX + 1
        /\ Matching(c, n, nm, L) # {} =>
             last \in Matching(c, n, nm, L) /\ \A j \in Matching(c, n, nm, L) : j <= last
    BY <2>2, LastMatchIs
  <2> QED
    BY <2>2, <2>3
<1> QED
  BY <1>1, <1>2

LEMMA ReplaceCall ==
  ASSUME NEW m \in Nat, NEW ks, KeptFiles(ks, m), NEW t, Good(t), HoldsFiles(t, ks),
         NEW q \in Calls, q.id = m + 1, ~ArgumentsRefused(q), q.mode = "replace"
  PROVE  Outcome(t, AddFile(t, q), m, Append(LeftOf(ks, SameOf(ks, q)), FileOf(q)))
<1> DEFINE n == t.info.numOfFiles
           L == Compared(q)
           live == LiveFiles(t.catalog, n)
           M == Matching(t.catalog, n, Built(q), L)
           now == DeleteEarlier(t, Built(q), L)
           last == LastMatch(t.catalog, Built(q), L)
           lf == LeftOf(ks, SameOf(ks, q))
           d == RemoveLast(now, last)
<1>1. AddFile(t, q) = Replace(t, now, LastMatch(now.catalog, Built(q), L), q)
  BY DEF AddFile, AddLast, AddTo
<1>2. /\ Good(now) /\ now.data = t.data /\ now.info.numOfFiles = n
      /\ LiveFiles(now.catalog, n) = WithoutFirst(live, M, last)
      /\ \A i \in (1 .. NUM_OF_FILES_MAX) \ (M \ {last}) : now.catalog[i] = t.catalog[i]
      /\ LastMatch(now.catalog, Built(q), L) = last
  BY DeletedEarlier
<1>3. ks \in Seq(Files)
  BY DEF KeptFiles
<1>4. SameOf(ks, q) = Ranks(live, M)
  BY <1>3, Found
<1>5. M \in SUBSET live
  BY DEF Matching
<1>6. /\ n \in Nat /\ n <= NUM_OF_FILES_MAX /\ NUM_OF_FILES_MAX \in Nat
      /\ \A i \in live : i \in 1 .. n /\ i \in 1 .. NUM_OF_FILES_MAX
  BY OnDisk DEF LiveFiles
<1>7. /\ M = {} => last = NUM_OF_FILES_MAX + 1
      /\ M # {} => last \in M
  BY DeletedEarlier
<1>8. ASSUME NEW u, Good(u), LiveFiles(u.catalog, u.info.numOfFiles) = live \ M, u.data = t.data,
             \A i \in live \ M : u.catalog[i] = t.catalog[i]
      PROVE  Outcome(t, AddNew(t, u, q), m, Append(lf, FileOf(q)))
  <2>1. KeptFiles(LeftOf(ks, Ranks(live, M)), m) /\ HoldsFiles(u, LeftOf(ks, Ranks(live, M)))
    BY <1>5, <1>8, LeftHeld
  <2>2. KeptFiles(lf, m) /\ HoldsFiles(u, lf)
    BY <1>4, <2>1
  <2>3. q.mode # "add"
    OBVIOUS
  <2> HIDE DEF lf
  <2> QED
    BY <1>8, <2>2, <2>3, NewFile
<1>9. CASE M = {}
  <2>1. Replace(t, now, last, q) = AddNew(t, now, q)
    <3>1. last > NUM_OF_FILES_MAX
      BY <1>6, <1>7, <1>9
    <3> HIDE DEF now, last
    <3> QED
      BY <3>1 DEF Replace
  <2>2. LiveFiles(now.catalog, now.info.numOfFiles) = live \ M
    BY <1>2, <1>9 DEF WithoutFirst
  <2>3. \A i \in live \ M : now.catalog[i] = t.catalog[i]
    BY <1>2, <1>6, <1>9
  <2> HIDE DEF now, last, M, live, lf, n
  <2>4. Outcome(t, AddNew(t, now, q), m, Append(lf, FileOf(q)))
    BY <1>2, <1>8, <2>2, <2>3
  <2> QED
    BY <1>1, <1>2, <2>1, <2>4 DEF lf
<1>10. CASE M # {}
  <2>1. last \in M /\ last \in live /\ last \in LiveFiles(now.catalog, n)
    BY <1>2, <1>5, <1>7, <1>10 DEF WithoutFirst
  <2>2. Replace(t, now, last, q) = Refused(t) \/ Replace(t, now, last, q) = AddNew(t, d, q)
    <3>1. ~(last > NUM_OF_FILES_MAX)
      BY <1>6, <2>1
    <3> HIDE DEF now, last, M, live
    <3> QED
      BY <3>1 DEF Replace
  <2>3. /\ Good(d) /\ d.data = now.data
        /\ LiveFiles(d.catalog, d.info.numOfFiles) = WithoutOne(LiveFiles(now.catalog, n), last)
        /\ \A k \in LiveFiles(now.catalog, n) : k # last => d.catalog[k] = now.catalog[k]
    <3>1. d = RemoveLast(now, last)
      OBVIOUS
    <3>2. Good(now) /\ n = now.info.numOfFiles /\ last \in LiveFiles(now.catalog, n)
      BY <1>2, <2>1
    <3> HIDE DEF d, now, last, M, live, n
    <3> QED
      BY <3>1, <3>2, RemovedEffect, SMT
  <2> HIDE DEF d, now, last, M, live, lf, n
  <2>4. LiveFiles(d.catalog, d.info.numOfFiles) = live \ M /\ d.data = t.data
    BY <1>2, <2>1, <2>3 DEF WithoutOne, WithoutFirst
  <2>5. \A i \in live \ M : d.catalog[i] = t.catalog[i]
    BY <1>2, <1>6, <2>1, <2>3 DEF WithoutFirst
  <2>6. Outcome(t, AddNew(t, d, q), m, Append(lf, FileOf(q)))
    BY <1>8, <2>3, <2>4, <2>5
  <2>7. Outcome(t, Replace(t, now, last, q), m, Append(lf, FileOf(q)))
    BY <2>2, <2>6 DEF Outcome
  <2> QED
    BY <1>1, <1>2, <2>7 DEF lf
<1> QED
  BY <1>9, <1>10

\* Of the ranks of some members the last is the one of the last of them.
LEMMA LastRank ==
  ASSUME NEW n \in Nat, NEW live \in SUBSET (1 .. n), NEW M \in SUBSET live, NEW last \in M,
         \A j \in M : j <= last
  PROVE  /\ LastOf(Ranks(live, M)) = Rank(live, last)
         /\ WithoutOne(Ranks(live, M), Rank(live, last)) = Ranks(live, WithoutOne(M, last))
<1> DEFINE z == Rank(live, last)
           same == Ranks(live, M)
<1>1. \A i \in live : Rank(live, i) \in Int
  <2>1. \A i \in live : Rank(live, i) \in 1 .. Cardinality(live)
    BY RankType
  <2> QED
    BY <2>1
<1>2. \A i, j \in live : Rank(live, i) = Rank(live, j) => i = j
  BY RankInjective
<1>3. \A j \in M : Rank(live, j) <= z
  <2>1. last \in live /\ \A j \in M : j \in live
    OBVIOUS
  <2> QED
    BY <2>1, RankInjective
<1>4. z \in same /\ (\A j \in same : j <= z) /\ \A j \in same : j \in Int
  BY <1>1, <1>3 DEF Ranks
<1>5. \A j \in same : (\A k \in same : k <= j) => j = z
  <2> HIDE DEF z, same
  <2> QED
    BY <1>4
<1>6. LastOf(same) = z
  <2> HIDE DEF z, same
  <2> QED
    BY <1>4, <1>5 DEF LastOf
<1>7. WithoutOne(same, z) = Ranks(live, WithoutOne(M, last))
  BY <1>2 DEF Ranks, WithoutOne
<1> QED
  BY <1>6, <1>7

\* Kept files are told apart by their bytes.
LEMMA OneLonger ==
  ASSUME NEW m, NEW ks, KeptFiles(ks, m), NEW j \in 1 .. Len(ks), NEW h
  PROVE  [k \in DOMAIN ks |-> IF ks[k] = ks[j] THEN h ELSE ks[k]] = [ks EXCEPT ![j] = h]
<1>1. ks \in Seq(Files) /\ DOMAIN ks = 1 .. Len(ks)
  BY DEF KeptFiles
<1>2. \A k \in 1 .. Len(ks) : ks[k] = ks[j] <=> k = j
  BY DEF KeptFiles
<1> QED
  BY <1>1, <1>2

LEMMA ExtendedKept ==
  ASSUME NEW m \in Nat, NEW ks, KeptFiles(ks, m), NEW t, NEW now, Good(now), HoldsFiles(now, ks),
         NEW n, n = now.info.numOfFiles, NEW i \in LiveFiles(now.catalog, n),
         NEW q \in Calls, ~ArgumentsRefused(q),
         NEW j, j = Rank(LiveFiles(now.catalog, n), i)
  PROVE  /\ j \in 1 .. Len(ks)
         /\ Outcome(t, Extend(t, now, i, now.catalog[i].sectorLength, q), m,
                    [ks EXCEPT ![j] = Longer(ks[j], BytesOf(q))])
<1> DEFINE live == LiveFiles(now.catalog, n)
           r == Extend(t, now, i, now.catalog[i].sectorLength, q)
           s == Sectors(q)
           b == BytesOf(q)
           d == r.trd
<1>1. n \in Nat /\ live \in SUBSET (1 .. n) /\ i \in 1 .. n /\ ks \in Seq(Files)
      /\ Cardinality(live) = Len(ks)
  BY OnDisk DEF LiveFiles, KeptFiles, HoldsFiles
<1>2. j \in 1 .. Len(ks)
  BY <1>1, RankType
<1>3. s \in Nat /\ Fits(b, s)
  BY SectorsNeeded, TrdAssumption DEF Fits
<1>4. r = Refused(t) \/
      (/\ r.ok = TRUE /\ Extent(now, d, i, s, b)
       /\ s <= now.info.numOfFreeSectors
       /\ now.catalog[i].sectorLength + s <= MaxSectors)
  <2>1. i \in 1 .. now.info.numOfFiles
    BY <1>1
  <2> QED
    BY <2>1, ExtendShape
<1>5. ASSUME r.ok = TRUE, Extent(now, d, i, s, b), s <= now.info.numOfFreeSectors,
             now.catalog[i].sectorLength + s <= MaxSectors
      PROVE  /\ Good(d) /\ HoldsFiles(d, [ks EXCEPT ![j] = Longer(ks[j], b)])
             /\ KeptFiles([ks EXCEPT ![j] = Longer(ks[j], b)], m + 1)
  <2> HIDE DEF d, s, b, r
  <2>1. Good(d)
    BY <1>1, <1>3, <1>5, ExtendGood
  <2>2. HoldsFiles(d, [ks EXCEPT ![j] = Longer(ks[j], b)])
    <3>1. live = LiveFiles(now.catalog, n) /\ i \in live /\ j = Rank(live, i)
      OBVIOUS
    <3> HIDE DEF live
    <3>2. HoldsFiles(d, [ks EXCEPT ![Rank(live, i)] = Longer(ks[Rank(live, i)], b)])
      BY <1>1, <1>3, <1>5, <3>1, ExtendHolds
    <3> QED
      BY <3>1, <3>2
  <2>3. KeptFiles([ks EXCEPT ![j] = Longer(ks[j], b)], m)
    BY <1>2, <1>3, KeptLonger
  <2>4. KeptFiles([ks EXCEPT ![j] = Longer(ks[j], b)], m + 1)
    BY <2>3, KeptOn
  <2> QED
    BY <2>1, <2>2, <2>4
<1> HIDE DEF s, b, r
<1>6. r = Refused(t) \/ (r.ok = TRUE /\ Good(d) /\ HoldsFiles(d, [ks EXCEPT ![j] = Longer(ks[j], b)])
                          /\ KeptFiles([ks EXCEPT ![j] = Longer(ks[j], b)], m + 1))
  BY <1>4, <1>5
<1> QED
  BY <1>2, <1>6 DEF Outcome, r, b

\* The files after a file got more bytes, and all others with its name went.
AddedTo(ks, q) ==
  LET same == SameOf(ks, q)
      left == LeftOf(ks, WithoutOne(same, LastOf(same)))
  IN  [k \in DOMAIN left |-> IF left[k] = ks[LastOf(same)] THEN Longer(ks[LastOf(same)], BytesOf(q)) ELSE left[k]]

LEMMA AddCall ==
  ASSUME NEW m \in Nat, NEW ks, KeptFiles(ks, m), NEW t, Good(t), HoldsFiles(t, ks),
         NEW q \in Calls, q.id = m + 1, ~ArgumentsRefused(q), q.mode = "add"
  PROVE  Outcome(t, AddFile(t, q), m, AddedTo(ks, q))
<1> DEFINE n == t.info.numOfFiles
           L == Compared(q)
           live == LiveFiles(t.catalog, n)
           M == Matching(t.catalog, n, Built(q), L)
           now == DeleteEarlier(t, Built(q), L)
           last == LastMatch(t.catalog, Built(q), L)
           rest == WithoutOne(M, last)
           left == LiveFiles(now.catalog, n)
           lf == LeftOf(ks, Ranks(live, rest))
           j == Rank(left, last)
           r == Extend(t, now, last, now.catalog[last].sectorLength, q)
<1>1. AddFile(t, q) = IF last > NUM_OF_FILES_MAX THEN Refused(t) ELSE r
  <2>1. AddFile(t, q) = AddTo(t, now, LastMatch(now.catalog, Built(q), L), q)
    BY DEF AddFile, AddLast
  <2>2. LastMatch(now.catalog, Built(q), L) = last
    BY DeletedEarlier
  <2> HIDE DEF now, last
  <2> QED
    BY <2>1, <2>2 DEF AddTo
<1>2. /\ Good(now) /\ now.data = t.data /\ now.info.numOfFiles = n
      /\ left = WithoutFirst(live, M, last)
      /\ \A i \in (1 .. NUM_OF_FILES_MAX) \ (M \ {last}) : now.catalog[i] = t.catalog[i]
  BY DeletedEarlier
<1>3. ks \in Seq(Files)
  BY DEF KeptFiles
<1>4. SameOf(ks, q) = Ranks(live, M)
  BY <1>3, Found
<1>5. M \in SUBSET live /\ live \in SUBSET (1 .. n)
  BY DEF Matching, LiveFiles
<1>6. /\ n \in Nat /\ n <= NUM_OF_FILES_MAX /\ NUM_OF_FILES_MAX \in Nat
      /\ \A i \in live : i \in 1 .. n /\ i \in 1 .. NUM_OF_FILES_MAX
  BY OnDisk DEF LiveFiles
<1>7. /\ M = {} => last = NUM_OF_FILES_MAX + 1
      /\ M # {} => last \in M /\ \A i \in M : i <= last
  BY DeletedEarlier
<1>8. CASE M = {}
  <2>1. last > NUM_OF_FILES_MAX
    BY <1>6, <1>7, <1>8
  <2> HIDE DEF last, r
  <2> QED
    BY <1>1, <2>1 DEF Outcome
<1>9. CASE M # {}
  <2>1. last \in M /\ last \in live /\ last \in left /\ \A i \in M : i <= last
    BY <1>2, <1>5, <1>7, <1>9 DEF WithoutFirst
  <2>2. AddFile(t, q) = r
    <3>1. ~(last > NUM_OF_FILES_MAX)
      BY <1>6, <2>1
    <3> HIDE DEF last, r
    <3> QED
      BY <1>1, <3>1
  <2>3. left = live \ rest /\ \A i \in left : now.catalog[i] = t.catalog[i]
    BY <1>2, <1>6 DEF WithoutFirst, WithoutOne
  <2>4. /\ KeptFiles(lf, m) /\ HoldsFiles(now, lf)
        /\ lf[Rank(left, last)] = ks[Rank(live, last)]
    <3>1. rest \in SUBSET live /\ last \in left
      BY <1>5, <2>1 DEF WithoutOne
    <3>2. /\ LiveFiles(now.catalog, now.info.numOfFiles) = live \ rest
          /\ now.data = t.data
          /\ \A i \in live \ rest : now.catalog[i] = t.catalog[i]
      BY <1>2, <2>3
    <3> HIDE DEF now, rest, last
    <3>3. /\ KeptFiles(LeftOf(ks, Ranks(live, rest)), m)
          /\ HoldsFiles(now, LeftOf(ks, Ranks(live, rest)))
          /\ SameFiles(LeftOf(ks, Ranks(live, rest)), LiveFiles(now.catalog, now.info.numOfFiles), ks, live)
      BY <3>1, <3>2, LeftHeld
    <3> QED
      BY <1>2, <3>1, <3>3 DEF SameFiles
  <2>5. /\ LastOf(SameOf(ks, q)) = Rank(live, last)
        /\ WithoutOne(SameOf(ks, q), LastOf(SameOf(ks, q))) = Ranks(live, rest)
    <3>1. /\ LastOf(Ranks(live, M)) = Rank(live, last)
          /\ WithoutOne(Ranks(live, M), Rank(live, last)) = Ranks(live, rest)
      <4> HIDE DEF M, last, live, n
      <4> QED
        BY <1>5, <1>6, <2>1, LastRank
    <3> HIDE DEF M, last, live, n, rest
    <3> QED
      BY <1>4, <3>1
  <2>6. j \in 1 .. Len(lf) /\ Outcome(t, r, m, [lf EXCEPT ![j] = Longer(lf[j], BytesOf(q))])
    <3>1. n = now.info.numOfFiles /\ last \in LiveFiles(now.catalog, n) /\ j = Rank(LiveFiles(now.catalog, n), last)
      BY <1>2, <2>1
    <3> HIDE DEF lf, now, n, last, j
    <3> QED
      BY <1>2, <2>4, <3>1, ExtendedKept
  <2>7. AddedTo(ks, q) = [lf EXCEPT ![j] = Longer(lf[j], BytesOf(q))]
    <3> DEFINE h == Longer(ks[Rank(live, last)], BytesOf(q))
    <3>1. AddedTo(ks, q) = [k \in DOMAIN lf |-> IF lf[k] = ks[Rank(live, last)] THEN h ELSE lf[k]]
      <4> HIDE DEF last, rest, live
      <4> QED
        BY <2>5 DEF AddedTo
    <3>2. lf[j] = ks[Rank(live, last)]
      BY <2>4
    <3>3. h = Longer(lf[j], BytesOf(q))
      BY <3>2
    <3> HIDE DEF lf, j, h
    <3>4. [k \in DOMAIN lf |-> IF lf[k] = lf[j] THEN h ELSE lf[k]] = [lf EXCEPT ![j] = h]
      BY <2>4, <2>6, OneLonger
    <3> QED
      BY <3>1, <3>2, <3>3, <3>4
  <2> HIDE DEF r, lf, j
  <2> QED
    BY <2>2, <2>6, <2>7
<1> QED
  BY <1>8, <1>9

-----------------------------------------------------------------------------
(* The directives keep the invariant.                                       *)

\* The image is a good one, and its live files are the files asked for, each with the bytes of
\* its own call.
DiskInv ==
  /\ saves \in Nat /\ Good(trd)
  /\ KeptFiles(kept, saves) /\ HoldsFiles(trd, kept)

LEMMA EmptyGood ==
  Good(EmptyDisk) /\ HoldsFiles(EmptyDisk, <<>>) /\ \A m \in Nat : KeptFiles(<<>>, m)
<1> DEFINE c == EmptyDisk.catalog
           o == EmptyDisk.info
<1>1. NUM_OF_FILES_MAX \in Nat /\ SECTORS_PER_TRACK \in Nat
  BY TrdAssumption
<1>2. FreeSectors \in Nat
  BY TrdAssumption DEF FreeSectors
<1>3. NoFile \in Entries
  <2>1. "" \in Words
    BY DEF Words
  <2>2. 0 \in 0 .. 2 /\ 0 \in Int /\ 0 \in Nat
    OBVIOUS
  <2> QED
    BY <2>1, <2>2, Zenon DEF NoFile, Entries
<1>4. c \in Catalogs /\ \A i \in 1 .. NUM_OF_FILES_MAX : c[i].first = 0
  BY <1>3 DEF EmptyDisk, Catalogs, NoFile
<1>5. o \in Infos /\ o.numOfFiles = 0 /\ o.numOfFreeSectors = FreeSectors /\ o.numOfDeleted = 0
      /\ o.freeTrack = 1 /\ o.freeSector = 0
  BY <1>1, <1>2 DEF EmptyDisk, Infos
<1>6. EmptyDisk.data \in Contents
  <2>1. ZeroByte \in Cells
    BY DEF ZeroByte, Cells
  <2> DEFINE S == 0 .. FreeSectors * SECTOR_SZ - 1
  <2>2. EmptyDisk.data = [p \in S |-> ZeroByte]
    BY DEF EmptyDisk
  <2> HIDE DEF S
  <2>3. EmptyDisk.data \in [S -> Cells]
    BY <2>1, <2>2
  <2> QED
    BY <2>3 DEF S, Contents
<1>7. EmptyDisk \in Images
  <2>1. EmptyDisk = [catalog |-> c, info |-> o, data |-> EmptyDisk.data]
    BY DEF EmptyDisk
  <2> DEFINE w == EmptyDisk.data
  <2> HIDE DEF c, o, w
  <2> QED
    BY <1>4, <1>5, <1>6, <2>1 DEF Images, w
<1> HIDE DEF c, o
<1>8. LaidOut(c, 0)
  BY <1>1, <1>4 DEF LaidOut
<1>9. Free(o) = 0 /\ End(c, 0) = 0
  BY <1>1, <1>5 DEF Free, End
<1>10. LiveFiles(c, 0) = {} /\ DeletedFiles(c, 0) = {}
  BY DEF LiveFiles, DeletedFiles
<1>11. Cardinality({}) = 0
  BY FS_EmptySet
<1>12. Good(EmptyDisk)
  <2>1. o = EmptyDisk.info /\ c = EmptyDisk.catalog
    BY DEF o, c
  <2>2. Free(o) + o.numOfFreeSectors = FreeSectors
    BY <1>2, <1>5, <1>9
  <2> QED
    BY <1>5, <1>7, <1>8, <1>9, <1>10, <1>11, <2>1, <2>2 DEF Good
<1>13. HoldsFiles(EmptyDisk, <<>>)
  BY <1>5, <1>10, <1>11 DEF HoldsFiles, o, c
<1>14. \A m \in Nat : KeptFiles(<<>>, m)
  BY DEF KeptFiles
<1> QED
  BY <1>12, <1>13, <1>14

\* The files that a call asks for.
AskedFor(ks, q) ==
  IF q.mode = "normal" THEN Append(ks, FileOf(q))
  ELSE IF q.mode = "replace" THEN Append(LeftOf(ks, SameOf(ks, q)), FileOf(q))
  ELSE AddedTo(ks, q)

LEMMA AskedIs ==
  ASSUME NEW q \in Calls
  PROVE  Asked(q) = AskedFor(kept, q)
<1> DEFINE same == SameOf(kept, q)
           file == FileOf(q)
<1>1. Asked(q) = AskedOf(q, same, file)
  BY DEF Asked, SameOf, SameIn, FileOf
<1>2. \A out : Without(out) = LeftOf(kept, out)
  BY DEF Without, LeftOf
<1>3. q.mode \in {"normal", "replace", "add"}
  BY DEF Calls
<1> HIDE DEF file
<1>4. CASE q.mode = "normal"
  BY <1>1, <1>4 DEF AskedOf, AskedFor, file
<1>5. CASE q.mode = "replace"
  BY <1>1, <1>2, <1>5 DEF AskedOf, AskedFor, file
<1>6. CASE q.mode = "add"
  BY <1>1, <1>2, <1>6 DEF AskedOf, AskedFor, AddedTo, WithoutOne
<1> QED
  BY <1>3, <1>4, <1>5, <1>6

LEMMA AnyCall ==
  ASSUME NEW m \in Nat, NEW ks, KeptFiles(ks, m), NEW t, Good(t), HoldsFiles(t, ks),
         NEW q \in Calls, q.id = m + 1
  PROVE  Outcome(t, AddFile(t, q), m, AskedFor(ks, q))
<1>1. q.mode \in {"normal", "replace", "add"}
  BY DEF Calls
<1>2. CASE ArgumentsRefused(q)
  BY <1>2 DEF AddFile, Outcome
<1>3. CASE ~ArgumentsRefused(q) /\ q.mode = "normal"
  BY <1>3, NormalCall DEF AskedFor
<1>4. CASE ~ArgumentsRefused(q) /\ q.mode = "replace"
  BY <1>4, ReplaceCall DEF AskedFor
<1>5. CASE ~ArgumentsRefused(q) /\ q.mode = "add"
  BY <1>5, AddCall DEF AskedFor
<1> QED
  BY <1>1, <1>2, <1>3, <1>4, <1>5

LEMMA SaveTrdKeeps ==
  ASSUME DiskInv, NEW q \in Calls, q.id = saves + 1, SaveTrd(q)
  PROVE  DiskInv'
<1> DEFINE r == AddFile(trd, q)
<1>1. trd' = r.trd /\ kept' = (IF r.ok THEN Asked(q) ELSE kept) /\ saves' = saves + 1
  BY DEF SaveTrd
<1>2. Outcome(trd, r, saves, Asked(q))
  BY AnyCall, AskedIs DEF DiskInv
<1>3. KeptFiles(kept, saves + 1) /\ saves \in Nat
  BY KeptOn DEF DiskInv
<1> HIDE DEF r
<1>4. CASE r = Refused(trd)
  <2>1. trd' = trd /\ kept' = kept /\ saves' = saves + 1
    BY <1>1, <1>4 DEF Refused
  <2> QED
    BY <1>3, <2>1 DEF DiskInv
<1>5. CASE r.ok = TRUE /\ Good(r.trd) /\ HoldsFiles(r.trd, Asked(q)) /\ KeptFiles(Asked(q), saves + 1)
  <2>1. trd' = r.trd /\ kept' = Asked(q) /\ saves' = saves + 1
    BY <1>1, <1>5
  <2> QED
    BY <1>3, <1>5, <2>1 DEF DiskInv
<1> QED
  BY <1>2, <1>4, <1>5 DEF Outcome

\* The image is a good one of the files asked for, whatever SAVETRD and EMPTYTRD did before
\* (TRD_AddFile, saveEmptyWrite in io_trd.cpp).
THEOREM TrdDiskInvariant == TrdSpec => []DiskInv
<1>1. TrdInit => DiskInv
  BY EmptyGood DEF TrdInit, DiskInv
<1>2. DiskInv /\ [TrdNext]_trdVars => DiskInv'
  <2> SUFFICES ASSUME DiskInv, [TrdNext]_trdVars
               PROVE  DiskInv'
    OBVIOUS
  <2>1. ASSUME NEW n \in TrdNames, NEW s \in TrdStarts, NEW l \in SaveLengths, NEW a \in BOOLEAN,
               NEW v \in {-1} \cup SaveLengths, NEW mode \in {"normal", "replace", "add"},
               SaveTrd([id |-> saves + 1, name |-> n, start |-> s, length |-> l, autostart |-> a,
                        lmv |-> v, mode |-> mode])
        PROVE  DiskInv'
    <3> DEFINE q == [id |-> saves + 1, name |-> n, start |-> s, length |-> l, autostart |-> a, lmv |-> v,
                     mode |-> mode]
    <3>1. q \in Calls
      <4>1. saves \in Nat /\ saves + 1 \in Nat \ {0}
        BY DEF DiskInv
      <4>2. mode = "add" => ~a /\ v = -1
        BY <2>1 DEF SaveTrd
      <4> QED
        BY <4>1, <4>2 DEF Calls
    <3>2. q.id = saves + 1 /\ SaveTrd(q)
      BY <2>1
    <3> HIDE DEF q
    <3> QED
      BY <3>1, <3>2, SaveTrdKeeps
  <2>2. CASE EmptyTrd
    BY <2>2, EmptyGood DEF EmptyTrd, DiskInv
  <2>3. CASE UNCHANGED trdVars
    BY <2>3 DEF DiskInv, trdVars
  <2> QED
    BY <2>1, <2>2, <2>3 DEF TrdNext
<1> QED
  BY <1>1, <1>2, PTL DEF TrdSpec

-----------------------------------------------------------------------------
(* What the invariant says of the properties.                               *)

\* The end of a file in bytes.
EndOf(c, i) == IF i = 0 THEN 0 ELSE Place(c[i]) + c[i].sectorLength * SECTOR_SZ

LEMMA EndScaled ==
  ASSUME NEW c \in Catalogs, NEW i \in 0 .. NUM_OF_FILES_MAX
  PROVE  EndOf(c, i) = End(c, i) * SECTOR_SZ
<1>1. NUM_OF_FILES_MAX \in Nat /\ SECTOR_SZ \in Nat
  BY TrdAssumption
<1>2. CASE i = 0
  BY <1>1, <1>2 DEF EndOf, End
<1>3. CASE i # 0
  <2> DEFINE a == At(c[i])
             s == c[i].sectorLength
  <2>1. i \in 1 .. NUM_OF_FILES_MAX
    BY <1>1, <1>3
  <2>2. a \in Int /\ s \in Int
    BY <2>1, EntryType
  <2>3. EndOf(c, i) = a * SECTOR_SZ + s * SECTOR_SZ /\ End(c, i) = a + s
    BY <1>3, PlaceIsAt DEF EndOf, End
  <2> HIDE DEF a, s
  <2> QED
    BY <2>2, <2>3, Scaled
<1> QED
  BY <1>2, <1>3

LEMMA InvLayout ==
  ASSUME DiskInv
  PROVE  TrdLayout
<1> DEFINE n == trd.info.numOfFiles
           c == trd.catalog
<1>1. /\ Good(trd) /\ trd \in Images /\ LaidOut(c, n)
      /\ Free(trd.info) = End(c, n) /\ Free(trd.info) + trd.info.numOfFreeSectors = FreeSectors
      /\ trd.info.numOfDeleted = Cardinality(DeletedFiles(c, n))
  BY DEF DiskInv, Good
<1>2. /\ c \in Catalogs /\ n \in 0 .. NUM_OF_FILES_MAX /\ n \in Nat
      /\ trd.info.numOfFreeSectors \in Nat /\ NUM_OF_FILES_MAX \in Nat
  BY <1>1, ImageType, TrdAssumption
<1>3. Listed(c) = 1 .. n
  BY <1>1, <1>2, ListedFiles
<1>4. \A i \in 0 .. n : EndOf(c, i) = End(c, i) * SECTOR_SZ
  <2>1. \A i \in 0 .. n : i \in 0 .. NUM_OF_FILES_MAX
    BY <1>2
  <2> QED
    BY <1>2, <2>1, EndScaled
<1>5. ASSUME NEW i \in 1 .. n
      PROVE  c[i].sectorLength \in 1 .. MaxSectors /\ Place(c[i]) = EndOf(c, i - 1)
  <2>1. c[i].sectorLength \in 1 .. MaxSectors /\ At(c[i]) = End(c, i - 1)
    BY <1>1 DEF LaidOut
  <2>2. i - 1 \in 0 .. n
    BY <1>2
  <2> QED
    BY <1>4, <2>1, <2>2, PlaceIsAt
<1>6. fileOffset(trd.info.freeTrack, trd.info.freeSector) = EndOf(c, n)
  <2>1. n \in 0 .. n
    BY <1>2
  <2> QED
    BY <1>1, <1>4, <2>1, FreeIsPlace
<1>7. EndOf(c, n) + trd.info.numOfFreeSectors * SECTOR_SZ = FreeSectors * SECTOR_SZ
  <2> DEFINE f == Free(trd.info)
             s == trd.info.numOfFreeSectors
  <2>1. n \in 0 .. n /\ f \in Nat /\ s \in Nat /\ f + s = FreeSectors
    BY <1>1, <1>2, OnDisk
  <2>2. EndOf(c, n) = f * SECTOR_SZ
    BY <1>1, <1>4, <2>1
  <2> HIDE DEF f, s, n, c
  <2>3. (f + s) * SECTOR_SZ = f * SECTOR_SZ + s * SECTOR_SZ
    BY <2>1, Scaled
  <2> QED
    BY <2>1, <2>2, <2>3 DEF s
<1>8. trd.info.numOfDeleted = Cardinality({i \in 1 .. n : c[i].first = 1})
  BY <1>1, SMTT(40) DEF DeletedFiles
<1> QED
  BY <1>2, <1>3, <1>5, <1>6, <1>7, <1>8 DEF TrdLayout, EndOf

LEMMA InvHolds ==
  ASSUME DiskInv
  PROVE  TrdHoldsFiles
<1> DEFINE n == trd.info.numOfFiles
           live == LiveFiles(trd.catalog, n)
<1>1. /\ Good(trd) /\ kept \in Seq(Files) /\ Cardinality(live) = Len(kept)
      /\ \A i \in live : Holds(trd.data, trd.catalog[i], kept[Rank(live, i)])
  BY DEF DiskInv, HoldsFiles, KeptFiles
<1>2. n \in Nat /\ live \in SUBSET (1 .. n)
  BY <1>1, OnDisk DEF LiveFiles
<1>3. live = {i \in 1 .. trd.info.numOfFiles : trd.catalog[i].first = 2}
  BY DEF LiveFiles
<1> HIDE DEF live, n
<1>4. \A k \in 1 .. Cardinality(live) : Nth(live, k) \in live /\ Rank(live, Nth(live, k)) = k
  BY <1>2, NthRank
<1>5. \A k \in DOMAIN kept : Holds(trd.data, trd.catalog[Nth(live, k)], kept[k]) /\ kept[k] \in Files
  <2>1. DOMAIN kept = 1 .. Cardinality(live) /\ \A k \in DOMAIN kept : kept[k] \in Files
    BY <1>1
  <2> QED
    BY <1>1, <1>4, <2>1
<1>6. \A f \in Files : DOMAIN f.data = 1 .. Len(f.data)
  BY DEF Files
<1> QED
  BY <1>1, <1>3, <1>5, <1>6 DEF TrdHoldsFiles, Holds

FirstOf(S) == CHOOSE i \in S : \A j \in S : i <= j

\* Of the ranks of some members the first is the one of the first of them.
LEMMA FirstRank ==
  ASSUME NEW n \in Nat, NEW live \in SUBSET (1 .. n), NEW M \in SUBSET live, M # {}
  PROVE  FirstOf(M) \in M /\ FirstOf(Ranks(live, M)) = Rank(live, FirstOf(M))
<1> DEFINE first == FirstOf(M)
           z == Rank(live, first)
           same == Ranks(live, M)
<1>1. \A i \in live : Rank(live, i) \in Int
  <2>1. \A i \in live : Rank(live, i) \in 1 .. Cardinality(live)
    BY RankType
  <2> QED
    BY <2>1
<1>2. first \in M /\ \A j \in M : first <= j
  <2>1. M \in SUBSET (1 .. n)
    OBVIOUS
  <2>2. \E i \in M : \A j \in M : i <= j
    BY <2>1, EndsExist
  <2> QED
    BY <2>2 DEF FirstOf
<1> HIDE DEF first
<1>3. \A j \in M : z <= Rank(live, j)
  <2>1. first \in live /\ \A j \in M : j \in live
    BY <1>2
  <2> QED
    BY <1>2, <2>1, RankInjective
<1>4. z \in same /\ (\A j \in same : z <= j) /\ \A j \in same : j \in Int
  BY <1>1, <1>2, <1>3 DEF Ranks
<1>5. \A j \in same : (\A k \in same : j <= k) => j = z
  <2> HIDE DEF z, same
  <2> QED
    BY <1>4
<1>6. FirstOf(same) = z
  <2> HIDE DEF z, same
  <2> QED
    BY <1>4, <1>5 DEF FirstOf
<1> QED
  BY <1>2, <1>6 DEF first

LEMMA InvReadsBack ==
  ASSUME DiskInv
  PROVE  IncTrdReadsBack
<1> DEFINE n == trd.info.numOfFiles
           c == trd.catalog
           live == LiveFiles(c, n)
<1>1. /\ Good(trd) /\ kept \in Seq(Files) /\ HoldsFiles(trd, kept) /\ LaidOut(c, n) /\ trd \in Images
      /\ Cardinality(live) = Len(kept)
      /\ \A i \in live : Holds(trd.data, c[i], kept[Rank(live, i)])
      /\ \A k \in 1 .. Len(kept) : WellKept(kept[k], saves)
  BY DEF DiskInv, HoldsFiles, KeptFiles, Good
<1>2. n \in Nat /\ live \in SUBSET (1 .. n) /\ c \in Catalogs /\ n \in 0 .. NUM_OF_FILES_MAX
  BY <1>1, OnDisk, ImageType DEF LiveFiles
<1>3. Listed(c) = 1 .. n
  BY <1>1, <1>2, ListedFiles
<1>4. SUFFICES ASSUME NEW name \in TrdNames, PrepareIncFile(trd, name).ok
               PROVE  LET r    == PrepareIncFile(trd, name)
                          same == SameIn(kept, name, name.long # NoLetters)
                          f    == kept[FirstOf(same)]
                      IN  /\ same # {} /\ r.length = f.length
                          /\ \A k \in 1 .. r.length : trd.data[r.offset + k - 1] = f.data[k]
  BY DEF IncTrdReadsBack, SameIn, FirstOf
<1> DEFINE r == PrepareIncFile(trd, name)
           L == Lname(name)
           M == Matching(c, n, name, L)
           first == FirstOf(M)
           e == c[first]
           same == SameIn(kept, name, name.long # NoLetters)
           f == kept[FirstOf(same)]
<1>5. {i \in Listed(c) : Matches(c[i], name, L)} = M
  BY <1>3 DEF Matching, LiveFiles, Matches
<1>6. M # {} /\ r.length = e.length /\ r.offset = Place(e)
  <2> HIDE DEF M, L
  <2>1. r = IF M = {} THEN [ok |-> FALSE, offset |-> 0, length |-> 0]
            ELSE [ok |-> 0 < e.length, offset |-> fileOffset(e.startTrack, e.startSector), length |-> e.length]
    BY <1>5 DEF PrepareIncFile, FirstOf, L
  <2>2. r.ok
    BY <1>4
  <2> HIDE DEF r, e
  <2> QED
    BY <2>1, <2>2 DEF Place
<1>7. same = Ranks(live, M)
  <2> DEFINE three == name.long # NoLetters
  <2>1. L = (IF three THEN 11 ELSE 9) /\ three \in BOOLEAN
    BY DEF Lname
  <2>2. n \in Nat /\ n = trd.info.numOfFiles /\ kept \in Seq(Files) /\ HoldsFiles(trd, kept)
    BY <1>1, <1>2
  <2> HIDE DEF n, L, three
  <2>3. SameIn(kept, name, three) = Ranks(LiveFiles(trd.catalog, n), Matching(trd.catalog, n, name, L))
    BY <2>1, <2>2, SameRanks, SMT
  <2> QED
    BY <2>3 DEF three, n
<1>8. M \in SUBSET live
  BY DEF Matching
<1>9. first \in M /\ first \in live /\ FirstOf(same) = Rank(live, first)
  <2> HIDE DEF M, same, live, n
  <2> QED
    BY <1>2, <1>6, <1>7, <1>8, FirstRank
<1>10. f = kept[Rank(live, first)] /\ Rank(live, first) \in 1 .. Len(kept) /\ same # {}
  <2>1. Rank(live, first) \in 1 .. Len(kept)
    BY <1>1, <1>2, <1>9, RankType
  <2> HIDE DEF M, live, n, first
  <2> QED
    BY <1>7, <1>9, <2>1 DEF Ranks
<1> HIDE DEF live, n, first, f, same, M, r
<1>11. Holds(trd.data, e, f) /\ WellKept(f, saves) /\ f \in Files
  BY <1>1, <1>9, <1>10
<1>12. r.length = f.length
  BY <1>6, <1>11 DEF Holds
<1>13. ASSUME NEW k \in 1 .. r.length
       PROVE  trd.data[r.offset + k - 1] = f.data[k]
  <2>1. f.data[k] # ZeroByte
    BY <1>11, <1>12 DEF WellKept
  <2>2. k \in 1 .. Len(f.data)
    <3>1. f.length <= Len(f.data) /\ f.length \in Int /\ Len(f.data) \in Nat
      BY <1>11 DEF WellKept, Files
    <3> QED
      BY <1>12, <3>1
  <2>3. trd.data[Place(e) + k - 1] = f.data[k]
    BY <1>11, <2>1, <2>2 DEF Holds
  <2> HIDE DEF e
  <2> QED
    BY <1>6, <2>3
<1> QED
  BY <1>10, <1>12, <1>13 DEF r, same, f

\* The catalog describes the disk after any calls: the entries lie one behind the other up to
\* the free sector and the counters are right (TRD_AddFile, io_trd.cpp).
THEOREM TrdDiskLayout == TrdSpec => []TrdLayout
BY TrdDiskInvariant, InvLayout, PTL

\* The live files are the ones asked for, with their bytes (TRD_AddFile, io_trd.cpp).
THEOREM TrdDiskHoldsFiles == TrdSpec => []TrdHoldsFiles
BY TrdDiskInvariant, InvHolds, PTL

\* The image is what a run of SAVETRD and EMPTYTRD should leave, and INCTRD reads from it what
\* they saved (TRD_AddFile, TRD_PrepareIncFile, io_trd.cpp).
THEOREM TrdDiskReadsBack == TrdSpec => []TrdReadsBack
<1>1. DiskInv => TrdReadsBack
  BY InvLayout, InvHolds, InvReadsBack DEF TrdReadsBack
<1> QED
  BY <1>1, TrdDiskInvariant, PTL
=============================================================================
