------------------------------- MODULE TrdDisk -------------------------------
(***************************************************************************)
(* A TRD disk image (io_trd.cpp): EMPTYTRD creates it, SAVETRD appends a    *)
(* file, replaces one or extends one in the middle of the disk, INCTRD      *)
(* finds the bytes of a file.                                               *)
(*                                                                         *)
(* Sectors, tracks, the catalog and the largest file are scaled down.  A    *)
(* byte of the image is <<save, k>>, the k-th byte of the save with that     *)
(* number; <<0, 0>> is the zero of an empty image.                          *)
(***************************************************************************)
EXTENDS Integers, Sequences, FiniteSets, SequencesExt, TLC

CONSTANTS
  SECTOR_SZ,          \* 256 in the code
  SECTORS_PER_TRACK,  \* 16
  FreeTracks,         \* 79 + 80: tracks behind the one with the catalog
  NUM_OF_FILES_MAX,   \* 128
  MaxSectors,         \* 255: sectors of one file, as many as a byte counts
  AutostartSize,      \* 4: bytes of the mark behind a BASIC program
  TrdMemory,          \* 64 Ki: bytes of the device
  TrdNames,           \* [base, ext, long]: one letter of extension, the word of two more or NoLetters
  TrdStarts,          \* addresses asked of SAVETRD
  SaveLengths,        \* lengths asked of it, with the variables of BASIC and without
  MaxSaves            \* bound: calls of SAVETRD

NoLetters == -1

\* The mark fits in a sector.
ASSUME TrdAssumption ==
  /\ SECTOR_SZ \in Nat \ {0} /\ SECTORS_PER_TRACK \in Nat \ {0} /\ FreeTracks \in Nat \ {0}
  /\ NUM_OF_FILES_MAX \in Nat /\ MaxSectors \in Nat /\ MaxSaves \in Nat
  /\ AutostartSize \in 0..SECTOR_SZ /\ TrdMemory \in Nat
  /\ SaveLengths \subseteq Int /\ TrdStarts \subseteq Int
  /\ TrdNames \subseteq [base : STRING, ext : STRING, long : Int]

VARIABLES
  trd,      \* the image: [catalog, info, data]
  kept,     \* the files the accepted calls asked to have: sequence of [name, data, length]
  saves,    \* calls so far
  result    \* what the last call returned

trdVars == <<trd, kept, saves, result>>

-----------------------------------------------------------------------------
ZeroByte == <<0, 0>>

\* STrdFile; first is the first letter of the name: 0 none, 1 deleted, 2 any other.  alt is the word
\* addressLo, addressHi: two letters, a start address or the length of a BASIC file.
NoFile == [first |-> 0, name |-> "", ext |-> "", alt |-> 0, length |-> 0,
           sectorLength |-> 0, startSector |-> 0, startTrack |-> 0]

FreeSectors == FreeTracks * SECTORS_PER_TRACK

\* saveEmptyWrite: data are the bytes of the tracks from 1 on, from offset 0.
EmptyDisk ==
  [catalog |-> [i \in 1..NUM_OF_FILES_MAX |-> NoFile],
   info    |-> [freeSector |-> 0, freeTrack |-> 1, numOfFiles |-> 0,
                numOfFreeSectors |-> FreeSectors, numOfDeleted |-> 0],
   data    |-> [p \in 0..FreeSectors * SECTOR_SZ - 1 |-> ZeroByte]]

\* fileOffset, counted from the beginning of track 1.
fileOffset(track, sector) == ((track - 1) * SECTORS_PER_TRACK + sector) * SECTOR_SZ

Forward(place, sectors) ==
  [track  |-> place.track + (sectors + place.sector) \div SECTORS_PER_TRACK,
   sector |-> (sectors + place.sector) % SECTORS_PER_TRACK]

\* The bytes from offset p on replaced by bytes.
WriteAt(data, p, bytes) ==
  [q \in DOMAIN data |-> IF p <= q /\ q < p + Len(bytes) THEN bytes[q - p + 1] ELSE data[q]]

\* TRD_FileNameToBytes: the letters compared, 8+1 or 8+3.
Lname(name) == IF name.long = NoLetters THEN 9 ELSE 11

\* memcmp of the first L bytes: the letters of a name meet what alt is in the entry.
Matches(entry, name, L) ==
  entry.first = 2 /\ entry.name = name.base /\ entry.ext = name.ext
    /\ (L = 11 => entry.alt = name.long)

-----------------------------------------------------------------------------
(* TRD_AddFile.                                                            *)

\* Entries before the first one without a name.
Listed(catalog) ==
  {i \in 1..NUM_OF_FILES_MAX : \A j \in 1..i : catalog[j].first # 0}

\* The last file with the name, NUM_OF_FILES_MAX + 1 when there is none.
LastMatch(catalog, name, L) ==
  LET found == {i \in Listed(catalog) : Matches(catalog[i], name, L)}
  IN  IF found = {} THEN NUM_OF_FILES_MAX + 1 ELSE CHOOSE i \in found : \A j \in found : j <= i

\* The first letter of the names of the files in set, and the counters of sector 9.
Marked(catalog, set, first) ==
  [i \in DOMAIN catalog |-> IF i \in set THEN [catalog[i] EXCEPT !.first = first] ELSE catalog[i]]
MoreDeleted(info, n) == [info EXCEPT !.numOfDeleted = @ + n]
MoreFiles(info, n) == [info EXCEPT !.numOfFiles = @ + n]
GivenBack(info, e) ==
  [info EXCEPT !.freeSector = e.startSector, !.freeTrack = e.startTrack,
               !.numOfFreeSectors = @ + e.sectorLength]

\* The files in set stay in the catalog as deleted ones.
Deleted(t, set) ==
  [t EXCEPT !.catalog = Marked(@, set, 1), !.info = MoreDeleted(@, Cardinality(set))]

\* In the modes "add" and "replace" all files with the name but the last are deleted.
DeleteEarlier(t, name, L) ==
  LET last  == LastMatch(t.catalog, name, L)
      extra == {i \in Listed(t.catalog) : Matches(t.catalog[i], name, L) /\ i < last}
  IN  Deleted(t, extra)

\* The last file of the catalog is taken off it, any other stays in it as deleted.
Connected(t, e) == LET end == Forward([track |-> e.startTrack, sector |-> e.startSector], e.sectorLength)
                   IN  end = [track |-> t.info.freeTrack, sector |-> t.info.freeSector]

\* Mutant: the sectors of the file are given back though other files lie behind it.
RemoveLast_any(t, i) ==
  [t EXCEPT !.info = MoreDeleted(GivenBack(@, t.catalog[i]), 1), !.catalog = Marked(@, {i}, 1)]

RemoveLast(t, i) ==
  IF i = t.info.numOfFiles
  THEN [t EXCEPT !.info = MoreFiles(GivenBack(@, t.catalog[i]), -1),
                 !.catalog = Marked(@, {i}, 0)]
  ELSE Deleted(t, {i})

\* Mutant: the entries of the moved files keep their places.
Shifted_unmoved(catalog, i, sectors) == catalog

\* The entry i and those of the files that follow on the disk.
Ahead(e, sectors) ==
  LET place == Forward([track |-> e.startTrack, sector |-> e.startSector], sectors)
  IN  [e EXCEPT !.startTrack = place.track, !.startSector = place.sector]
Place(e) == fileOffset(e.startTrack, e.startSector)
Shifted(catalog, i, sectors) ==
  [k \in DOMAIN catalog |->
     IF k # i /\ k \in Listed(catalog) /\ Place(catalog[k]) >= Place(catalog[i])
     THEN Ahead(catalog[k], sectors) ELSE catalog[k]]

\* The bytes from offset p up to offset q.
Between(data, p, q) == [k \in 1..q - p |-> data[p + k - 1]]

\* Room for new sectors behind the keep sectors of file i: all that follows moves, and the
\* entries with it.
Shift(t, i, keep, sectors) ==
  LET end  == Place(t.catalog[i]) + keep * SECTOR_SZ
      free == fileOffset(t.info.freeTrack, t.info.freeSector)
  IN  IF end >= free THEN t
      ELSE [t EXCEPT !.data = WriteAt(@, end + sectors * SECTOR_SZ, Between(@, end, free)),
                     !.catalog = Shifted(@, i, sectors)]

\* The catalog is expected in the order of the data; it is looked at after data were moved.
Inconsistent(t, i) ==
  \E k \in Listed(t.catalog) \ {i} : (k < i) # (Place(t.catalog[k]) < Place(t.catalog[i]))

LessFree(info, sectors) ==
  LET free == Forward([track |-> info.freeTrack, sector |-> info.freeSector], sectors)
  IN  [info EXCEPT !.freeTrack = free.track, !.freeSector = free.sector, !.numOfFreeSectors = @ - sectors]
Taken(t, sectors) == [t EXCEPT !.info = LessFree(@, sectors)]

\* A call q = [id, name, start, length, autostart, lmv, mode] of TRD_AddFile: id is the number of
\* the save, autostart is TRUE when a line is given, lmv is lengthMinusVars or -1.
IsB(q)  == q.name.ext = "B"
Autostarts(q) == q.autostart /\ IsB(q)
Compared(q) == IF IsB(q) /\ q.mode # "add" THEN 9 ELSE Lname(q.name)

\* Mutant: the letters of a BASIC name stay in the record.
Built_letters(q) ==
  [q.name EXCEPT !.long = IF @ # NoLetters THEN @ ELSE IF IsB(q) THEN q.length ELSE q.start]

\* The name in the record trdf, where length or start have taken the place of the letters.
Built(q) ==
  [q.name EXCEPT !.long = IF IsB(q) THEN q.length ELSE IF Compared(q) = 9 THEN q.start ELSE @]

BytesOf(q) == [k \in 1..q.length |-> <<q.id, k>>]
              \o IF Autostarts(q) /\ q.mode # "add" THEN [k \in 1..AutostartSize |-> <<q.id, -k>>] ELSE <<>>

\* The length in sectors, a byte in the catalog, and the checks of the arguments.
Sectors(q) ==
  ((q.length + SECTOR_SZ - 1 + IF Autostarts(q) THEN AutostartSize ELSE 0) \div SECTOR_SZ) % (MaxSectors + 1)

ArgumentsRefused(q) ==
  \/ q.lmv # -1 /\ (~IsB(q) \/ q.lmv < 0 \/ q.length < q.lmv)
  \/ q.start \notin 0 .. TrdMemory - 1 \/ TrdMemory < q.start + q.length
  \/ q.length <= 0 \/ MaxSectors * SECTOR_SZ < q.length
  \/ Sectors(q) = 0

Entry(t, q) ==
  [first |-> 2, name |-> q.name.base, ext |-> q.name.ext,
   alt |-> Built(q).long,
   length |-> IF q.lmv = -1 THEN q.length ELSE q.lmv, sectorLength |-> Sectors(q),
   startSector |-> t.info.freeSector, startTrack |-> t.info.freeTrack]

\* The outcome [ok, trd]; on a refusal the image t stays as it was.
Refused(t) == [ok |-> FALSE, trd |-> t]
Accepted(t, at, q) == [ok |-> TRUE, trd |-> Taken([t EXCEPT !.data = WriteAt(@, at, BytesOf(q))], Sectors(q))]

With(catalog, i, e) == [catalog EXCEPT ![i] = e]

\* A new entry i behind the last one.
NewEntry(t, now, i, q) ==
  IF i > NUM_OF_FILES_MAX THEN Refused(t)
  ELSE IF now.catalog[i].first # 0 \/ now.info.numOfFreeSectors < Sectors(q) THEN Refused(t)
  ELSE Accepted([now EXCEPT !.catalog = With(@, i, Entry(now, q)),
                            !.info = MoreFiles(@, 1)],
                fileOffset(now.info.freeTrack, now.info.freeSector), q)

\* The file i, which has keep sectors, gets more of them.
Extended(t, now, moved, i, keep, q) ==
  IF moved.data # now.data /\ Inconsistent(now, i) THEN Refused([t EXCEPT !.data = moved.data])
  ELSE Accepted(moved, Place(moved.catalog[i]) + keep * SECTOR_SZ, q)
Grown(e, sectors) == [e EXCEPT !.sectorLength = @ + sectors]
Extend(t, now, i, keep, q) ==
  IF now.info.numOfFreeSectors < Sectors(q) \/ MaxSectors < keep + Sectors(q) THEN Refused(t)
  ELSE Extended(t, now, Shift([now EXCEPT !.catalog = With(@, i, Grown(@[i], Sectors(q)))], i, keep, Sectors(q)), i, keep, q)

AddNew(t, now, q) == NewEntry(t, now, now.info.numOfFiles + 1, q)

Replace(t, now, found, q) ==
  IF found > NUM_OF_FILES_MAX THEN AddNew(t, now, q)
  ELSE IF found = now.info.numOfFiles /\ ~Connected(now, now.catalog[found]) THEN Refused(t)
  ELSE AddNew(t, RemoveLast(now, found), q)

AddTo(t, now, found, q) ==
  IF q.mode = "normal" THEN AddNew(t, now, q)
  ELSE IF q.mode = "replace" THEN Replace(t, now, found, q)
  ELSE IF found > NUM_OF_FILES_MAX THEN Refused(t)
  ELSE Extend(t, now, found, now.catalog[found].sectorLength, q)

AddLast(t, now, q) == AddTo(t, now, LastMatch(now.catalog, Built(q), Compared(q)), q)

AddFile(t, q) ==
  IF ArgumentsRefused(q) THEN Refused(t)
  ELSE IF q.mode = "normal" THEN AddLast(t, t, q)
  ELSE AddLast(t, DeleteEarlier(t, Built(q), Compared(q)), q)

\* TRD_PrepareIncFile of the whole file: [ok, offset, length] of the first file with the name.
PrepareIncFile(t, name) ==
  LET found == {i \in Listed(t.catalog) : Matches(t.catalog[i], name, Lname(name))}
      e     == t.catalog[CHOOSE i \in found : \A j \in found : i <= j]
  IN  IF found = {} THEN [ok |-> FALSE, offset |-> 0, length |-> 0]
      ELSE [ok |-> 0 < e.length, offset |-> fileOffset(e.startTrack, e.startSector), length |-> e.length]

-----------------------------------------------------------------------------
(* What the calls are for: files by name, none of the layout.               *)

Padded(bytes) ==
  bytes \o [k \in 1..(-Len(bytes)) % SECTOR_SZ |-> ZeroByte]

\* A file is asked for by one letter of extension or by three.  Of a file with one letter the word
\* behind it is where it began, of a BASIC file how long it was; a call that adds to a BASIC file
\* of three letters asks for one as long as what it adds.
Same(file, name, three) ==
  file.name.base = name.base /\ file.name.ext = name.ext /\ (three => file.name.long = name.long)
Three(q) == q.name.long # NoLetters /\ (q.name.ext = "B" => q.mode = "add")
Recorded(q) ==
  [base |-> q.name.base, ext |-> q.name.ext,
   long |-> CASE q.name.ext = "B" -> q.length
              [] q.name.ext # "B" /\ q.name.long = NoLetters -> q.start
              [] q.name.ext # "B" /\ q.name.long # NoLetters -> q.name.long]

\* The member of a set of places that has k - 1 others in front of it.
Rank(places, i) == Cardinality({j \in places : j <= i})
Nth(places, k) == CHOOSE i \in places : Rank(places, i) = k

\* The files after an accepted call.
Without(out) ==
  [k \in 1..Cardinality(DOMAIN kept \ out) |-> kept[Nth(DOMAIN kept \ out, k)]]
LastOf(same) == CHOOSE i \in same : \A j \in same : j <= i
Longer(file, bytes) == [file EXCEPT !.data = @ \o Padded(bytes)]

AskedOf(q, same, file) ==
  CASE q.mode = "normal"  -> Append(kept, file)
    [] q.mode = "replace" -> Append(Without(same), file)
    [] q.mode = "add"     ->
         [k \in DOMAIN Without(same \ {LastOf(same)}) |->
            IF Without(same \ {LastOf(same)})[k] = kept[LastOf(same)] THEN Longer(kept[LastOf(same)], BytesOf(q))
            ELSE Without(same \ {LastOf(same)})[k]]
Asked(q) ==
  AskedOf(q, {i \in DOMAIN kept : Same(kept[i], Recorded(q), Three(q))},
          [name |-> Recorded(q), data |-> Padded(BytesOf(q)), length |-> IF q.lmv = -1 THEN q.length ELSE q.lmv])

-----------------------------------------------------------------------------
(* Directives, in the last pass.                                            *)

SaveTrd(q) ==
  /\ saves < MaxSaves
  /\ q.mode = "add" => ~q.autostart /\ q.lmv = -1
  /\ \E r \in {AddFile(trd, q)} :
       /\ trd' = r.trd
       /\ kept' = IF r.ok THEN Asked(q) ELSE kept
       /\ result' = r.ok
  /\ saves' = saves + 1

EmptyTrd ==
  /\ trd.info.numOfFiles > 0
  /\ trd' = EmptyDisk /\ kept' = <<>> /\ result' = TRUE /\ UNCHANGED saves

TrdInit == trd = EmptyDisk /\ kept = <<>> /\ saves = 0 /\ result = TRUE

TrdNext ==
  \/ \E n \in TrdNames, s \in TrdStarts, l \in SaveLengths, a \in BOOLEAN, v \in {-1} \cup SaveLengths,
        m \in {"normal", "replace", "add"} :
        SaveTrd([id |-> saves + 1, name |-> n, start |-> s, length |-> l, autostart |-> a, lmv |-> v,
                 mode |-> m])
  \/ EmptyTrd

TrdSpec == TrdInit /\ [][TrdNext]_trdVars

-----------------------------------------------------------------------------
(* Properties.                                                             *)

\* The catalog describes the disk: the entries lie one behind the other in the order of the
\* catalog from the first track to the free sector, whatever was deleted, replaced or extended
\* between them; the counts of files, deleted files and free sectors are those of the entries.
TrdLayout ==
  LET n == trd.info.numOfFiles
      c == trd.catalog
      end(i) == IF i = 0 THEN 0 ELSE Place(c[i]) + c[i].sectorLength * SECTOR_SZ
  IN  /\ n \in 0..NUM_OF_FILES_MAX
      /\ Listed(c) = 1..n
      /\ \A i \in 1..n : c[i].sectorLength \in 1..MaxSectors /\ Place(c[i]) = end(i - 1)
      /\ fileOffset(trd.info.freeTrack, trd.info.freeSector) = end(n)
      /\ end(n) + trd.info.numOfFreeSectors * SECTOR_SZ = FreeSectors * SECTOR_SZ
      /\ trd.info.numOfDeleted = Cardinality({i \in 1..n : c[i].first = 1})

\* The live files of the image are the files that SAVETRD was asked to keep, with their bytes:
\* a file that is replaced, extended or shifted takes nothing from its neighbours (TRD_AddFile).
TrdHoldsFiles ==
  LET live   == {i \in 1..trd.info.numOfFiles : trd.catalog[i].first = 2}
      holds(e, f) ==
        /\ e.name = f.name.base /\ e.ext = f.name.ext /\ e.alt = f.name.long
        /\ e.length = f.length
        /\ e.sectorLength * SECTOR_SZ = Len(f.data)
        /\ \A b \in DOMAIN f.data : f.data[b] # ZeroByte => trd.data[Place(e) + b - 1] = f.data[b]
  IN  /\ Cardinality(live) = Len(kept)
      /\ \A k \in DOMAIN kept : holds(trd.catalog[Nth(live, k)], kept[k])

\* INCTRD of a name gives the first bytes of the first file that SAVETRD kept under it.
IncTrdReadsBack ==
  \A name \in TrdNames :
    LET r    == PrepareIncFile(trd, name)
        same == {i \in DOMAIN kept : Same(kept[i], name, name.long # NoLetters)}
        f    == kept[CHOOSE i \in same : \A j \in same : i <= j]
    IN  r.ok => /\ same # {} /\ r.length = f.length
                /\ \A k \in 1..r.length : trd.data[r.offset + k - 1] = f.data[k]

\* The image is what a run of SAVETRD and EMPTYTRD with any of their failures should leave,
\* and INCTRD reads from it what they saved.
TrdReadsBack == TrdLayout /\ TrdHoldsFiles /\ IncTrdReadsBack
=============================================================================
