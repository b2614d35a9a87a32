----------------------------- MODULE SavedFiles -----------------------------
(***************************************************************************)
(* The directives that save a block of the device's memory: SAVEBIN,        *)
(* SAVEDEV, SAVE3DOS, SAVEAMSDOS, SAVEHOB and SAVEHEX write a file of their  *)
(* own, SAVETAP and SAVECDT append blocks to a tape.                        *)
(*                                                                         *)
(* The address space is SlotsCount slots of PageSize bytes, and a 16 bit     *)
(* word of a header holds as many values as there are addresses, so what     *)
(* happens at 0x10000 happens here at RAM.  A byte is a set of bits that     *)
(* names where it comes from: exclusive or is the symmetric difference.      *)
(***************************************************************************)
EXTENDS Integers, Sequences, FiniteSets, SequencesExt

CONSTANTS
  PageSize, SlotsCount, PagesCount,
  HEX_RECORD_MAX,     \* 16 in the code
  ChunkLen,           \* 256: bytes of a CDT block under one checksum
  BlockSize,          \* 2048: bytes of a CDT file under one header
  SectorSize,         \* 256: HOBETA files are whole sectors
  Starts, Lengths,    \* arguments of the directives
  Params,             \* optional arguments, -1 when they are missing
  Mappings,           \* <<slot, page>> that MMU, SLOT and PAGE set up
  MaxBlocks           \* bound: calls that append to one tape

ASSUME SavedFilesAssumption ==
  /\ PageSize \in Nat \ {0} /\ SlotsCount \in Nat \ {0} /\ PagesCount >= SlotsCount
  /\ HEX_RECORD_MAX \in Nat \ {0} /\ ChunkLen \in Nat \ {0} /\ BlockSize \in Nat \ {0}
  /\ SectorSize \in Nat \ {0}

VARIABLES
  slots,     \* slot -> page mapped there
  saved,     \* the last file: [kind, ...], None before the first
  wanted,    \* the bytes it has to give back
  tape,      \* sequence of blocks appended to one tape file
  recorded   \* what the tape has to give back: [kind, data, load, entry]

filesVars == <<slots, saved, wanted, tape, recorded>>

-----------------------------------------------------------------------------
RAM == SlotsCount * PageSize
Word(x) == x % RAM
None == [kind |-> "none"]

Byte(page, ofs) == {<<"ram", page, ofs>>}
Zero == {}
Flag(f) == {<<"flag", f, 0>>}
Xor(a, b) == (a \ b) \cup (b \ a)
XorAll(bytes) == FoldLeft(Xor, Zero, bytes)
Zeros(n) == [i \in 1..n |-> Zero]

\* What the mapped memory holds at start..start+length-1.
Mapped(start, length) ==
  [k \in 1..length |-> LET a == start + k - 1 IN Byte(slots[a \div PageSize], a % PageSize)]

\* the range taken from the first slot only
getContigRAM_first(start, length) ==
  LET room == PageSize - (start % PageSize)
  IN  Mapped(start, IF length < room THEN length ELSE room)

\* The slots in turn, from each what of the range lies in it (getContigRAM and the loops of
\* SaveRAM and TAP_SaveBlock).
getContigRAM(start0, length0) ==
  LET step(st, i) ==
        LET base == i * PageSize
            room == PageSize - (st.start - base)
            save == IF st.length < room THEN st.length ELSE room
        IN  IF st.length > 0 /\ base <= st.start /\ st.start < base + PageSize
            THEN [start |-> st.start + save, length |-> st.length - save,
                  bytes |-> st.bytes \o [k \in 1..save |-> Byte(slots[i], st.start - base + k - 1)]]
            ELSE st
  IN  FoldLeft(step, [start |-> start0, length |-> length0, bytes |-> <<>>],
               [i \in 1..SlotsCount |-> i - 1]).bytes

SaveRAM(start0, length0) ==
  LET start   == IF start0 < 0 THEN start0 + RAM ELSE start0
      length1 == IF length0 <= 0 THEN length0 + RAM - start ELSE length0
  IN  IF ~(-RAM <= start0 /\ start0 < RAM) \/ length1 <= 0 THEN <<>>
      ELSE getContigRAM(start, IF RAM < start + length1 THEN RAM - start ELSE length1)

-----------------------------------------------------------------------------
(* Files of their own.  A failed call leaves a file that nobody asked for.  *)

Write(file, bytes) ==
  /\ saved' = file /\ wanted' = bytes /\ UNCHANGED <<slots, tape, recorded>>

Refuse == saved' = None /\ wanted' = <<>> /\ UNCHANGED <<slots, tape, recorded>>

\* The range the documentation of SAVEBIN describes: negative values count from the top.
Range0(start, length) ==
  LET s == IF start < 0 THEN start + RAM ELSE start
      e == IF length <= 0 THEN RAM + length ELSE s + length
  IN  Mapped(s, (IF e > RAM THEN RAM ELSE e) - s)

\* dirSAVEBIN, SaveBinary.
SAVEBIN(start, length) ==
  IF start < -RAM \/ RAM <= start \/ length <= -RAM \/ RAM < length \/ SaveRAM(start, length) = <<>>
  THEN Refuse
  ELSE Write([kind |-> "bin", data |-> SaveRAM(start, length)], Range0(start, length))

\* dirSAVEDEV, GetMemoryOffset, SaveDeviceMemory: pages lie behind each other in Memory.
SAVEDEV(page, offset, length) ==
  LET start    == offset + page * PageSize
      totalRam == PagesCount * PageSize
      cell(p)  == Byte(p \div PageSize, p % PageSize)
  IN  IF page \notin 0..PagesCount - 1 \/ start < 0 \/ totalRam <= start
           \/ length <= 0 \/ totalRam < start + length
      THEN Refuse
      ELSE Write([kind |-> "bin", data |-> [k \in 1..length |-> cell(start + k - 1)]],
                 [k \in 1..length |->
                    Byte(page + (offset + k - 1) \div PageSize, (offset + k - 1) % PageSize)])

InRegion(address, size) == 0 <= address /\ 1 <= size /\ address + size <= RAM

\* dirSAVE3DOS, SaveBinary3dos; type 4 stands for any that is not known.
SAVE3DOS(address, size, type, w2, w3) ==
  LET line == IF w2 # -1 THEN w2 ELSE IF type = 3 THEN address ELSE IF type = 0 THEN RAM \div 2 ELSE w2
      head == [full |-> 128 + size, type |-> type, length |-> Word(size),
               w2 |-> Word(line), w3 |-> Word(IF w3 = -1 THEN size ELSE w3)]
  IN  IF ~InRegion(address, size) \/ type \notin 0..3 THEN Refuse
      ELSE Write([kind |-> "3dos", head |-> head, sum |-> head, data |-> SaveRAM(address, size)],
                 Mapped(address, size))

\* dirSAVEAMSDOS, SaveBinaryAmsdos.
SAVEAMSDOS(address, size, start) ==
  LET head == [load |-> Word(address), length |-> Word(size), entry |-> Word(start)]
  IN  IF ~InRegion(address, size) THEN Refuse
      ELSE Write([kind |-> "amsdos", head |-> head, sum |-> head, data |-> SaveRAM(address, size)],
                 Mapped(address, size))

\* dirSAVEHOB, SaveHobeta; basic is an extension that begins with B.
HobetaLength(start, length) ==
  IF RAM < start + length \/ length = 0 THEN RAM - start
  ELSE IF length < 0 THEN RAM + length - start ELSE length

SAVEHOB(start, length0, basic) ==
  LET length == HobetaLength(start, length0)
      rest   == Word(length) % SectorSize
      sectors == Word(length) \div SectorSize + (IF rest = 0 THEN 0 ELSE 1)
      head == [first |-> IF basic THEN Word(length) ELSE Word(start),
               length |-> Word(length), sectors |-> sectors]
  IN  IF start < PageSize \/ RAM <= start \/ length <= 0 THEN Refuse
      ELSE Write([kind |-> "hobeta", head |-> head, sum |-> head,
                  data |-> SaveRAM(start, sectors * SectorSize)],
                 Mapped(start, length))

\* dirSAVEHEX, SaveHex: WriteHexRecord for each HEX_RECORD_MAX bytes of a slot.
HexRecords(address, size) ==
  LET cut(a, n) == \* the records of n bytes inside one slot
        [r \in 1..(n + HEX_RECORD_MAX - 1) \div HEX_RECORD_MAX |->
           LET from == a + (r - 1) * HEX_RECORD_MAX
               len  == IF n - (r - 1) * HEX_RECORD_MAX < HEX_RECORD_MAX
                       THEN n - (r - 1) * HEX_RECORD_MAX ELSE HEX_RECORD_MAX
           IN  [type |-> 0, address |-> Word(from), data |-> Mapped(from, len)]]
      step(st, i) ==
        LET room == (i + 1) * PageSize - st.start
            save == IF st.length < room THEN st.length ELSE room
        IN  IF st.length > 0 /\ room > 0
            THEN [start |-> st.start + save, length |-> st.length - save,
                  records |-> st.records \o cut(st.start, save)]
            ELSE st
  IN  FoldLeft(step, [start |-> address, length |-> size, records |-> <<>>],
               [i \in 1..SlotsCount |-> i - 1]).records

HexStart(start) ==
  IF start \in 0..RAM - 1 THEN <<[type |-> 3, address |-> start, data |-> <<>>]>> ELSE <<>>

SAVEHEX(address, size, start) ==
  IF ~InRegion(address, size) THEN Refuse
  ELSE Write([kind |-> "hex",
              data |-> HexRecords(address, size) \o HexStart(start)
                         \o <<[type |-> 1, address |-> 0, data |-> <<>>]>>],
             [load |-> address, data |-> Mapped(address, size)])

-----------------------------------------------------------------------------
(* Tapes.                                                                  *)

Append2(blocks, ask) ==
  /\ Len(recorded) < MaxBlocks
  /\ tape' = tape \o blocks /\ recorded' = Append(recorded, ask)
  /\ UNCHANGED <<slots, saved, wanted>>

\* TAP_SaveEmpty, TZX_CreateEmpty
EMPTYTAP == tape' = <<>> /\ recorded' = <<>> /\ UNCHANGED <<slots, saved, wanted>>

\* A block of a TAP: the length of what follows, then flag, bytes and their parity.
TapBlock(flag, bytes) ==
  [kind |-> "tap", length |-> Word(Len(bytes) + 2), flag |-> flag,
   data |-> bytes, check |-> Xor(Flag(flag), XorAll(bytes))]

\* writeheader: its parity leaves out the first byte, which is zero.
TapHeader(type, p1, p2, p3) ==
  [kind |-> "header", type |-> type, p1 |-> Word(p1), p2 |-> Word(p2), p3 |-> Word(p3)]

TapLength(start, length) == IF length + start > RAM \/ length <= 0 THEN RAM - start ELSE length

\* dirSAVETAP with a type, TAP_SaveBlock; dirSAVETAP has checked start and length.
SAVETAP(type, start, length0, param2, param3) ==
  LET length == TapLength(start, length0)
      letter == IF param2 <= 0 THEN 1 ELSE param2
      p2 == CASE type = "basic" -> (IF param2 < 0 THEN RAM \div 2 ELSE param2)
              [] type \in {"numbers", "chars"} -> letter
              [] OTHER -> IF param2 < 0 THEN start ELSE param2
      p3 == CASE type = "basic" -> (IF param3 < 0 THEN length ELSE param3)
              [] type \in {"numbers", "chars"} -> RAM \div 2
              [] OTHER -> IF param3 < 0 THEN RAM \div 2 ELSE param3
      flag == IF type = "headless" /\ param3 >= 0 THEN param3 ELSE 255
      bytes == getContigRAM(start, length)
  IN  /\ start \in 0..RAM - 1 /\ length0 \in -1..RAM - 1
      /\ Append2((IF type = "headless" THEN <<>> ELSE <<TapHeader(type, length, p2, p3)>>)
                   \o <<TapBlock(flag, bytes)>>,
                 [kind |-> "tap", data |-> Mapped(start, TapLength(start, length0)),
                  load |-> IF type = "code" /\ param2 < 0 THEN start ELSE -1, entry |-> -1])

\* writeChunkedData: chunks of ChunkLen bytes, the last one filled up, each with its checksum.
writeChunkedData(kind, bytes) ==
  LET count == (Len(bytes) + ChunkLen - 1) \div ChunkLen
      full  == bytes \o Zeros(count * ChunkLen - Len(bytes))
      chunk(i) == SubSeq(full, (i - 1) * ChunkLen + 1, i * ChunkLen)
  IN  [kind |-> kind, chunks |-> [i \in 1..count |-> [data |-> chunk(i), crc |-> chunk(i)]]]

\* writeTapeFile: blocks of BlockSize bytes, a header in front of each.
writeTapeFile(type, bytes, memaddr, startaddr) ==
  LET count == (Len(bytes) + BlockSize - 1) \div BlockSize
      part(b) == SubSeq(bytes, (b - 1) * BlockSize + 1,
                        IF b * BlockSize < Len(bytes) THEN b * BlockSize ELSE Len(bytes))
      head(b) == [kind |-> "cdthead", type |-> type, block |-> b, first |-> b = 1,
                  last |-> Len(bytes) - (b - 1) * BlockSize <= BlockSize,
                  length |-> Len(part(b)), location |-> Word(memaddr + (b - 1) * BlockSize),
                  logical |-> Word(Len(bytes)), entry |-> Word(startaddr)]
  IN  FlattenSeq([b \in 1..count |-> <<head(b), writeChunkedData("cdtdata", part(b))>>])

CdtRegion(start, length) == 0 <= start /\ 1 <= length /\ length < RAM /\ start + length <= RAM

\* dirSAVECDTBasic, dirSAVECDTCode, SaveCDT_BASIC, SaveCDT_Code
SAVECDT_File(type, start, length, entry) ==
  LET e == IF type = "basic" THEN 0 ELSE IF entry < 0 THEN start ELSE entry
  IN  /\ CdtRegion(start, length)
      /\ Append2(writeTapeFile(type, getContigRAM(start, length), start, e),
                 [kind |-> "cdt", data |-> Mapped(start, length), load |-> start, entry |-> e])

\* dirSAVECDTHeadless, SaveCDT_Headless: TZX_AppendTurboBlock or TZX_AppendStandardBlock.
SAVECDT_Headless(start, length, spectrum) ==
  /\ CdtRegion(start, length)
  /\ Append2(IF spectrum THEN <<TapBlock(22, getContigRAM(start, length))>>
             ELSE <<writeChunkedData("headless", getContigRAM(start, length))>>,
             [kind |-> IF spectrum THEN "tap" ELSE "headless",
              data |-> Mapped(start, length), load |-> -1, entry |-> -1])

-----------------------------------------------------------------------------
\* MMU, SLOT and PAGE before a save.
MapPage(slot, page) ==
  /\ slots[slot] # page
  /\ slots' = [slots EXCEPT ![slot] = page] /\ UNCHANGED <<saved, wanted, tape, recorded>>

FilesInit ==
  /\ slots = [i \in 0..SlotsCount - 1 |-> i]
  /\ saved = None /\ wanted = <<>> /\ tape = <<>> /\ recorded = <<>>

\* A behaviour saves files or records a tape: the two share only the memory.
SaveFile(start, length) ==
  /\ recorded = <<>>
  /\ \/ SAVEBIN(start, length)
     \/ \E page \in {0, PagesCount - 1, PagesCount} : SAVEDEV(page, start, length)
     \/ \E type \in 0..4, w \in Params : SAVE3DOS(start, length, type, w, w)
     \/ \E entry \in Params : SAVEAMSDOS(start, length, entry)
     \/ \E basic \in BOOLEAN : SAVEHOB(start, length, basic)
     \/ \E entry \in Params : SAVEHEX(start, length, entry)

RecordTape(start, length) ==
  /\ saved = None
  /\ \/ \E type \in {"basic", "numbers", "chars", "code", "headless"}, p \in Params :
          SAVETAP(type, start, length, p, p)
     \/ \E type \in {"basic", "code"}, entry \in Params : SAVECDT_File(type, start, length, entry)
     \/ \E spectrum \in BOOLEAN : SAVECDT_Headless(start, length, spectrum)

FilesNext ==
  \/ \E m \in Mappings : MapPage(m[1], m[2])
  \/ \E start \in Starts, length \in Lengths : SaveFile(start, length) \/ RecordTape(start, length)
  \/ EMPTYTAP

FilesSpec == FilesInit /\ [][FilesNext]_filesVars

-----------------------------------------------------------------------------
(* What the machine that gets the file reads (external).                   *)

\* A record of Intel HEX data goes where its address says.
HexReads(records, want) ==
  /\ records[Len(records)].type = 1
  /\ \A r \in DOMAIN records : Len(records[r].data) <= HEX_RECORD_MAX
  /\ LET data == {r \in DOMAIN records : records[r].type = 0}
         at   == UNION {{<<records[r].address + k - 1, records[r].data[k]>> :
                            k \in DOMAIN records[r].data} : r \in data}
     IN  at = {<<want.load + k - 1, want.data[k]>> : k \in DOMAIN want.data}

\* A header of 16 bits cannot describe a file of the whole address space.
FitsWord(n) == n < RAM

FileReads ==
  CASE saved.kind = "none"   -> TRUE
    [] saved.kind = "bin"    -> saved.data = wanted
    [] saved.kind = "3dos"   -> /\ saved.sum = saved.head
                                /\ SubSeq(saved.data, 1, saved.head.full - 128) = wanted
                                /\ Len(saved.data) = Len(wanted)
    [] saved.kind = "amsdos" -> FitsWord(Len(wanted)) =>
                                  /\ saved.sum = saved.head
                                  /\ SubSeq(saved.data, 1, saved.head.length) = wanted
    [] saved.kind = "hobeta" -> /\ saved.sum = saved.head
                                /\ SubSeq(saved.data, 1, saved.head.length) = wanted
                                /\ saved.head.sectors * SectorSize >= Len(wanted)
    [] OTHER                 -> HexReads(saved.data, wanted)

\* One file from the tape's blocks: [ok, kind, data, load, entry, rest].
Unchunk(block) == FlattenSeq([i \in DOMAIN block.chunks |-> block.chunks[i].data])
CdtBlocks(blocks) ==
  CHOOSE n \in 1..Len(blocks) \div 2 :
    blocks[2 * n - 1].last /\ \A m \in 1..n - 1 : ~blocks[2 * m - 1].last

TapeFile(blocks) ==
  LET b == blocks[1]
      tap(d) == [ok |-> d.length = Len(d.data) + 2 /\ d.check = Xor(Flag(d.flag), XorAll(d.data)),
                 kind |-> "tap", data |-> d.data]
  IN  CASE b.kind = "tap" -> tap(b) @@ [load |-> -1, entry |-> -1, rest |-> SubSeq(blocks, 2, Len(blocks))]
        [] b.kind = "header" ->
             LET t == tap(blocks[2])
             IN  [t EXCEPT !.ok = @ /\ b.p1 = Len(t.data)]
                   @@ [load |-> IF b.type = "code" THEN b.p2 ELSE -1, entry |-> -1,
                       rest |-> SubSeq(blocks, 3, Len(blocks))]
        [] b.kind = "headless" ->
             [ok |-> TRUE, kind |-> "headless", data |-> Unchunk(b), load |-> -1, entry |-> -1,
              rest |-> SubSeq(blocks, 2, Len(blocks))]
        [] OTHER ->
             LET n == CdtBlocks(blocks)
                 part(i) == SubSeq(Unchunk(blocks[2 * i]), 1, blocks[2 * i - 1].length)
                 before(i) == Len(FlattenSeq([j \in 1..i - 1 |-> part(j)]))
             IN  [ok |-> /\ b.first /\ b.logical = before(n + 1)
                         /\ \A i \in 1..n : /\ blocks[2 * i - 1].block = i
                                            /\ blocks[2 * i - 1].location = b.location + before(i)
                                            /\ \A c \in DOMAIN blocks[2 * i].chunks :
                                                 blocks[2 * i].chunks[c].crc = blocks[2 * i].chunks[c].data,
                  kind |-> "cdt", data |-> FlattenSeq([i \in 1..n |-> part(i)]),
                  load |-> b.location, entry |-> b.entry,
                  rest |-> SubSeq(blocks, 2 * n + 1, Len(blocks))]

\* The files of a tape in turn, each against what was recorded.
TapeReads ==
  LET step(st, want) ==
        IF ~st.ok \/ st.rest = <<>> THEN [ok |-> FALSE, rest |-> <<>>]
        ELSE LET f == TapeFile(st.rest)
             IN  [ok |-> /\ f.ok /\ f.kind = want.kind
                         /\ (want.load >= 0 => f.load = want.load)
                         /\ (want.entry >= 0 => f.entry = Word(want.entry))
                         /\ IF f.kind = "headless" THEN SubSeq(f.data, 1, Len(want.data)) = want.data
                            ELSE f.data = want.data,
                  rest |-> f.rest]
      end == FoldLeft(step, [ok |-> TRUE, rest |-> tape], recorded)
  IN  end.ok /\ end.rest = <<>>

\* A saved block reads back as the memory that was mapped when it was saved, whatever the
\* slots, the negative arguments and the cuts into records, chunks, blocks and sectors; on a
\* tape also behind other blocks (SaveRAM, SaveHex, TAP_SaveBlock, writeTapeFile).  Blocks
\* whose length plus two needs more than 16 bits are left out.
SavedReadsBack ==
  /\ FileReads
  /\ (\A r \in DOMAIN recorded : recorded[r].kind = "tap" => FitsWord(Len(recorded[r].data) + 2))
       => TapeReads
=============================================================================
