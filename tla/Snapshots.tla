------------------------------ MODULE Snapshots ------------------------------
(***************************************************************************)
(* Images of the whole memory of a device: SAVESNA, SAVETAP without a type,  *)
(* SAVECPCSNA, SAVECDT FULL and SAVECPR, and the programs that load them.    *)
(*                                                                         *)
(* A page has P bytes instead of 0x4000, a byte Base values instead of 256    *)
(* with Base * Base = 4 * P, so that an address still is two bytes.  The      *)
(* screen, its attributes and the system variables keep their order in the   *)
(* page at 0x4000.                                                          *)
(***************************************************************************)
EXTENDS Integers, Sequences, FiniteSets, SequencesExt

CONSTANTS
  P, Base,
  Pixels,     \* 0x1800: bytes of the screen without attributes
  Screen,     \* 0x1B00: bytes with attributes
  Data,       \* 0x1E00: where the tape's main block begins, 0x5E00
  Attribute,  \* 0x38
  STACK,      \* ZX_STACK_DATA
  RamTops,    \* ZxRamTop of DEVICE, -1 for no initialisation of the memory
  Devices,    \* subset of {"ZX48", "ZX128", "CPC464", "CPC6128", "PLUS"}
  Pokes,      \* <<page, offset, value>> that a program may store
  Sizes,      \* sizes given to SAVECPR
  MaxPokes    \* bound: bytes stored by a program

ASSUME SnapshotsAssumption ==
  /\ P \in Nat \ {0} /\ Base * Base = 4 * P
  /\ 0 < Pixels /\ Pixels < Screen /\ Screen <= Data /\ Data < P

VARIABLES
  device,     \* which device was set
  ram,        \* page -> offset -> byte
  ramtop,
  page3,      \* the page in the last slot
  image,      \* the last file written, NoImage before
  before,     \* the memory when it was asked for, with page and start address
  pokes

snapVars == <<device, ram, ramtop, page3, image, before, pokes>>

-----------------------------------------------------------------------------
NoImage == [kind |-> "none"]
DevicePages(d) == CASE d = "ZX48" -> 4 [] d = "CPC464" -> 4 [] OTHER -> 8
InitialPages(d) == CASE d = "ZX128" -> <<7, 5, 2, 0>> [] OTHER -> <<0, 1, 2, 3>>

\* Slots 0 to 2 keep their initial pages: the machines can only page the last one.
SlotPage(i) == IF i = 3 THEN page3 ELSE InitialPages(device)[i + 1]

IsZX == device \in {"ZX48", "ZX128"}
IsCPC == device \in {"CPC464", "CPC6128"}
Lo(w) == w % Base
Hi(w) == (w \div Base) % Base

\* Poke through the initial mapping (initZxLikeDevice).
PokeAt(m, d, adr, v) == [m EXCEPT ![InitialPages(d)[adr \div P + 1]][adr % P] = v]

Blank(d) == [p \in 0..DevicePages(d) - 1 |-> [o \in 0..P - 1 |-> 0]]
Cleared(d) ==
  IF d \notin {"ZX48", "ZX128"} THEN Blank(d)
  ELSE FoldLeft(LAMBDA m, o : PokeAt(m, d, P + o, Attribute), Blank(d),
                [k \in 1..Screen - Pixels |-> Pixels + k - 1])

\* initZxLikeDevice: attributes and the stack under RAMTOP.
InitialMemory(d, top) ==
  IF d \notin {"ZX48", "ZX128"} \/ top = -1 THEN Blank(d)
  ELSE FoldLeft(LAMBDA m, k : PokeAt(m, d, top - Len(STACK) + k, STACK[k]), Cleared(d),
                [k \in DOMAIN STACK |-> k])

-----------------------------------------------------------------------------
(* SaveSNA_ZX.                                                             *)

StackAdr == IF ramtop + 1 - Len(STACK) < P + 2 THEN P + 2 ELSE ramtop + 1 - Len(STACK)

Peek(adr) == ram[InitialPages(device)[adr \div P + 1]][adr % P]

\* The stack of initZxLikeDevice is still there, for 48K with room for the start under it.
defaultStack ==
  /\ \A k \in DOMAIN STACK : Peek(StackAdr + k - 1) = STACK[k]
  /\ device = "ZX48" => Peek(StackAdr - 1) = 0 /\ Peek(StackAdr - 2) = 0

\* Only the 48K snapshot changes the memory: it has no other place for the start address.
Injected(start) ==
  IF device # "ZX48" THEN ram
  ELSE IF defaultStack
       THEN PokeAt(PokeAt(ram, device, StackAdr - 1, Hi(start)), device, StackAdr - 2, Lo(start))
       ELSE [ram EXCEPT ![1][0] = Lo(start), ![1][1] = Hi(start)]

SaveSNA_ZX(start) ==
  LET m == Injected(start)
      sp == IF defaultStack THEN (IF device = "ZX48" THEN StackAdr - 2 ELSE StackAdr)
            ELSE IF device = "ZX48" THEN P ELSE P + (2 * P) \div 3
      rest == SelectSeq(<<0, 1, 2, 3, 4, 5, 6, 7>>, LAMBDA i : i \notin {2, 5, page3})
  IN  /\ IsZX
      /\ ram' = m
      /\ image' = IF device = "ZX48"
                  THEN [kind |-> "sna48", sp |-> sp, pages |-> <<m[1], m[2], m[3]>>]
                  ELSE [kind |-> "sna128", sp |-> sp, pages |-> <<m[5], m[2], m[page3]>>,
                        pc |-> start, port |-> page3, rest |-> [k \in DOMAIN rest |-> m[rest[k]]]]

-----------------------------------------------------------------------------
(* TAP_SaveSnapshot.  Byte sequences begin at index 1.                     *)

Bytes(page) == [k \in 1..P |-> page[k - 1]]

\* The length without the zeros at the end, and the zeros at the beginning.
remove_unused_space(bytes) ==
  CHOOSE n \in 0..Len(bytes) :
    (n > 0 => bytes[n] # 0) /\ \A k \in n + 1..Len(bytes) : bytes[k] = 0
detect_ram_start(bytes, length) ==
  CHOOSE n \in 0..length : (n < length => bytes[n + 1] # 0) /\ \A k \in 1..n : bytes[k] = 0

\* A trimmed block: [start, data].
Trim(bytes) ==
  LET length == remove_unused_space(bytes)
      start  == detect_ram_start(bytes, length)
  IN  [start |-> start, data |-> SubSeq(bytes, start + 1, length)]

has_screen_changes ==
  LET scr == ram[SlotPage(1)]
  IN  (\E o \in 0..Pixels - 1 : scr[o] # 0) \/ (\E o \in Pixels..Screen - 1 : scr[o] # Attribute)

\* remove_basic_sp: a stack at the very end of the memory is not saved.
remove_basic_sp(bytes) ==
  LET n == Len(bytes) - Len(STACK)
  IN  IF \A k \in DOMAIN STACK : bytes[n + k] = STACK[k]
      THEN [k \in DOMAIN bytes |-> IF k > n THEN 0 ELSE bytes[k]] ELSE bytes

MainBytes ==
  LET low == SubSeq(Bytes(ram[SlotPage(1)]), Data + 1, P) \o Bytes(ram[SlotPage(2)])
  IN  IF device = "ZX48" THEN remove_basic_sp(low \o Bytes(ram[SlotPage(3)])) ELSE low

\* pages are not skipped by what is mapped but by the numbers of the 48K memory
PageTable_fixed ==
  LET pages == SelectSeq([k \in 1..DevicePages(device) |-> k - 1],
                 LAMBDA i : i # 5 /\ i # page3 /\ i # 2 /\ remove_unused_space(Bytes(ram[i])) > 0)
  IN  [k \in DOMAIN pages |-> [page |-> pages[k], trim |-> Trim(Bytes(ram[pages[k]]))]]

\* The pages that are neither in slot 1 nor in slot 2 and not empty.
PageTable ==
  LET pages == SelectSeq([k \in 1..DevicePages(device) |-> k - 1],
                 LAMBDA i : i # SlotPage(1) /\ i # SlotPage(2)
                              /\ remove_unused_space(Bytes(ram[i])) > 0)
  IN  [k \in DOMAIN pages |-> [page |-> pages[k], trim |-> Trim(Bytes(ram[pages[k]]))]]

TAP_SaveSnapshot(start) ==
  LET main  == Trim(MainBytes)
      table == IF device = "ZX48" THEN <<>> ELSE PageTable
  IN  /\ IsZX
      /\ image' = [kind |-> "tap", start |-> start, screen |-> has_screen_changes, page |-> page3,
                   mainStart |-> P + Data + main.start, mainLength |-> Len(main.data),
                   table |-> [k \in DOMAIN table |->
                                [page |-> table[k].page, start |-> 3 * P + table[k].trim.start,
                                 length |-> Len(table[k].trim.data)]],
                   blocks |-> (IF has_screen_changes
                               THEN <<SubSeq(Bytes(ram[SlotPage(1)]), 1, Screen)>> ELSE <<>>)
                              \o [k \in DOMAIN table |-> table[k].trim.data] \o <<main.data>>]
      /\ UNCHANGED ram

-----------------------------------------------------------------------------
(* Amstrad CPC.                                                            *)

\* SaveSNA_CPC: every page in order.
SaveSNA_CPC(start) ==
  /\ IsCPC
  /\ image' = [kind |-> "cpcsna", pc |-> start, depth |-> DevicePages(device),
               pages |-> [k \in 1..DevicePages(device) |-> ram[k - 1]]]
  /\ UNCHANGED ram

\* hasScreen, calcRAMStart and calcRAMLength (they agree with the tape's functions).
hasScreen == \E o \in 0..P - 1 : ram[3][o] # 0

\* createCDTDump464 and createCDTDump6128: settings, then screen, pages and main memory.
\* The entry of a page and its block take the offset of the end for the length.
CdtEntry(i) ==
  LET bytes == Bytes(ram[i])
      ends  == remove_unused_space(bytes)
      base  == detect_ram_start(bytes, ends)
      beyond == IF i < 7 THEN Bytes(ram[i + 1]) ELSE [k \in 1..P |-> 0]
  IN  [page |-> i, start |-> base, length |-> ends,
       data |-> SubSeq(bytes \o beyond, base + 1, base + ends)]

createCDTDump(start) ==
  LET low  == Bytes(ram[0]) \o Bytes(ram[1]) \o Bytes(ram[2])
      main == Trim(low)
      used == IF device = "CPC464" THEN <<>>
              ELSE SelectSeq(<<4, 5, 6, 7>>, LAMBDA i : remove_unused_space(Bytes(ram[i])) > 0)
      entries == [k \in DOMAIN used |-> CdtEntry(used[k])]
  IN  /\ IsCPC
      /\ image' = IF main.data = <<>> THEN NoImage
                  ELSE [kind |-> "cdt", start |-> start, screen |-> hasScreen,
                        mainStart |-> main.start, mainLength |-> Len(main.data),
                        table |-> [k \in DOMAIN entries |->
                                     [page |-> entries[k].page, start |-> entries[k].start,
                                      length |-> entries[k].length]],
                        blocks |-> (IF hasScreen THEN <<Bytes(ram[3])>> ELSE <<>>)
                                   \o [k \in DOMAIN entries |-> entries[k].data] \o <<main.data>>]
      /\ UNCHANGED ram

\* SaveCPR, dirSAVECPR: chunks with the number of the page.
SaveCPR(size) ==
  /\ device = "PLUS" /\ size \in 1..DevicePages(device)
  /\ image' = [kind |-> "cpr", length |-> size * (8 + P) + 4,
               chunks |-> [k \in 1..size |-> [id |-> k - 1, length |-> P, data |-> ram[k - 1]]]]
  /\ UNCHANGED ram

-----------------------------------------------------------------------------
\* The program stores a byte; PAGE maps another page into the last slot.
Poke(p, o, v) ==
  /\ pokes < MaxPokes /\ p < DevicePages(device) /\ ram[p][o] # v
  /\ ram' = [ram EXCEPT ![p][o] = v] /\ pokes' = pokes + 1
  /\ image' = NoImage /\ before' = NoImage
  /\ UNCHANGED <<device, ramtop, page3>>

MapPage3(p) ==
  /\ device = "ZX128" /\ p < DevicePages(device) /\ p # page3
  /\ page3' = p /\ image' = NoImage /\ before' = NoImage
  /\ UNCHANGED <<device, ram, ramtop, pokes>>

Save ==
  /\ \E start \in {P, 2 * P + 1} :
       /\ \/ SaveSNA_ZX(start) \/ TAP_SaveSnapshot(start) \/ SaveSNA_CPC(start)
          \/ createCDTDump(start) \/ \E size \in Sizes : SaveCPR(size)
       /\ before' = [ram |-> ram, page |-> page3, start |-> start, default |-> defaultStack]
  /\ UNCHANGED <<device, ramtop, page3, pokes>>

SnapInit ==
  /\ device \in Devices
  /\ ramtop \in RamTops
  /\ ram = InitialMemory(device, ramtop)
  /\ page3 = InitialPages(device)[4]
  /\ image = NoImage /\ pokes = 0
  /\ before = NoImage

SnapNext ==
  \/ \E k \in Pokes : Poke(k[1], k[2], k[3])
  \/ \E p \in {0, 2, 5, 7} : MapPage3(p)
  \/ Save

SnapSpec == SnapInit /\ [][SnapNext]_snapVars

-----------------------------------------------------------------------------
(* The machine that loads an image (external): its memory is zero, with the *)
(* default attributes on the screen of a ZX.  A loader asks the tape for a   *)
(* number of bytes and fails unless the block has as many.                  *)

Fresh == Cleared(device)

\* bytes loaded at an address, with page in the last slot (cpc: at 0x4000 instead)
LoadAt(m, map, adr, bytes) ==
  FoldLeft(LAMBDA mm, k : IF adr + k - 1 < 4 * P
                          THEN [mm EXCEPT ![map[(adr + k - 1) \div P + 1]][(adr + k - 1) % P] = bytes[k]]
                          ELSE mm,
           m, [k \in DOMAIN bytes |-> k])

\* The steps of the loader: <<map, address, length>>, one for each block.
LoaderSteps ==
  LET zx    == image.kind = "tap"
      map(p) == IF zx THEN [InitialPages(device) EXCEPT ![4] = p]
                ELSE [InitialPages(device) EXCEPT ![2] = p]
      plain == InitialPages(device)
  IN  (IF ~image.screen THEN <<>>
       ELSE IF zx THEN << <<plain, P, Screen>> >> ELSE << <<plain, 3 * P, P>> >>)
      \o [k \in DOMAIN image.table |->
            LET e == image.table[k]
            IN  <<map(e.page), IF zx THEN e.start ELSE P + e.start, e.length>>]
      \o << <<IF zx THEN map(image.page) ELSE plain, image.mainStart, image.mainLength>> >>

Loaded ==
  FoldLeft(LAMBDA m, k : LoadAt(m, LoaderSteps[k][1], LoaderSteps[k][2], image.blocks[k]),
           Fresh, [k \in DOMAIN LoaderSteps |-> k])

\* A block that misses bytes stops the loader; a longer one is cut off on a CPC.
BlocksFit ==
  /\ Len(image.blocks) = Len(LoaderSteps)
  /\ \A k \in DOMAIN LoaderSteps : Len(image.blocks[k]) = LoaderSteps[k][3]

\* The loader itself lies at 0x5E00, on a CPC at 0x8000: only the last block may cover it.
LoaderSurvives ==
  LET at == IF IsZX THEN P + Data ELSE 2 * P
  IN  \A k \in 1..Len(LoaderSteps) - 1 :
        at \notin LoaderSteps[k][2]..LoaderSteps[k][2] + LoaderSteps[k][3] - 1

\* Bytes that the loaded machine must have: all that are not zero, the screen of a ZX
\* as it was, but not what lies between the screen and 0x5E00, nor a removed stack.
Covered(p, o) ==
  /\ IsZX => ~(p = InitialPages(device)[2] /\ Screen <= o /\ o < Data) /\ ~(device = "ZX48" /\ p = 0)
  /\ ~(device = "ZX48" /\ p = 3 /\ o >= P - Len(STACK))

TapeRestores ==
  /\ BlocksFit /\ LoaderSurvives
  /\ \A p \in DOMAIN ram, o \in 0..P - 1 :
       (before.ram[p][o] # 0 /\ Covered(p, o)) => Loaded[p][o] = before.ram[p][o]
  /\ IsZX => \A o \in 0..Screen - 1 :
               Loaded[InitialPages(device)[2]][o] = before.ram[InitialPages(device)[2]][o]

\* The 48K snapshot starts with RETN: the program counter is popped from the stack.
Sna48Restores ==
  LET m == [p \in 0..3 |-> IF p = 0 THEN before.ram[0] ELSE image.pages[p]]
      at(adr) == m[adr \div P][adr % P]
      taken == IF before.default THEN {image.sp, image.sp + 1} ELSE {P, P + 1}
  IN  /\ at(image.sp) + Base * at(image.sp + 1) = before.start
      /\ \A p \in 1..3, o \in 0..P - 1 :
           p * P + o \notin taken => m[p][o] = before.ram[p][o]

\* The order of the pages of a 128K snapshot: 5, 2, the one paged in, then the others.
Sna128Restores ==
  LET others == SelectSeq(<<0, 1, 2, 3, 4, 5, 6, 7>>, LAMBDA i : i \notin {2, 5, image.port})
  IN  /\ image.pages[1] = before.ram[5] /\ image.pages[2] = before.ram[2]
      /\ image.pages[3] = before.ram[image.port]
      /\ Len(image.rest) = Len(others)
      /\ \A k \in DOMAIN others : image.rest[k] = before.ram[others[k]]
      /\ image.port = before.page /\ image.pc = before.start

\* A dump of a CPC6128 whose extended pages begin with a zero is not loaded as it was.
CdtIsSound == image.kind = "cdt" => \A k \in DOMAIN image.table : image.table[k].start = 0

Restores ==
  CASE image.kind = "none"   -> TRUE
    [] image.kind = "sna48"  -> Sna48Restores
    [] image.kind = "sna128" -> Sna128Restores
    [] image.kind = "cpcsna" -> /\ \A p \in DOMAIN ram : image.pages[p + 1] = before.ram[p]
                                /\ image.pc = before.start /\ image.depth = Len(image.pages)
    [] image.kind = "cpr"    -> \A k \in DOMAIN image.chunks :
                                  image.chunks[k].data = before.ram[image.chunks[k].id]
    [] OTHER                 -> TapeRestores

\* Loading the image of a memory gives the memory back, as far as the format promises it:
\* what TAP_SaveSnapshot and createCDTDump trim are zeros, pages come back to their places
\* whichever page was mapped, and the 48K snapshot returns to its start address.
SnapshotRestores == CdtIsSound => Restores

\* The same for every dump of a CPC6128.
DumpRestores == Restores
=============================================================================
