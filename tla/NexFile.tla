------------------------------- MODULE NexFile -------------------------------
(***************************************************************************)
(* SAVENEX (io_nex.cpp): one command after the other appends blocks to the *)
(* open file and collects a header, which is written over the beginning of *)
(* the file when it is closed.                                              *)
(*                                                                         *)
(* The file behind its header is a sequence of pieces [src, at, size]: size *)
(* bytes of the device memory from address at ("mem"), of the BMP number at, *)
(* of the generated palette, of an appended file.  What the commands were   *)
(* asked for is kept in asked, to compare a loader's view of the file with. *)
(***************************************************************************)
EXTENDS Integers, Sequences, FiniteSets, SequencesExt, TLC

CONSTANTS
  MAX_BANK,       \* 112 in the code
  NonZero,        \* the banks of the device with a byte other than zero in them
  BankArgs,       \* arguments of BANK and AUTO
  Places,         \* <<page, offset>> named by PALETTE, SCREEN and COPPER
  Bitmaps,        \* BMP files: sequence of [w, h, up], up when stored bottom row first
  Appendices,     \* names of files that CLOSE may append, "none" among them
  MaxCommands     \* bound: commands between OPEN and CLOSE

ASSUME NexAssumption ==
  /\ MAX_BANK \in Nat /\ MAX_BANK >= 8
  /\ NonZero \subseteq 0..MAX_BANK - 1
  /\ MaxCommands \in Nat

VARIABLES
  nex,      \* the static SNexFile
  file,     \* the bytes of the open file: [head, body]
  asked,    \* what the accepted commands asked this file to hold
  closed,   \* the last finalized file and what it was asked to hold: [head, body, asked]
  commands  \* accepted or refused commands since OPEN

nexVars == <<nex, file, asked, closed, commands>>

-----------------------------------------------------------------------------
(* Sizes and header.                                                       *)

HeaderSize  == 512
PAL_SIZE    == 512
COPPER_SIZE == 2048
BankSize    == 16384
PAGE_SIZE    == 8192
MAX_PAGE    == MAX_BANK * 2
TotalRam    == MAX_PAGE * PAGE_SIZE

nexBankOrder == <<5, 2, 0, 1, 3, 4, 6, 7>>

\* SNexHeader::init.  screen is the set of its flags.
InitHeader ==
  [version |-> 2, ramReq |-> 0, numBanks |-> 0, screen |-> {}, screen2 |-> "none",
   core |-> 28, border |-> 0, bar |-> 0, posY |-> 0, hiResColour |-> 0, entryBank |-> 0,
   banks |-> {}, hasChecksum |-> FALSE, expBus |-> 0, banksOffset |-> 0,
   hasCopperCode |-> FALSE, tiles |-> 0, crc32c |-> <<>>]

Undefined == <<>>

\* SNexFile::init.
InitNex == [f |-> FALSE, h |-> InitHeader, reqFileVersion |-> 0, minFileVersion |-> 2,
            lastBankIndex |-> -1, copper |-> Undefined, palette |-> Undefined, palDefined |-> FALSE,
            canAppend |-> FALSE]

InitAsked == [palette |-> Undefined, pixels |-> Undefined, screen |-> "none", copper |-> Undefined,
              banks |-> {}, append |-> Undefined, core |-> 28, ramReq |-> 0, bar |-> 0,
              posY |-> 0, colour |-> 0, tiles |-> 0, expBus |-> 0, crc |-> FALSE]

Piece(src, at, size) == [src |-> src, at |-> at, size |-> size]

SizeOf(body) == FoldLeft(LAMBDA n, p : n + p.size, 0, body)
ftell(body)  == HeaderSize + SizeOf(body)

\* GetMemoryOffset of an 8 KiB page.
MemoryOffset(page, offset) == page * PAGE_SIZE + offset

getNexBankIndex(bank) ==
  IF 8 <= bank /\ bank < MAX_BANK THEN bank
  ELSE IF \E i \in 1..8 : nexBankOrder[i] = bank
       THEN (CHOOSE i \in 1..8 : nexBankOrder[i] = bank) - 1
       ELSE -2

getNexBankNum(index) ==
  IF 0 <= index /\ index < 8 THEN nexBankOrder[index + 1]
  ELSE IF 8 <= index /\ index < MAX_BANK THEN index ELSE -1

-----------------------------------------------------------------------------
(* Writing.  s is the state [nex, file] that a command works on.            *)

WriteNex(s, pieces) == [s EXCEPT !.file.body = @ \o pieces]

\* Mutant: the offset of the first bank is taken before the copper code is written.
updateIfAheadFirstBankSave_early(s) ==
  IF s.nex.h.banksOffset # 0 \/ ~s.nex.canAppend THEN s
  ELSE [s EXCEPT !.nex.h.banksOffset = ftell(s.file.body),
                 !.file.body = @ \o IF s.nex.h.hasCopperCode THEN s.nex.copper ELSE <<>>]

updateIfAheadFirstBankSave(s) ==
  IF s.nex.h.banksOffset # 0 \/ ~s.nex.canAppend THEN s
  ELSE LET body == s.file.body \o IF s.nex.h.hasCopperCode THEN s.nex.copper ELSE <<>>
       IN  [s EXCEPT !.file.body = body, !.nex.h.banksOffset = ftell(body)]

writeHeader(s) == [s EXCEPT !.file.head = s.nex.h, !.nex.canAppend = FALSE]

writePalette(s) ==
  IF ~s.nex.palDefined \/ s.nex.palette = Undefined
  THEN [s EXCEPT !.nex.h.screen = {"NOPAL"}]
  ELSE WriteNex(s, s.nex.palette)

\* The checksum is taken of what is in the file, body first; it is here the pair itself.
calculateCrc32C(s) ==
  IF ~s.nex.h.hasChecksum THEN s
  ELSE [s EXCEPT !.nex.h.crc32c = <<s.file.body, s.file.head>>, !.nex.canAppend = FALSE]

finalizeFile(s) ==
  LET a == updateIfAheadFirstBankSave(s)
      b == IF a.nex.minFileVersion = 2
           THEN [a EXCEPT !.nex.h.banksOffset = 0, !.nex.h.posY = 0]
           ELSE calculateCrc32C([a EXCEPT !.nex.h.version = 3])
  IN  [writeHeader(b) EXCEPT !.nex.f = FALSE, !.nex.copper = Undefined, !.nex.palette = Undefined]

-----------------------------------------------------------------------------
(* Bitmaps.                                                                *)

BmpType(b) == IF b.w = 256 /\ b.h = 192 THEN "L2"
              ELSE IF b.w = 128 /\ b.h = 96 THEN "LR"
              ELSE IF b.h = 256 /\ b.w = 320 THEN "L2_320"
              ELSE IF b.h = 256 /\ b.w = 640 THEN "L2_640" ELSE "other"

\* Where row y of the picture is in the file.
FileRow(b, h, y) == IF b.up THEN h - y - 1 ELSE y

\* Mutant: the rows of a picture that is stored bottom row first are not turned round.
loadPixelData_asstored(b, w, h) == [i \in 0..w * h - 1 |-> <<i % w, i \div w>>]

\* Rows of the file in the order of the picture: for each byte read the pixel <<x, row>>.
loadPixelData(b, w, h) == [i \in 0..w * h - 1 |-> <<i % w, FileRow(b, h, i \div w)>>]

\* The pixels in the order in which they are written, two of them to a byte in the 640
\* modes: columns first for the V1.3 pictures.
BmpBytes(b, w, h) ==
  LET buffer == loadPixelData(b, w, h)
      step   == IF BmpType(b) = "L2_640" THEN 2 ELSE 1
      wB     == w \div step
  IN  IF BmpType(b) \in {"L2", "LR"} THEN [k \in 1..w * h |-> <<buffer[k - 1]>>]
      ELSE [k \in 1..wB * h |->
              LET x == (k - 1) \div h
                  y == (k - 1) % h
              IN  [p \in 1..step |-> buffer[y * w + x * step + p - 1]]]

PixelSize(type) == CASE type = "L2" -> 49152 [] type = "LR" -> 12288 [] OTHER -> 81920

-----------------------------------------------------------------------------
(* Palettes.                                                               *)

\* A place in memory is <<page, offset>>, NoPlace when the argument is left out.
NoPlace == <<-1, 0>>

Written(place) == place[1] < MAX_PAGE      \* else the command has a syntax error

Outside(place, size) == TotalRam < MemoryOffset(place[1], place[2]) + size

FromMemory(place, size) == <<Piece("mem", MemoryOffset(place[1], place[2]), size)>>

PaletteOutside(s, place) == ~s.nex.palDefined /\ place # NoPlace /\ Outside(place, PAL_SIZE)

\* dirNexPaletteMem: NoPlace defines "no palette"; an earlier palette stays.
PaletteMem(s, place) ==
  IF s.nex.palDefined \/ PaletteOutside(s, place) THEN s
  ELSE IF place = NoPlace THEN [s EXCEPT !.nex.palDefined = TRUE]
  ELSE [s EXCEPT !.nex.palDefined = TRUE, !.nex.palette = FromMemory(place, PAL_SIZE)]

BmpPalette(i) == <<Piece("bmppal", i, PAL_SIZE)>>

\* Mutant: the palette of a picture replaces the one of the PALETTE command.
PaletteBmp_always(s, i) == [s EXCEPT !.nex.palDefined = TRUE, !.nex.palette = BmpPalette(i)]

PaletteBmp(s, i) ==
  IF s.nex.palDefined THEN s
  ELSE [s EXCEPT !.nex.palDefined = TRUE, !.nex.palette = BmpPalette(i)]

PaletteRefused(s) == s.nex.palDefined \/ s.nex.h.screen # {} \/ s.nex.lastBankIndex # -1

-----------------------------------------------------------------------------
(* Banks.                                                                  *)

\* saveBank: [s, ok].  A bank of zeroes is passed over when onlyNonZero.
saveBank(s, index, bank, onlyNonZero) ==
  IF bank < 0 \/ MAX_BANK <= bank \/ index <= s.nex.lastBankIndex THEN [s |-> s, ok |-> FALSE]
  ELSE LET a == [updateIfAheadFirstBankSave(s) EXCEPT !.nex.lastBankIndex = index]
       IN  IF onlyNonZero /\ bank \notin NonZero THEN [s |-> a, ok |-> TRUE]
           ELSE [s  |-> WriteNex([a EXCEPT !.nex.h.banks = @ \cup {bank}, !.nex.h.numBanks = @ + 1],
                              <<Piece("mem", bank * BankSize, BankSize)>>),
                 ok |-> TRUE]

\* The loops of BANK and AUTO end at the first bank that is refused.
SaveBanks(s, indices, onlyNonZero) ==
  FoldLeft(LAMBDA r, i : IF r.ok THEN saveBank(r.s, i, getNexBankNum(i), onlyNonZero) ELSE r,
           [s |-> s, ok |-> TRUE], indices)

-----------------------------------------------------------------------------
(* Commands.                                                               *)

S == [nex |-> nex, file |-> file]

Becomes(s) == nex' = s.nex /\ file' = s.file

\* A command between OPEN and CLOSE.
Command == commands < MaxCommands /\ commands' = commands + 1 /\ UNCHANGED closed

Nothing == [head |-> InitHeader, body |-> <<>>, asked |-> InitAsked]

Open(version, entryBank) ==
  /\ ~nex.f
  /\ LET init == [InitNex EXCEPT !.copper = nex.copper, !.palette = nex.palette]
         set  == [init EXCEPT !.f = TRUE, !.h.entryBank = entryBank, !.reqFileVersion = version,
                              !.minFileVersion = IF version = 3 THEN 3 ELSE 2]
     IN  IF entryBank >= MAX_BANK \/ version \notin {0, 2, 3}
         THEN nex' = init /\ UNCHANGED <<file, asked, closed, commands>>
         ELSE /\ Becomes([writeHeader([nex |-> set, file |-> [head |-> InitHeader, body |-> <<>>]])
                          EXCEPT !.nex.canAppend = TRUE])
              /\ asked' = InitAsked /\ closed' = Nothing /\ commands' = 0

\* CORE, CFG and BAR only set fields of the header, at any time.
Core(v) == /\ nex.f
           /\ nex' = [nex EXCEPT !.h.core = v]
           /\ asked' = [asked EXCEPT !.core = v]
           /\ Command /\ UNCHANGED file

Cfg(border, ramReq) ==
  /\ nex.f
  /\ nex' = [nex EXCEPT !.h.border = border % 8, !.h.ramReq = ramReq]
  /\ asked' = [asked EXCEPT !.ramReq = ramReq]
  /\ Command /\ UNCHANGED file

Bar(bar, posY) ==
  /\ nex.f
  /\ nex' = [nex EXCEPT !.h.bar = bar, !.h.posY = posY]
  /\ asked' = [asked EXCEPT !.bar = bar, !.posY = posY]
  /\ Command /\ UNCHANGED file

Cfg3(crc, expBus) ==
  /\ nex.f /\ nex.reqFileVersion # 2
  /\ nex' = [nex EXCEPT !.minFileVersion = 3, !.h.hasChecksum = crc, !.h.expBus = expBus]
  /\ asked' = [asked EXCEPT !.expBus = expBus, !.crc = crc]
  /\ Command /\ UNCHANGED file

\* PALETTE NONE, DEFAULT, MEM and BMP.
PaletteIs(s, wanted) == Becomes(s) /\ asked' = [asked EXCEPT !.palette = wanted] /\ Command

PaletteNone ==
  nex.f /\ ~PaletteRefused(S) /\ PaletteIs([S EXCEPT !.nex.palDefined = TRUE], <<Undefined>>)

PaletteDefault ==
  /\ nex.f /\ ~PaletteRefused(S)
  /\ LET pal == <<Piece("default", 0, PAL_SIZE)>>
     IN  PaletteIs([S EXCEPT !.nex.palDefined = TRUE, !.nex.palette = pal], <<pal>>)

PaletteFromMem(place) ==
  /\ nex.f /\ ~PaletteRefused(S) /\ Written(place) /\ ~PaletteOutside(S, place)
  /\ PaletteIs(PaletteMem(S, place), <<FromMemory(place, PAL_SIZE)>>)

PaletteFromBmp(i) ==
  /\ nex.f /\ ~PaletteRefused(S)
  /\ PaletteIs(PaletteBmp(S, i), <<BmpPalette(i)>>)

ScreenAllowed == nex.canAppend /\ nex.h.screen = {} /\ nex.lastBankIndex = -1

\* The flags of a screen with pixels, and what SCREEN2 says of the V1.3 ones.
WithScreen(s, type) ==
  IF type \in {"L2", "LR"} THEN [s EXCEPT !.nex.h.screen = @ \cup {type}]
  ELSE [s EXCEPT !.nex.h.screen = @ \cup {"EXT2"}, !.nex.h.screen2 = type]

\* The default place of the pixels: LoRes in two halves of bank 5, others in bank 9 up.
DefaultPixels(type) ==
  IF type = "LR"
  THEN <<Piece("mem", MemoryOffset(10, 0), 6144), Piece("mem", MemoryOffset(11, 0), 6144)>>
  ELSE <<Piece("mem", MemoryOffset(18, 0), PixelSize(type))>>

\* SCREEN L2, LR, L2_320, L2_640 [pixels [, palette]].
ScreenLayer2(type, place, pal) ==
  /\ ScreenAllowed
  /\ LET new == type \in {"L2_320", "L2_640"}
         a   == IF new THEN [S EXCEPT !.nex.minFileVersion = 3, !.nex.h.hiResColour = 0] ELSE S
         bad == \/ ~Written(place) \/ ~Written(pal)
                \/ place # NoPlace /\ Outside(place, PixelSize(type))
                \/ PaletteOutside(S, pal)
         pixels == IF place = NoPlace THEN DefaultPixels(type)
                   ELSE FromMemory(place, PixelSize(type))
     IN  \/ new /\ nex.reqFileVersion = 2 /\ UNCHANGED <<nex, file, asked>>
         \/ ~(new /\ nex.reqFileVersion = 2) /\ bad /\ Becomes(a) /\ UNCHANGED asked
         \/ /\ ~(new /\ nex.reqFileVersion = 2) /\ ~bad
            /\ Becomes(WriteNex(WithScreen(writePalette(PaletteMem(a, pal)), type), pixels))
            /\ asked' = [asked EXCEPT !.screen = type, !.pixels = pixels,
                                      !.colour = IF new THEN 0 ELSE @,
                                      !.palette = IF @ # Undefined THEN @
                                                  ELSE IF pal = NoPlace THEN <<Undefined>>
                                                  ELSE <<FromMemory(pal, PAL_SIZE)>>]
  /\ Command

\* SCREEN BMP i [, savePalette [, paletteOffset]].
ScreenBmp(i, savePalette, offset) ==
  /\ ScreenAllowed /\ BmpType(Bitmaps[i]) # "other"
  /\ LET type == BmpType(Bitmaps[i])
         new  == type \in {"L2_320", "L2_640"}
         a    == IF new THEN [S EXCEPT !.nex.minFileVersion = 3] ELSE S
         b    == writePalette(IF savePalette THEN PaletteBmp(a, i) ELSE a)
         c    == IF new THEN [WithScreen(b, type) EXCEPT !.nex.h.hiResColour = offset]
                 ELSE WithScreen(b, type)
         pixels == <<Piece("bmp", i, PixelSize(type))>>
     IN  IF new /\ nex.reqFileVersion = 2 THEN UNCHANGED <<nex, file, asked>>
         ELSE /\ Becomes(WriteNex(c, pixels))
              /\ asked' = [asked EXCEPT !.screen = type, !.pixels = pixels,
                                        !.colour = IF new THEN offset ELSE @,
                                        !.palette = IF @ # Undefined THEN @
                                                    ELSE <<IF savePalette THEN BmpPalette(i) ELSE Undefined>>]
  /\ Command

\* SCREEN SCR, SHC, SHR: the screens of the ULA, which have no palette in the file.
ScreenUlaTimex(type, colour) ==
  /\ ScreenAllowed
  /\ LET pixels == IF type = "ULA" THEN <<Piece("mem", MemoryOffset(10, 0), 6912)>>
                   ELSE DefaultPixels("LR")
         a == IF type = "HIRES" THEN [S EXCEPT !.nex.h.hiResColour = (colour % 8) * 8] ELSE S
     IN  /\ Becomes(WriteNex([a EXCEPT !.nex.h.screen = {type}], pixels))
         /\ asked' = [asked EXCEPT !.screen = type, !.pixels = pixels,
                                   !.colour = IF type = "HIRES" THEN colour * 8 ELSE @]
  /\ Command

ScreenTile(tiles, alsoBank5) ==
  /\ ScreenAllowed /\ nex.reqFileVersion # 2
  /\ LET a == writePalette([S EXCEPT !.nex.minFileVersion = 3])
         b == [WithScreen(a, "tilemap") EXCEPT !.nex.h.tiles = tiles]
     IN  /\ Becomes(IF alsoBank5 THEN saveBank(b, getNexBankIndex(5), 5, FALSE).s ELSE b)
         /\ asked' = [asked EXCEPT !.screen = "tilemap", !.tiles = tiles,
                                   !.palette = IF @ # Undefined THEN @ ELSE <<Undefined>>,
                                   !.banks = IF alsoBank5 THEN {5} ELSE {}]
  /\ Command

Copper(place) ==
  /\ nex.canAppend /\ nex.reqFileVersion # 2 /\ nex.lastBankIndex = -1
  /\ IF ~Written(place) \/ Outside(place, COPPER_SIZE)
     THEN nex' = [nex EXCEPT !.minFileVersion = 3] /\ UNCHANGED asked
     ELSE /\ nex' = [nex EXCEPT !.minFileVersion = 3, !.h.hasCopperCode = TRUE,
                                !.copper = FromMemory(place, COPPER_SIZE)]
          /\ asked' = [asked EXCEPT !.copper = FromMemory(place, COPPER_SIZE)]
  /\ Command /\ UNCHANGED file

\* BANK: the numbers of one line.  In order, until one is out of order, they are asked for.
InOrder(list, k) == /\ getNexBankIndex(list[k]) > nex.lastBankIndex
                    /\ \A j \in 2..k : getNexBankIndex(list[j]) > getNexBankIndex(list[j - 1])

Bank(list) ==
  /\ nex.canAppend
  /\ Becomes(SaveBanks(S, [k \in 1..Len(list) |-> getNexBankIndex(list[k])], FALSE).s)
  /\ asked' = [asked EXCEPT !.banks = @ \cup {list[k] : k \in {k \in 1..Len(list) :
                                                 \A j \in 1..k : InOrder(list, j)}}]
  /\ Command

\* AUTO [from [, to]]; -1 stands for no argument.
Auto(from, to) ==
  /\ nex.canAppend /\ nex.lastBankIndex # MAX_BANK - 1
  /\ LET lo == IF from = -1 THEN nex.lastBankIndex + 1 ELSE getNexBankIndex(from)
         hi == IF to = -1 THEN MAX_BANK - 1 ELSE getNexBankIndex(to)
         r  == SaveBanks(S, [k \in 1..hi - lo + 1 |-> lo + k - 1], TRUE)
     IN  /\ lo >= 0 /\ hi >= lo
         /\ Becomes(r.s)
         /\ asked' = IF ~r.ok THEN asked
                     ELSE [asked EXCEPT !.banks =
                             @ \cup {b \in NonZero : lo <= getNexBankIndex(b) /\ getNexBankIndex(b) <= hi}]
  /\ Command

\* The end of a file, by CLOSE or by the destructor when the program ends.
FinishNex(s, wanted) ==
  LET t == finalizeFile(s)
  IN  /\ Becomes(t)
      /\ asked' = wanted
      /\ closed' = [head |-> t.file.head, body |-> t.file.body, asked |-> wanted]
      /\ UNCHANGED commands

CloseNex(name) ==
  /\ nex.canAppend
  /\ LET added == IF name = "none" THEN <<>> ELSE <<Piece(name, 0, 100)>>
     IN  FinishNex(WriteNex(updateIfAheadFirstBankSave(S), added), [asked EXCEPT !.append = added])

\* ~SNexFile.
Exit == nex.f /\ FinishNex(S, asked)

-----------------------------------------------------------------------------
NexInit ==
  /\ nex = InitNex
  /\ file = [head |-> InitHeader, body |-> <<>>]
  /\ asked = InitAsked
  /\ closed = Nothing
  /\ commands = 0

NexNext ==
  \/ \E v \in {0, 2, 3, 4}, b \in {0, MAX_BANK} : Open(v, b)
  \/ Core(3) \/ Cfg(9, 1) \/ Bar(1, 254)
  \/ \E c \in BOOLEAN : Cfg3(c, 1)
  \/ PaletteNone \/ PaletteDefault
  \/ \E p \in Places : PaletteFromMem(p) \/ Copper(p)
  \/ \E i \in DOMAIN Bitmaps : \/ PaletteFromBmp(i)
                               \/ ScreenBmp(i, TRUE, 0) \/ ScreenBmp(i, FALSE, 5)
  \/ \E t \in {"L2", "LR", "L2_320", "L2_640"}, p, q \in Places \cup {NoPlace} :
        ScreenLayer2(t, p, q)
  \/ \E t \in {"ULA", "HICOL", "HIRES"} : ScreenUlaTimex(t, 7)
  \/ \E b \in BOOLEAN : ScreenTile(1, b)
  \/ \E a, b \in BankArgs : Bank(<<a>>) \/ Bank(<<a, b>>)
  \/ \E a, b \in BankArgs \cup {-1} : Auto(a, b)
  \/ \E n \in Appendices : CloseNex(n)
  \/ Exit

NexSpec == NexInit /\ [][NexNext]_nexVars

-----------------------------------------------------------------------------
(* A loader: it knows the header and the order of blocks, not the commands. *)

\* The pieces that lie in n bytes of the file from offset o.
Take(body, o, n) ==
  LET start == [k \in DOMAIN body |-> ftell(SubSeq(body, 1, k - 1))]
      lo    == Cardinality({k \in DOMAIN body : start[k] < o})
      hi    == Cardinality({k \in DOMAIN body : start[k] < o + n})
      taken == SubSeq(body, lo + 1, hi)
  IN  IF SizeOf(taken) = n /\ (n = 0 \/ start[lo + 1] = o) THEN taken ELSE <<Piece("cut", o, n)>>

WithPalette == {"L2", "LR", "L2_320", "L2_640", "tilemap"}

PixelsOf(kind) == CASE kind \in {"none", "tilemap"} -> 0
                    [] kind = "ULA" -> 6912
                    [] kind \in {"HIRES", "HICOL"} -> 12288
                    [] OTHER -> PixelSize(kind)

Load(head, body) ==
  LET v3     == head.version = 3
      flags  == head.screen \ {"NOPAL"}
      kind   == IF flags = {} THEN "none"
                ELSE IF "EXT2" \notin flags THEN CHOOSE t \in flags : TRUE
                ELSE IF v3 THEN head.screen2 ELSE "none"
      palLen == IF kind \in WithPalette /\ "NOPAL" \notin head.screen THEN PAL_SIZE ELSE 0
      copLen == IF v3 /\ head.hasCopperCode THEN COPPER_SIZE ELSE 0
      pixAt  == HeaderSize + palLen
      copAt  == pixAt + PixelsOf(kind)
      bankAt == IF v3 THEN head.banksOffset ELSE copAt
      Before(b) == {c \in head.banks : getNexBankIndex(c) < getNexBankIndex(b)}
      at(b)  == bankAt + BankSize * Cardinality(Before(b))
      end    == bankAt + BankSize * head.numBanks
  IN  [screen  |-> kind,
       palette |-> Take(body, HeaderSize, palLen),
       pixels  |-> Take(body, pixAt, PixelsOf(kind)),
       copper  |-> Take(body, copAt, copLen),
       banks   |-> {b \in head.banks : Take(body, at(b), BankSize) = <<Piece("mem", b * BankSize, BankSize)>>},
       append  |-> Take(body, end, ftell(body) - end),
       core    |-> head.core, ramReq |-> head.ramReq, bar |-> head.bar,
       posY    |-> IF kind \in {"L2_320", "L2_640"} THEN head.posY ELSE 0,
       colour  |-> IF kind \in {"L2_320", "L2_640", "HIRES"} THEN head.hiResColour ELSE 0,
       tiles   |-> IF kind = "tilemap" THEN head.tiles ELSE 0,
       expBus  |-> IF v3 THEN head.expBus ELSE 0,
       crc     |-> v3 /\ head.hasChecksum]

\* What the loader should find: a palette needs a screen that has one.
Wanted(a) ==
  [a EXCEPT !.palette = IF a.screen \in WithPalette THEN @[1] ELSE <<>>,
            !.posY    = IF a.screen \in {"L2_320", "L2_640"} THEN @ ELSE 0,
            !.colour  = IF a.screen \in {"L2_320", "L2_640", "HIRES"} THEN @ ELSE 0]

\* The pixel <<x, y>> of the picture as the hardware addresses the stored bytes.
PictureIsKept(b, w, h) ==
  LET bytes == BmpBytes(b, w, h)
      shown(x, y) == CASE BmpType(b) \in {"L2", "LR"} -> bytes[y * w + x + 1][1]
                       [] BmpType(b) = "L2_320" -> bytes[x * h + y + 1][1]
                       [] BmpType(b) = "L2_640" -> bytes[(x \div 2) * h + y + 1][(x % 2) + 1]
  IN  \A x \in 0..w - 1, y \in 0..h - 1 : shown(x, y) = <<x, IF b.up THEN h - 1 - y ELSE y>>

\* A closed file read by a loader that trusts only the header gives the palette, the pixels,
\* the copper code, the banks and the settings that the accepted commands asked for, in
\* whatever order they were given and after any file that was closed before: the blocks that
\* io_nex.cpp writes, their order and the offset of the first bank agree with the header.
LoaderReadsBack ==
  closed # Nothing =>
    /\ Load(closed.head, closed.body) = Wanted(closed.asked)
    /\ \A p \in Range(closed.body) : p.src = "bmp" => PictureIsKept(Bitmaps[p.at], 4, 3)

\* The checksum in the header is that of the file as it is ("CRC-32C build by: file offset
\* 512->EOF (including append bin), then 508B header", io_nex.cpp).
ChecksumCoversFile ==
  closed.head.hasChecksum =>
    closed.head.crc32c = <<closed.body, [closed.head EXCEPT !.crc32c = <<>>]>>

=============================================================================
