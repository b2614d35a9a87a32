------------------------------ MODULE Devices ------------------------------
(***************************************************************************)
(* The devices a source selects: DEFDEVICE, DEVICE, sj.set_device, the list of  *)
(* devices of a pass with their memory, and the device that becomes global      *)
(* when a single DEVICE was met.                                             *)
(*                                                                         *)
(* An id is <<name, letters>>, letters "upper", "lower" or "mixed".  A memory    *)
(* is the function from the <<page, offset>> written so far to the line that    *)
(* wrote there last.                                                         *)
(***************************************************************************)
EXTENDS Integers, Sequences, SequencesExt, FiniteSets, FiniteSetsExt

CONSTANT DevicePrograms   \* bound: [lines |-> <<...>>, i8080 |-> BOOLEAN]

VARIABLES
  devProg,   \* the source and the mode of the assembler
  dv         \* the state: see NoDevices

deviceVars == <<devProg, dv>>

AddressSpace == 65536
MAX_SLOT_N == 256
MAX_PAGE_N == 4096
LABEL_PAGE_MAX_RAM == 30000
ZX_RAMTOP_DEFAULT == 23899      \* 0x5D5B
ZX_RAMTOP_MIN == 23808          \* 0x5D00
NoRamtop == 0
LastOfPasses == 3

-----------------------------------------------------------------------------
(* Kinds of devices: the size of a slot, pages, the initial page of each slot.  *)

Geometry(size, pages, initial) == [size |-> size, pages |-> pages, initial |-> initial]
initialPagesZx128 == <<7, 5, 2, 0>>
ZxPages == [ZXSPECTRUM128 |-> 8, ZXSPECTRUM256 |-> 16, ZXSPECTRUM512 |-> 32, ZXSPECTRUM1024 |-> 64,
            ZXSPECTRUM2048 |-> 128, ZXSPECTRUM4096 |-> 256, ZXSPECTRUM8192 |-> 512]
Plain16k(pages) == Geometry(16384, pages, <<0, 1, 2, 3>>)
OtherDevices ==
  [ZXSPECTRUM48   |-> Plain16k(4),
   ZXSPECTRUMNEXT |-> Geometry(8192, 224, <<14, 15, 10, 11, 4, 5, 0, 1>>),
   ELEMENT        |-> Geometry(8192, 2560, <<0, 1, 2, 3, 4, 5, 6, 7>>),
   NOSLOT64K      |-> Geometry(65536, 32, <<0>>),
   AMSTRADCPC464  |-> Plain16k(4),
   AMSTRADCPC6128 |-> Plain16k(8),
   AMSTRADCPCPLUS |-> Plain16k(32)]
BuiltIn == DOMAIN ZxPages \cup DOMAIN OtherDevices
GeometryOf(name) ==
  IF name \in DOMAIN ZxPages THEN Geometry(16384, ZxPages[name], initialPagesZx128) ELSE OtherDevices[name]

IsZXSpectrumDevice(name)  == name = "ZXSPECTRUM48" \/ name \in DOMAIN ZxPages

ValidRamtop(ramtop) == ramtop = -1 \/ (ZX_RAMTOP_MIN <= ramtop /\ ramtop < AddressSpace)

\* initRegularSlotDevice and, with a RAMTOP, initZxLikeDevice
NewDevice(id, geometry, ZxRamTop) ==
  [id |-> id, size |-> geometry.size, pages |-> geometry.pages, map |-> geometry.initial,
   slot |-> Len(geometry.initial), mem |-> <<>>, ZxRamTop |-> ZxRamTop]
ZxDevice(name, ramtop) ==
  NewDevice(<<name, "upper">>, GeometryOf(name), IF ValidRamtop(ramtop) THEN ramtop ELSE ZX_RAMTOP_DEFAULT)

-----------------------------------------------------------------------------
(* SetDevice.  Device is dv.dev, an index of the list; DeviceID is its id if dv.on.  *)

Warn(s, id) == IF s.pass = LastOfPasses THEN [s EXCEPT !.warned = @ \cup {<<s.i, id>>}] ELSE s
Fail(s)     == [s EXCEPT !.errors = TRUE]
Fatal(s)    == [s EXCEPT !.errors = TRUE, !.fatal = TRUE]

\* cmphstr takes a name in capitals or in small letters, strcasecmp any spelling.
IsBuiltIn(id) == id[1] \in BuiltIn /\ id[2] # "mixed"
UserDefined(s, id) == {k \in DOMAIN s.defs : s.defs[k].id[1] = id[1]}

Select(s, k) == [s EXCEPT !.dev = k, !.on = TRUE]
AddDevice(s, device) == Select([s EXCEPT !.list = Append(@, device)], Len(s.list) + 1)

\* The DeviceXXX functions and SetUserDefinedDevice; what is unknown is not selected.
CreateDevice(s, id, ramtop) ==
  LET warned == IF ramtop # NoRamtop THEN Warn(s, "noramtop") ELSE s
      def    == s.defs[CHOOSE k \in UserDefined(s, id) : TRUE]
  IN  IF IsBuiltIn(id)
      THEN IF IsZXSpectrumDevice(id[1]) THEN AddDevice(s, ZxDevice(id[1], ramtop))
           ELSE LET device == NewDevice(<<id[1], "upper">>, GeometryOf(id[1]), 0)
                IN  IF id[1] # "ZXSPECTRUMNEXT" THEN AddDevice(warned, device)
                    ELSE IF devProg.i8080 THEN Fatal(warned)
                    ELSE [AddDevice(warned, device) EXCEPT !.next = TRUE]
      ELSE IF UserDefined(s, id) = {} THEN s
      ELSE IF def.geometry.pages > MAX_PAGE_N THEN Fatal(warned)
      ELSE AddDevice(warned, NewDevice(def.id, def.geometry, 0))

IsNone(id) == id[1] = "NONE" /\ id[2] # "mixed"
DeviceID(s) == IF s.on THEN s.list[s.dev].id ELSE <<"NONE", "upper">>
RamtopDiffers(s, ramtop) == s.on /\ ramtop # NoRamtop /\ s.list[s.dev].ZxRamTop \notin {0, ramtop}
CheckRamtop(s, ramtop) == IF RamtopDiffers(s, ramtop) THEN Warn(s, "devramtop") ELSE s

\* mutant: the device that was left is made anew
FindDevice_anew(s, id, ramtop) == CreateDevice([s EXCEPT !.on = FALSE], id, ramtop)

\* The list is searched for the very id; what is not there is made.
FindDevice(s, id, ramtop) ==
  LET same == {k \in DOMAIN s.list : s.list[k].id = id}
  IN  IF same # {} THEN Select(s, Min(same)) ELSE CreateDevice([s EXCEPT !.on = FALSE], id, ramtop)

SetDevice(s, id, ramtop) ==
  IF IsNone(id) THEN [s EXCEPT !.dev = 0, !.on = FALSE]
  ELSE CheckRamtop(IF s.on /\ DeviceID(s) = id THEN s ELSE FindDevice(s, id, ramtop), ramtop)

-----------------------------------------------------------------------------
(* DEFDEVICE.                                                              *)

\* The arguments, numbered from 0, and the values of those that are missing
ArgumentsMax == 2 + MAX_SLOT_N
Optional(i) == i \in 2..(MAX_SLOT_N - 1)
Argument(args, i) == IF i < Len(args) THEN args[i + 1] ELSE IF Optional(i) THEN -1 ELSE 0
getIntArguments(args) == Len(args) \in 2..ArgumentsMax /\ (Len(args) < ArgumentsMax => Optional(Len(args)))

SlotsCount(args) == (AddressSpace + args[1] - 1) \div args[1]
ValidPage(args, slot) == Argument(args, slot + 2) \in 0..(args[2] - 1)
initialPages(args) ==
  LET next(previous) == IF previous < args[2] - 1 THEN previous + 1 ELSE previous
      add(pages, slot) ==
        Append(pages, IF ValidPage(args, slot) THEN Argument(args, slot + 2)
                      ELSE next(IF pages = <<>> THEN -1 ELSE pages[Len(pages)]))
  IN  FoldLeft(add, <<>>, [i \in 1..SlotsCount(args) |-> i - 1])
WrongPage(args) == \E slot \in 0..(SlotsCount(args) - 1) : ~ValidPage(args, slot) /\ Argument(args, slot + 2) # -1

\* Only the first pass defines a device.
dirDEFDEVICE(s, id, args) ==
  IF s.pass > 1 THEN s
  ELSE IF UserDefined(s, id) # {} \/ ~getIntArguments(args) THEN Fail(s)
  ELSE IF args[1] \notin (AddressSpace \div MAX_SLOT_N)..AddressSpace \/ args[2] \notin 1..LABEL_PAGE_MAX_RAM THEN Fail(s)
  ELSE [(IF WrongPage(args) THEN Fail(s) ELSE s) EXCEPT
          !.defs = Append(@, [id |-> id, geometry |-> Geometry(args[1], args[2], initialPages(args))])]

-----------------------------------------------------------------------------
(* DEVICE and its binding to Lua.                                          *)

\* The count says whether there is a single DEVICE in the text.
Counted(s) == [s EXCEPT !.count = @ + 1]

dirDEVICE(s0, id, ramtop) ==
  LET s == Counted(s0)
      set == SetDevice(s, id, ramtop)
  IN  IF ramtop # NoRamtop /\ ~ValidRamtop(ramtop) THEN Fail(s)
      ELSE IF s.count = 1 /\ s.list # <<>> THEN s
      ELSE IF ~set.on /\ ~IsNone(id) THEN Fail(set) ELSE set

lua_sj_set_device(s, id, ramtop) == SetDevice(Counted(s), id, ramtop)

\* SLOT looks at DeviceID, PAGE at Device, a byte at DeviceID.
dirSLOT(s, n) == IF ~s.on THEN s ELSE IF n >= Len(s.list[s.dev].map) THEN Fail(s) ELSE [s EXCEPT !.list[s.dev].slot = n + 1]
dirPAGE(s, n) ==
  IF s.dev = 0 THEN s
  ELSE IF n >= s.list[s.dev].pages THEN Fail(s)
  ELSE [s EXCEPT !.list[s.dev].map[s.list[s.dev].slot] = n]
EmitAt(s, a) ==
  IF ~s.on THEN s
  ELSE LET d == s.list[s.dev]
           cell == <<d.map[a \div d.size + 1], a % d.size>>
       IN  [s EXCEPT !.list[s.dev].mem = [c \in DOMAIN @ \cup {cell} |-> IF c = cell THEN s.i ELSE @[c]]]

-----------------------------------------------------------------------------
(* Steps: the lines of the source in three passes.                          *)

LineHere == devProg.lines[dv.i + 1]
Does(dir, s) == /\ ~dv.fatal /\ dv.pass > 0 /\ dv.i < Len(devProg.lines) /\ LineHere.dir = dir
                /\ dv' = s /\ UNCHANGED devProg
Here == [dv EXCEPT !.i = @ + 1]

DefDevice  == Does("DEFDEVICE", dirDEFDEVICE(Here, LineHere.id, LineHere.args))
DeviceLine == Does("DEVICE", dirDEVICE(Here, LineHere.id, LineHere.ramtop))
LuaDevice  == Does("set_device", lua_sj_set_device(Here, LineHere.id, LineHere.ramtop))
Slot       == Does("SLOT", dirSLOT(Here, LineHere.n))
PageLine   == Does("PAGE", dirPAGE(Here, LineHere.n))
Byte       == Does("DB", EmitAt(Here, LineHere.n))

\* InitPass: the only device of the pass before is selected from the start.
InitDevices ==
  /\ ~dv.fatal /\ dv.pass < LastOfPasses /\ (dv.pass > 0 => dv.i = Len(devProg.lines))
  /\ LET start == [dv EXCEPT !.pass = @ + 1, !.i = 0, !.list = <<>>, !.dev = 0, !.on = FALSE, !.count = 0, !.next = FALSE]
     IN  dv' = IF dv.count = 1 /\ dv.list # <<>>
               THEN SetDevice(start, dv.list[1].id, dv.list[1].ZxRamTop) ELSE start
  /\ UNCHANGED devProg

\* The state: the pass and the line, DefDevices, Devices, Device and whether DeviceID is
\* set, deviceDirectivesCount, IsNextEnabled; warnings told and errors met.
NoDevices ==
  [pass |-> 0, i |-> 0, defs |-> <<>>, list |-> <<>>, dev |-> 0, on |-> FALSE, count |-> 0,
   next |-> FALSE, warned |-> {}, errors |-> FALSE, fatal |-> FALSE]

DevicesInit == devProg \in DevicePrograms /\ dv = NoDevices

DevicesNext == DefDevice \/ DeviceLine \/ LuaDevice \/ Slot \/ PageLine \/ Byte \/ InitDevices

DevicesSpec == DevicesInit /\ [][DevicesNext]_deviceVars

-----------------------------------------------------------------------------
(* What the text says, for a text without errors.                           *)

SourceLine(i) == devProg.lines[i]
Selections == {i \in DOMAIN devProg.lines : SourceLine(i).dir \in {"DEVICE", "set_device"}}
\* The line whose device is selected when line i is assembled in the last passes; 0 is none
SelectedBy(i) ==
  LET before == {j \in Selections : j <= i}
  IN  IF Cardinality(Selections) = 1 THEN Min(Selections)
      ELSE IF before = {} THEN 0 ELSE Max(before)

\* The definition of a name: a line of the text, or one of the program's own
DefinedAt(name) == {j \in DOMAIN devProg.lines : SourceLine(j).dir = "DEFDEVICE" /\ SourceLine(j).id[1] = name}
Known(id) == IsBuiltIn(id) \/ DefinedAt(id[1]) # {}
NameAt(i) ==
  IF SelectedBy(i) = 0 \/ ~Known(SourceLine(SelectedBy(i)).id) THEN <<"NONE", "upper">> ELSE SourceLine(SelectedBy(i)).id

DocumentedPages(name) ==
  LET args == SourceLine(Min(DefinedAt(name))).args
  IN  IF DefinedAt(name) = {} THEN GeometryOf(name).initial
      ELSE [s \in 1..SlotsCount(args) |-> IF s + 2 <= Len(args) THEN args[s + 2] ELSE Min({s, args[2]}) - 1]
SizeOfSlot(name) == IF DefinedAt(name) = {} THEN GeometryOf(name).size ELSE SourceLine(Min(DefinedAt(name))).args[1]

\* Lines of a directive that speak to the same device as line i, before it
Same(dir, i) == {j \in 1..i : SourceLine(j).dir = dir /\ NameAt(j) = NameAt(i)}
SlotAt(i) == IF Same("SLOT", i) = {} THEN Len(DocumentedPages(NameAt(i)[1])) ELSE SourceLine(Max(Same("SLOT", i))).n + 1
PageAt(i, slot) ==
  LET changed == {j \in Same("PAGE", i) : SlotAt(j) = slot}
  IN  IF changed = {} THEN DocumentedPages(NameAt(i)[1])[slot] ELSE SourceLine(Max(changed)).n
CellOf(i) ==
  LET size == SizeOfSlot(NameAt(i)[1])
  IN  <<PageAt(i, SourceLine(i).n \div size + 1), SourceLine(i).n % size>>

RamtopOf(id) ==
  LET ramtop == SourceLine(Min({j \in Selections : SourceLine(j).id = id})).ramtop
  IN  IF ramtop = NoRamtop THEN ZX_RAMTOP_DEFAULT ELSE ramtop

\* Ids that are written as they are defined
WrittenAsDefined(id) == id[2] = (IF DefinedAt(id[1]) = {} THEN "upper" ELSE SourceLine(Min(DefinedAt(id[1]))).id[2])
Settled == dv.pass > 1 /\ ~dv.errors

-----------------------------------------------------------------------------
(* Properties.                                                             *)

\* In every pass but the first the device of a line is the one that the last DEVICE or
\* sj.set_device before it names, or the only one of the text, from the first line on;
\* its slots have the pages that its own SLOT and PAGE lines gave them, also
\* after other devices were used, and its memory has every byte that a line
\* wrote into it; its RAMTOP is the one of the line that named it first, and
\* the instructions of the ZX Next are there with its device.
DevicesAreKept ==
  Settled => LET i == dv.i
                 d == dv.list[dv.dev]
                 written == {j \in Same("DB", i) : CellOf(j) \notin {CellOf(k) : k \in {k \in Same("DB", i) : k > j}}}
             IN  /\ DeviceID(dv)[1] = NameAt(i)[1]
                 /\ dv.on /\ (\A j \in Selections : WrittenAsDefined(SourceLine(j).id)) =>
                      /\ d.map = [s \in DOMAIN d.map |-> PageAt(i, s)]
                      /\ d.mem = [c \in {CellOf(j) : j \in written} |-> CHOOSE j \in written : CellOf(j) = c]
                      /\ IsZXSpectrumDevice(d.id[1]) => d.ZxRamTop = RamtopOf(d.id)
                 /\ dv.on /\ d.id[1] = "ZXSPECTRUMNEXT" => dv.next

\* DEFDEVICE: pages go from 0 up and the last one repeats, unless they are given.
PagesAsDocumented ==
  \A k \in DOMAIN dv.defs :
    LET args == SourceLine(Min(DefinedAt(dv.defs[k].id[1]))).args
    IN  ~dv.errors /\ (Len(args) = 2 \/ Len(args) = 2 + SlotsCount(args)) => dv.defs[k].geometry.initial = DocumentedPages(dv.defs[k].id[1])
=============================================================================
