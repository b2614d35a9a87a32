---------------------------- MODULE DeviceMemory ----------------------------
(***************************************************************************)
(* The emulated memory of sjasmplus and the way three assembly passes      *)
(* write machine code into it.                                             *)
(*                                                                         *)
(* The Z80 sees AddressSpace addresses through SlotsCount slots; each slot *)
(* maps one of PagesCount pages.  CDevice::CheckPage decides, before every *)
(* emitted byte and at the beginning of every source line, where the next  *)
(* byte belongs.  It keeps four caches (previousSlotI, previousSlotOpt,    *)
(* Page and MemoryPointer) that the directives ORG, DISP, ENT, PAGE, MMU,  *)
(* SLOT, BLOCK, ALIGN, INCBIN and DEVICE invalidate in different ways.     *)
(*                                                                         *)
(* A source program is a sequence of lines.  Pass 1 lets it grow line by   *)
(* line out of the set Lines; passes 2 and 3 assemble the same lines       *)
(* again.  Every line begins with a label, whose value and page are what   *)
(* the rest of the assembler sees of the memory layout.                    *)
(***************************************************************************)
EXTENDS Integers, Sequences

CONSTANTS
    SlotsCount,      \* number of slots of the device
    SlotSize,        \* bytes in a slot, and in a page
    PagesCount,      \* number of pages of the device
    InitialPages,    \* page mapped into each slot when the device is created
    AddressSpace,    \* 0x10000 in the code
    IsLongPtr,       \* command line option --longptr
    Lines,           \* source lines a program may consist of
    Prelude,         \* lines every program begins with
    MaxLines         \* bound: number of lines of a program

LASTPASS == 3
Slots == 0 .. SlotsCount - 1
Pages == 0 .. PagesCount - 1
NoArg == -1                  \* an optional argument that is not given
LABEL_PAGE_UNDEFINED == -1
LABEL_PAGE_OUT_OF_BOUNDS == -2
LABEL_PAGE_ROM == -3         \* the page of every label without a device
Null == [page |-> -1, off |-> -1]
SlotOptions == {"O_NONE", "O_ERROR", "O_WARNING", "O_NEXT"}
DeviceNames == {"NONE", "DEV", "UNKNOWN"}

(***************************************************************************)
(* The lines of a program: one directive with its evaluated arguments.     *)
(* Every instruction and data definition is a "DB" of some bytes.          *)
(***************************************************************************)
LineType ==
       [dir : {"ORG", "DISP"}, addr : Int, page : Int]
  \cup [dir : {"ENT"}]
  \cup [dir : {"PAGE"}, page : Int]
  \cup [dir : {"MMU"}, slot1 : Int, slot2 : Int, opt : SlotOptions,
        page : Int, addr : Int]
  \cup [dir : {"SLOT"}, slot : Int]
  \cup [dir : {"BLOCK"}, len : Int]
  \cup [dir : {"DB", "INCBIN"}, len : Nat]
  \cup [dir : {"ALIGN"}, align : Nat \ {0}, fill : BOOLEAN]
  \cup [dir : {"DEVICE"}, id : DeviceNames]

ASSUME SlotsAssumption == SlotsCount \in Nat \ {0} /\ SlotSize \in Nat \ {0}
ASSUME PagesAssumption == /\ PagesCount \in Nat \ {0}
                          /\ InitialPages \in [Slots -> Pages]
\* DEFDEVICE rounds the number of slots up: the last slot may overshoot.
ASSUME SpaceAssumption == /\ AddressSpace \in Nat \ {0}
                          /\ (SlotsCount - 1) * SlotSize < AddressSpace
                          /\ AddressSpace <= SlotsCount * SlotSize
ASSUME LinesAssumption == /\ IsLongPtr \in BOOLEAN
                          /\ Lines \subseteq LineType
                          /\ Prelude \in Seq(Lines)
                          /\ MaxLines \in Nat

VARIABLES
    m,          \* the assembler's globals and the CDevice object, a record
    mem,        \* contents of the pages: the number of the line that wrote
    pass, pc,   \* current pass and line
    phase,      \* "line", "parse", "emit", "endpass" or "exit"
    prog,       \* the lines read so far
    todo,       \* bytes the current line still has to emit
    preserve,   \* EmitBlock's preserveDeviceMemory for those bytes
    labels,     \* ghost: what pass 2 recorded at each line
    excursion   \* ghost: is the emission outside of memory, and reported?

vars == <<m, mem, pass, pc, phase, prog, todo, preserve, labels, excursion>>

\* Device->Memory is seen as pages; Null is the null pointer.
Pointers == [page : Pages, off : Int] \cup {Null}

Machine ==
  [CurAddress : Int, adrdisp : Int, PseudoORG : BOOLEAN, dispPageNum : Int,
   DeviceID : BOOLEAN,         \* is a device selected?
   Devices : BOOLEAN,          \* was the device created in this pass?
   deviceDirectivesCount : Nat,
   slotPage : [Slots -> Pages], slotOption : [Slots -> SlotOptions],
   CurrentSlot : Slots,
   previousSlotI : Slots, previousSlotOpt : SlotOptions,
   limitExceeded : BOOLEAN,
   Page : Pages \cup {NoArg},
   MemoryPointer : Pointers,
   reports : Nat,              \* diagnostics of CheckPage shown so far
   fatal : BOOLEAN]

----------------------------------------------------------------------------
(* Slots and pages *)

Address(i) == i * SlotSize
InSlot(i, a) == Address(i) <= a /\ a < Address(i) + SlotSize

\* The slot CheckPage's loop stops at: the last one that starts at or below a.
SlotBelow(a) ==
  CHOOSE i \in Slots : Address(i) <= a /\ \A j \in Slots : i < j => a < Address(j)

GetSlotOfA16(a) ==
  IF \E i \in Slots : InSlot(i, a) THEN CHOOSE i \in Slots : InSlot(i, a) ELSE -1

GetPageOfA16(s, a) ==
  IF GetSlotOfA16(a) = -1 THEN LABEL_PAGE_OUT_OF_BOUNDS
                          ELSE s.slotPage[GetSlotOfA16(a)]

SlotNumberFromPreciseAddress(a) ==
  IF SlotsCount <= a /\ GetSlotOfA16(a) # -1 /\ Address(GetSlotOfA16(a)) = a
  THEN GetSlotOfA16(a) ELSE a

\* Where the bytes go, as opposed to the address the code is assembled for.
LongAddr(s) == IF s.PseudoORG THEN s.adrdisp ELSE s.CurAddress
SetLongAddr(s, a) == IF s.PseudoORG THEN [s EXCEPT !.adrdisp = a]
                                    ELSE [s EXCEPT !.CurAddress = a]

Report(s, n) == [s EXCEPT !.reports = IF pass = LASTPASS THEN @ + n ELSE @]

----------------------------------------------------------------------------
(* CDevice::CheckPage; level is "RESET", "EMIT" or "NO_EMIT" *)

\* Mutant: an emitted byte does not wrap the displaced address.
DispWrapOnReset(s, level) ==
  IF s.PseudoORG /\ level = "RESET" /\ AddressSpace <= s.CurAddress
  THEN [s EXCEPT !.CurAddress = @ % AddressSpace] ELSE s

\* The displaced address wraps, but labels may see AddressSpace itself.
DispWrap(s, level) ==
  IF s.PseudoORG /\ level # "NO_EMIT" /\ AddressSpace <= s.CurAddress
  THEN [s EXCEPT !.CurAddress = @ % AddressSpace] ELSE s

\* Mutant: the displaced address is taken for the place of the byte.
PointerFromDisplaced(s, i) ==
  [page |-> s.slotPage[i], off |-> (s.CurAddress - Address(i)) % SlotSize]

PointerInto(s, i) == [page |-> s.slotPage[i], off |-> LongAddr(s) - Address(i)]

Locate(s, i) ==
  [s EXCEPT !.Page = s.slotPage[i],
            !.MemoryPointer = IF InSlot(i, LongAddr(s)) THEN PointerInto(s, i)
                                                        ELSE Null]

EnterSlot(s, i) ==
  [s EXCEPT !.previousSlotI = i, !.previousSlotOpt = s.slotOption[i]]

\* "refresh check slot settings (only in CHECK_EMIT case)"
Settle(s, i, level) ==
  IF level = "EMIT"
  THEN EnterSlot([s EXCEPT !.limitExceeded = @ /\ s.previousSlotI = i], i)
  ELSE s

Complains(s, level) == pass = LASTPASS /\ level = "EMIT" /\ ~s.limitExceeded

\* O_ERROR and O_WARNING slots.
LeaveGuardedSlot(s, i, level) ==
  Settle(IF Complains(s, level)
         THEN [s EXCEPT !.limitExceeded = TRUE, !.reports = @ + 1] ELSE s,
         i, level)

\* Mutant: bytes behind the memory are not reported.
LeavePlainSlotQuietly(s, i, level) == Settle(s, i, level)

\* Slots without an option: only bytes that have no memory are reported.
LeavePlainSlot(s, i, level) ==
  Settle(IF Complains(s, level) /\ s.MemoryPointer = Null
         THEN [s EXCEPT !.limitExceeded = TRUE, !.reports = @ + 1,
                        !.previousSlotI = i]
         ELSE s,
         i, level)

\* Mutant: the address does not go back to the beginning of the slot.
WrapWithoutMoving(s, i, level) ==
  LET prev == s.previousSlotI
      next == s.slotPage[prev] + 1
  IN  IF PagesCount <= next
      THEN Settle(EnterSlot([Report(s, 1) EXCEPT !.slotOption[prev] = "O_NONE",
                                                 !.limitExceeded = FALSE], i),
                  i, level)
      ELSE [s EXCEPT !.slotPage[prev] = next, !.Page = next,
                     !.MemoryPointer = [page |-> next, off |-> 0]]

\* Mutant: one page too many is mapped.
WrapPastLastPage(s, i, level) ==
  LET prev == s.previousSlotI
      next == s.slotPage[prev] + 1
  IN  IF PagesCount < next
      THEN Settle(EnterSlot([Report(s, 1) EXCEPT !.slotOption[prev] = "O_NONE",
                                                 !.limitExceeded = FALSE], i),
                  i, level)
      ELSE [SetLongAddr(s, LongAddr(s) - SlotSize)
              EXCEPT !.slotPage[prev] = next, !.Page = next,
                     !.MemoryPointer = [page |-> next, off |-> 0]]

\* O_NEXT slots map the next page and wrap the address.
LeaveWrappingSlot(s, i, level) ==
  LET prev == s.previousSlotI
      next == s.slotPage[prev] + 1
  IN  IF PagesCount <= next
      THEN Settle(EnterSlot([Report(s, 1) EXCEPT !.slotOption[prev] = "O_NONE",
                                                 !.limitExceeded = FALSE], i),
                  i, level)
      ELSE IF LongAddr(s) # Address(prev) + SlotSize
      THEN [s EXCEPT !.fatal = TRUE]
      ELSE [SetLongAddr(s, LongAddr(s) - SlotSize)
              EXCEPT !.slotPage[prev] = next, !.Page = next,
                     !.MemoryPointer = [page |-> next, off |-> 0]]

LeaveSlot(s, i, level) ==
  CASE s.previousSlotOpt \in {"O_ERROR", "O_WARNING"} -> LeaveGuardedSlot(s, i, level)
    [] s.previousSlotOpt = "O_NEXT" -> LeaveWrappingSlot(s, i, level)
    [] OTHER -> LeavePlainSlot(s, i, level)

\* Mutant: an old excursion keeps the next one from being reported.
CheckResetKeepsLimit(s0) ==
  LET s == DispWrap(s0, "RESET")
      i == SlotBelow(LongAddr(s) % AddressSpace)
  IN  EnterSlot(Locate(s, i), i)

\* Mutant: the slot is left as it was, only the pointer is found again.
CheckResetKeepsSlot(s0) ==
  LET s == DispWrap(s0, "RESET")
      i == SlotBelow(LongAddr(s) % AddressSpace)
  IN  [Locate(s, i) EXCEPT !.limitExceeded = FALSE]

CheckReset(s0) ==
  LET s == DispWrap(s0, "RESET")
      i == SlotBelow(LongAddr(s) % AddressSpace)
  IN  [EnterSlot(Locate(s, i), i) EXCEPT !.limitExceeded = FALSE]

CheckPage(s0, level) ==
  LET s == DispWrap(s0, level)
      i == SlotBelow(LongAddr(s) % AddressSpace)
  IN  IF InSlot(s.previousSlotI, LongAddr(s))
      THEN [s EXCEPT !.MemoryPointer = PointerInto(s, s.previousSlotI)]
      ELSE LeaveSlot(Locate(s, i), i, level)

----------------------------------------------------------------------------
(* Moving the output address *)

CheckRamLimitExceeded(s) ==
  IF ~IsLongPtr /\ s.PseudoORG /\ AddressSpace <= s.CurAddress
  THEN [s EXCEPT !.CurAddress = @ % AddressSpace] ELSE s

Move(s, n) == [s EXCEPT !.CurAddress = @ + n,
                        !.adrdisp = IF s.PseudoORG THEN @ + n ELSE @]

MovePointer(s, n) ==
  IF s.MemoryPointer = Null THEN s ELSE [s EXCEPT !.MemoryPointer.off = @ + n]

Crop(s, a) == IF s.DeviceID \/ ~IsLongPtr THEN a % AddressSpace ELSE a

----------------------------------------------------------------------------
(* Directives that change the mapping or the address *)

\* Mutant: the mapping changes behind the back of CheckPage.
dirPageImplNoReset(s, page) ==
  IF page \in Pages THEN [s EXCEPT !.slotPage[s.CurrentSlot] = page] ELSE s

dirPageImpl(s, page) ==
  IF page \in Pages
  THEN CheckReset([s EXCEPT !.slotPage[s.CurrentSlot] = page])
  ELSE s

dirORG(s, line) ==
  LET moved == [s EXCEPT !.CurAddress = Crop(s, line.addr)]
  IN  IF ~s.DeviceID THEN moved
      ELSE IF line.page = NoArg THEN CheckReset(moved)
      ELSE dirPageImpl(moved, line.page)

\* A DISP inside another one is ignored, so is one with a wrong page.
dirDISP(s, line) ==
  IF s.PseudoORG \/ (line.page # NoArg /\ ~(s.DeviceID /\ line.page \in Pages))
  THEN s
  ELSE [s EXCEPT !.adrdisp = s.CurAddress, !.CurAddress = Crop(s, line.addr),
                 !.dispPageNum = line.page, !.PseudoORG = TRUE]

dirENT(s) ==
  IF ~s.PseudoORG THEN s
  ELSE [s EXCEPT !.CurAddress = s.adrdisp, !.PseudoORG = FALSE,
                 !.dispPageNum = LABEL_PAGE_UNDEFINED]

dirPAGE(s, line) == IF s.DeviceID THEN dirPageImpl(s, line.page) ELSE s

dirMMU(s, line) ==
  LET slot1 == SlotNumberFromPreciseAddress(line.slot1)
      slot2 == SlotNumberFromPreciseAddress(line.slot2)
      range == slot1 .. slot2
      mapped == [s EXCEPT
                   !.slotPage = [i \in Slots |-> IF i \in range
                                                 THEN line.page + (i - slot1) ELSE @[i]],
                   !.slotOption = [i \in Slots |-> IF i \in range THEN line.opt
                                                                  ELSE @[i]]]
      wrapped == SetLongAddr(mapped, LongAddr(mapped) % AddressSpace)
  IN  IF /\ s.DeviceID
         /\ slot1 \in Slots /\ slot2 \in Slots /\ slot1 <= slot2
         /\ line.page \in Pages /\ line.page + (slot2 - slot1) \in Pages
      THEN CheckReset(IF line.addr = NoArg THEN wrapped
                      ELSE [wrapped EXCEPT !.CurAddress = line.addr % AddressSpace])
      ELSE s

dirSLOT(s, line) ==
  LET slot == SlotNumberFromPreciseAddress(line.slot)
  IN  IF s.DeviceID /\ slot \in Slots THEN [s EXCEPT !.CurrentSlot = slot] ELSE s

\* A device found in the list keeps its mapping; an unknown one selects none.
SetDevice(s, id) ==
  LET created == IF s.Devices THEN s
                 ELSE [s EXCEPT !.Devices = TRUE, !.slotPage = InitialPages,
                                !.slotOption = [i \in Slots |-> "O_NONE"],
                                !.CurrentSlot = SlotsCount - 1]
  IN  CASE id = "DEV" /\ ~s.DeviceID -> CheckReset([created EXCEPT !.DeviceID = TRUE])
        [] id = "DEV" /\ s.DeviceID -> s
        [] OTHER -> [s EXCEPT !.DeviceID = FALSE]

\* The first DEVICE line does nothing when the device is already global.
dirDEVICE(s0, line) ==
  LET s == [s0 EXCEPT !.deviceDirectivesCount = @ + 1]
  IN  IF 1 < s.deviceDirectivesCount \/ ~s.Devices THEN SetDevice(s, line.id) ELSE s

\* EmitBlock with nothing to emit still moves the address.
MoveBack(s, n) ==
  LET moved == Move(s, n)
  IN  IF s.DeviceID THEN CheckPage(moved, "NO_EMIT") ELSE CheckRamLimitExceeded(moved)

----------------------------------------------------------------------------
(* What a label records of the memory layout *)

getAddressPageNumber(s, a) ==
  IF ~s.DeviceID THEN LABEL_PAGE_ROM
  ELSE IF ~s.PseudoORG /\ InSlot(s.CurrentSlot, a) THEN s.Page
  ELSE IF s.PseudoORG /\ s.dispPageNum # LABEL_PAGE_UNDEFINED THEN s.dispPageNum
  ELSE GetPageOfA16(s, a)

Label(s) == [value |-> s.CurAddress, page |-> getAddressPageNumber(s, s.CurAddress),
             physical |-> LongAddr(s), mapping |-> s.slotPage]

----------------------------------------------------------------------------
(* Passes *)

InitialMachine ==
  [CurAddress |-> 0, adrdisp |-> 0, PseudoORG |-> FALSE,
   dispPageNum |-> LABEL_PAGE_UNDEFINED, DeviceID |-> FALSE, Devices |-> FALSE,
   deviceDirectivesCount |-> 0, slotPage |-> InitialPages,
   slotOption |-> [i \in Slots |-> "O_NONE"], CurrentSlot |-> SlotsCount - 1,
   previousSlotI |-> 0, previousSlotOpt |-> "O_NONE", limitExceeded |-> FALSE,
   Page |-> NoArg, MemoryPointer |-> Null, reports |-> 0, fatal |-> FALSE]

EmptyMemory == [p \in Pages |-> [o \in 0 .. SlotSize - 1 |-> 0]]

\* Mutant: the address survives into the next pass.
InitPassKeepsAddress(s) ==
  LET fresh == [InitialMachine EXCEPT !.CurAddress = s.CurAddress]
  IN  IF s.deviceDirectivesCount = 1 /\ s.Devices THEN SetDevice(fresh, "DEV") ELSE fresh

\* A single DEVICE directive becomes global: it is in force from the first
\* line of the next pass.
InitPass(s) ==
  IF s.deviceDirectivesCount = 1 /\ s.Devices
  THEN SetDevice(InitialMachine, "DEV") ELSE InitialMachine

Init ==
  /\ m = InitialMachine /\ mem = EmptyMemory
  /\ pass = 1 /\ pc = 0 /\ phase = "line" /\ prog = Prelude
  /\ todo = 0 /\ preserve = FALSE
  /\ labels = << >> /\ excursion = "inside"

\* PrepareLine and the label at the beginning of the line.  Pass 1 meets the
\* line for the first time.
PrepareLine ==
  /\ phase = "line"
  /\ \/ pc < Len(prog) /\ prog' = prog
     \/ /\ pass = 1 /\ pc = Len(prog) /\ pc < MaxLines
        /\ \E line \in Lines : prog' = Append(prog, line)
  /\ pc' = pc + 1
  /\ m' = IF m.DeviceID THEN CheckPage(m, "NO_EMIT") ELSE m
  /\ phase' = IF m'.fatal THEN "exit" ELSE "parse"
  /\ labels' = IF pass = 2 THEN Append(labels, Label(m')) ELSE labels
  /\ UNCHANGED <<mem, pass, todo, preserve, excursion>>

Line == prog[pc]

\* A directive that emits nothing.
Directive(s) ==
  /\ m' = s
  /\ phase' = IF s.fatal THEN "exit" ELSE "line"
  /\ UNCHANGED <<mem, pass, pc, prog, todo, preserve, labels, excursion>>

\* A directive that emits n bytes, one at a time.
Emission(n, keep) ==
  /\ todo' = n /\ preserve' = keep /\ phase' = "emit"
  /\ UNCHANGED <<m, mem, pass, pc, prog, labels, excursion>>

Parsing(dir) == phase = "parse" /\ Line.dir = dir

ORG == Parsing("ORG") /\ Directive(dirORG(m, Line))
DISP == Parsing("DISP") /\ Directive(dirDISP(m, Line))
ENT == Parsing("ENT") /\ Directive(dirENT(m))
PAGE == Parsing("PAGE") /\ Directive(dirPAGE(m, Line))
MMU == Parsing("MMU") /\ Directive(dirMMU(m, Line))
SLOT == Parsing("SLOT") /\ Directive(dirSLOT(m, Line))
DEVICE == Parsing("DEVICE") /\ Directive(dirDEVICE(m, Line))

BLOCK == /\ Parsing("BLOCK")
         /\ IF Line.len <= 0 THEN Directive(MoveBack(m, Line.len))
                             ELSE Emission(Line.len, FALSE)

DB == Parsing("DB") /\ Emission(Line.len, FALSE)

ALIGN == /\ Parsing("ALIGN")
         /\ LET len == (-m.CurAddress) % Line.align
            IN  IF len < 1 THEN Directive(m) ELSE Emission(len, ~Line.fill)

INCBIN == Parsing("INCBIN") /\ Emission(Line.len, FALSE)

LineDone == /\ phase = "emit" /\ todo = 0
            /\ phase' = "line"
            /\ UNCHANGED <<m, mem, pass, pc, prog, todo, preserve, labels, excursion>>

\* BinIncFile reads the file only in the last pass.
SkipsFile == Line.dir = "INCBIN" /\ pass # LASTPASS

\* EmitByteNoListing
EmitByteNoListing ==
  /\ phase = "emit" /\ todo > 0 /\ ~SkipsFile
  /\ LET s == IF m.DeviceID THEN CheckPage(m, "EMIT") ELSE CheckRamLimitExceeded(m)
         stores == m.DeviceID /\ s.MemoryPointer # Null
     IN  IF s.fatal
         THEN m' = s /\ phase' = "exit" /\ UNCHANGED <<mem, todo, excursion>>
         ELSE /\ m' = Move(IF m.DeviceID THEN MovePointer(s, 1) ELSE s, 1)
              /\ mem' = IF stores /\ pass = LASTPASS /\ ~preserve
                        THEN [mem EXCEPT ![s.MemoryPointer.page][s.MemoryPointer.off] = pc]
                        ELSE mem
              /\ todo' = todo - 1
              /\ excursion' = IF stores \/ ~m.DeviceID \/ pass # LASTPASS THEN "inside"
                              ELSE IF s.reports > m.reports \/ excursion = "reported"
                              THEN "reported" ELSE "silent"
              /\ UNCHANGED phase
  /\ UNCHANGED <<pass, pc, prog, preserve, labels>>

\* Mutant: a full page leaves no room, and the loop goes on with it.
SkipIntoFullPage ==
  /\ phase = "emit" /\ todo > 0 /\ SkipsFile
  /\ LET s == IF m.DeviceID /\ m.MemoryPointer = Null THEN CheckPage(m, "EMIT") ELSE m
         room == (s.Page + 1 - s.MemoryPointer.page) * SlotSize - s.MemoryPointer.off
         advance == IF m.DeviceID /\ s.MemoryPointer # Null /\ room < todo
                    THEN room ELSE todo
     IN  IF s.fatal
         THEN m' = s /\ phase' = "exit" /\ UNCHANGED todo
         ELSE /\ m' = Move(IF m.DeviceID THEN MovePointer(s, advance) ELSE s, advance)
              /\ todo' = todo - advance
              /\ UNCHANGED phase
  /\ UNCHANGED <<mem, pass, pc, prog, preserve, labels, excursion>>

\* The loop of BinIncFile before the last pass: as many bytes as fit into the
\* current page are skipped at once.  Pages are contiguous in Device->Memory.
SkipIncludedBytes ==
  /\ phase = "emit" /\ todo > 0 /\ SkipsFile
  /\ LET s == IF m.DeviceID THEN CheckPage(m, "EMIT") ELSE m
         room == (s.Page + 1 - s.MemoryPointer.page) * SlotSize - s.MemoryPointer.off
         advance == IF m.DeviceID /\ s.MemoryPointer # Null /\ room < todo
                    THEN room ELSE todo
     IN  IF s.fatal
         THEN m' = s /\ phase' = "exit" /\ UNCHANGED todo
         ELSE /\ m' = Move(IF m.DeviceID THEN MovePointer(s, advance) ELSE s, advance)
              /\ todo' = todo - advance
              /\ UNCHANGED phase
  /\ UNCHANGED <<mem, pass, pc, prog, preserve, labels, excursion>>

\* All lines of this pass are done.
EndOfSource ==
  /\ phase = "line"
  /\ pc = Len(prog)
  /\ phase' = "endpass"
  /\ m' = IF m.PseudoORG THEN [m EXCEPT !.CurAddress = m.adrdisp, !.PseudoORG = FALSE]
                          ELSE m
  /\ UNCHANGED <<mem, pass, pc, prog, todo, preserve, labels, excursion>>

NextPass ==
  /\ phase = "endpass" /\ pass < LASTPASS
  /\ pass' = pass + 1 /\ pc' = 0 /\ phase' = "line"
  /\ m' = InitPass(m) /\ mem' = EmptyMemory
  /\ excursion' = "inside"
  /\ UNCHANGED <<prog, todo, preserve, labels>>

LastPassDone ==
  /\ phase = "endpass" /\ pass = LASTPASS
  /\ phase' = "exit"
  /\ UNCHANGED <<m, mem, pass, pc, prog, todo, preserve, labels, excursion>>

Exited == phase = "exit" /\ UNCHANGED vars

Next ==
  \/ PrepareLine
  \/ ORG \/ DISP \/ ENT \/ PAGE \/ MMU \/ SLOT \/ DEVICE
  \/ BLOCK \/ DB \/ ALIGN \/ INCBIN
  \/ EmitByteNoListing \/ SkipIncludedBytes \/ LineDone
  \/ EndOfSource \/ NextPass \/ LastPassDone
  \/ Exited

Spec == Init /\ [][Next]_vars

\* The assembler is a sequential program: it takes its next step.
FairSpec == Spec /\ WF_vars(Next)

----------------------------------------------------------------------------
(* Properties *)

\* The globals and the device keep the ranges the code relies on: mapped pages
\* exist, the remembered slot exists and MemoryPointer is null or in a page.
TypeOK ==
  /\ m \in Machine
  /\ mem \in [Pages -> [0 .. SlotSize - 1 -> Nat]]
  /\ pass \in 1 .. LASTPASS /\ pc \in 0 .. Len(prog)
  /\ phase \in {"line", "parse", "emit", "endpass", "exit"}
  /\ prog \in Seq(Lines)
  /\ todo \in Int /\ preserve \in BOOLEAN
  /\ excursion \in {"inside", "reported", "silent"}

\* The option CheckPage remembers is the one of the slot it remembers.
OptionCached(s) == s.previousSlotOpt = s.slotOption[s.previousSlotI]

\* The inductive invariant of the proofs: no directive leaves CheckPage with
\* another slot's option (an O_NEXT slot would turn the wrong page), a line
\* being assembled is a line of the program, bytes are outstanding only
\* while a line emits, and a fatal error ends the assembly at once.
IInv ==
  /\ TypeOK
  /\ OptionCached(m)
  /\ phase \in {"parse", "emit"} => pc > 0
  /\ phase \notin {"emit", "exit"} => todo = 0
  /\ m.fatal => phase = "exit"

\* Lines that move the output address behind the back of CheckPage: a BLOCK of
\* a negative length, an ORG whose page is refused, an ORG below zero.
MovesUnseen(line) ==
  \/ line.dir = "BLOCK" /\ line.len < 0
  \/ line.dir = "ORG" /\ (line.addr < 0 \/ line.page \notin Pages \cup {NoArg})
Onward == \A i \in 1 .. pc : ~MovesUnseen(prog[i])

\* A label that is not displaced gets the page that is mapped at its address:
\* the "fast-shortcut" of getAddressPageNumber through the cached Page agrees
\* with a search through the slots.  Not so when the address has moved unseen:
\* the line before may have cached the page behind a full slot.
LabelPageIsMapped ==
  phase = "parse" /\ m.DeviceID /\ ~m.PseudoORG /\ m.CurAddress < AddressSpace /\ Onward
    => getAddressPageNumber(m, m.CurAddress) = GetPageOfA16(m, m.CurAddress)

\* Pass 3 meets every line with the address, page and mapping that pass 2
\* gave to it, so that what pass 2 stored in the label table is true.
PassesAgree ==
  phase = "parse" /\ pass = LASTPASS => Label(m) = labels[pc]

\* A byte that finds no memory in the last pass was reported, or belongs to
\* a run of such bytes whose beginning was reported.  An address that moved
\* unseen from one such run to memory and to another one is still in the first.
NoSilentLoss == Onward => excursion # "silent"

\* Before the last pass BinIncFile moves the displaced address at once.
SkippedFile == pass # LASTPASS /\ \E i \in 1 .. pc : prog[i].dir = "INCBIN"

\* The displaced address wraps at the end of the address space, a label can
\* see the end itself and nothing beyond (the comment of CheckPage).
DispLabelInRange ==
  phase = "parse" /\ m.PseudoORG /\ (m.DeviceID \/ ~IsLongPtr) /\ ~SkippedFile
    => m.CurAddress <= AddressSpace

\* What a label sees of the memory is true: its page, and the displaced address.
LabelsAreInPlace == LabelPageIsMapped /\ DispLabelInRange

\* Slots with the option "n".
Wrapping(s) == {i \in Slots : s.slotOption[i] = "O_NEXT"}

\* Caches never redirect a byte: the emission implements BankedMemory.
Abstract == INSTANCE BankedMemory WITH
  map <- m.slotPage, wrapping <- Wrapping(m),
  addr <- LongAddr(m), byte <- pc,
  storing <- pass = LASTPASS /\ m.DeviceID /\ ~preserve
ImplementsBankedMemory == Abstract!Spec

\* Assembling ends.
Termination == <>(phase = "exit")

=============================================================================
