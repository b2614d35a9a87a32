------------------------- MODULE DeviceMemoryProofs -------------------------
(***************************************************************************)
(* Proofs about DeviceMemory, for every device and every program: reads     *)
(* and writes, the page of a label, the displaced address and the report     *)
(* of bytes that find no memory.                                           *)
(***************************************************************************)
EXTENDS DeviceMemory, TLAPS

----------------------------------------------------------------------------
(* The slots cover the address space *)

\* initRegularSlotDevice places the slots one after another.
LEMMA SlotsOrdered ==
  ASSUME NEW i \in Slots, NEW j \in Slots, i < j
  PROVE  Address(i) + SlotSize <= Address(j)
<1>1. PICK k \in Nat : j = i + 1 + k
  BY SlotsAssumption, j = i + 1 + (j - i - 1) DEF Slots
<1>2. j * SlotSize = i * SlotSize + SlotSize + k * SlotSize
  BY <1>1, SlotsAssumption DEF Slots
<1>3. k * SlotSize \in Nat
  BY SlotsAssumption
<1> QED
  BY <1>2, <1>3, SlotsAssumption DEF Address, Slots

LEMMA AddressIsInt == \A i \in Slots : Address(i) \in Int
  BY SlotsAssumption DEF Address, Slots

\* Every address of the address space lies in some slot.
LEMMA SlotsCover ==
  ASSUME NEW a \in Int, 0 <= a, a < AddressSpace
  PROVE  \E i \in Slots : InSlot(i, a)
<1> DEFINE i == a \div SlotSize
<1>1. /\ i \in Int
      /\ SlotSize * i <= a
      /\ a < SlotSize * (i + 1)
  BY SlotsAssumption
<1>2. 0 <= i
  BY <1>1, SlotsAssumption
<1>3. i < SlotsCount
  BY <1>1, SlotsAssumption, SpaceAssumption
<1> HIDE DEF i
<1>4. SlotSize * i = i * SlotSize /\ SlotSize * (i + 1) = i * SlotSize + SlotSize
  BY <1>1, SlotsAssumption
<1>5. InSlot(i, a)
  BY <1>1, <1>4 DEF InSlot, Address
<1> QED
  BY <1>1, <1>2, <1>3, <1>5, SlotsAssumption DEF Slots

\* CheckPage's loop always ends in a slot, and for an address of the address
\* space that slot contains it: the "please, contact the author" error at its
\* end cannot happen.
LEMMA SlotBelowFound ==
  ASSUME NEW a \in Int, 0 <= a, a < AddressSpace
  PROVE  SlotBelow(a) \in Slots /\ InSlot(SlotBelow(a), a)
<1> DEFINE Below(i) == Address(i) <= a /\ \A j \in Slots : i < j => a < Address(j)
<1>1. PICK i \in Slots : InSlot(i, a)
  BY SlotsCover
<1>2. Below(i)
  BY <1>1, SlotsOrdered, AddressIsInt, SlotsAssumption DEF InSlot
<1>3. SlotBelow(a) \in Slots /\ Below(SlotBelow(a))
  BY <1>1, <1>2 DEF SlotBelow
<1>4. SlotBelow(a) = i
  <2>1. ~(SlotBelow(a) < i)
    BY <1>1, <1>3, AddressIsInt DEF InSlot
  <2>2. ~(i < SlotBelow(a))
    BY <1>1, <1>3, SlotsOrdered, AddressIsInt, SlotsAssumption DEF InSlot
  <2> QED
    BY <2>1, <2>2, <1>1, <1>3 DEF Slots
<1> QED
  BY <1>1, <1>4

LEMMA MaskedIsInRange ==
  ASSUME NEW a \in Int
  PROVE  a % AddressSpace \in Int /\ 0 <= a % AddressSpace /\ a % AddressSpace < AddressSpace
  BY SpaceAssumption

----------------------------------------------------------------------------
(* CheckPage returns a machine state *)

LEMMA LongAddrIsInt == \A s \in Machine : LongAddr(s) \in Int
  BY DEF Machine, LongAddr

LEMMA DispWrapType ==
  ASSUME NEW s \in Machine, NEW level
  PROVE  /\ DispWrap(s, level) \in Machine
         /\ LongAddr(DispWrap(s, level)) = LongAddr(s)
  BY SpaceAssumption DEF Machine, DispWrap, LongAddr

LEMMA LocateType ==
  ASSUME NEW s \in Machine, NEW i \in Slots
  PROVE  Locate(s, i) \in Machine
<1>1. PointerInto(s, i) \in Pointers /\ Null \in Pointers
  BY LongAddrIsInt, AddressIsInt DEF Machine, PointerInto, Pointers
<1> QED
  BY <1>1 DEF Machine, Locate

LEMMA EnterSlotType ==
  ASSUME NEW s \in Machine, NEW i \in Slots
  PROVE  EnterSlot(s, i) \in Machine
  BY DEF Machine, EnterSlot

LEMMA SettleType ==
  ASSUME NEW s \in Machine, NEW i \in Slots, NEW level
  PROVE  Settle(s, i, level) \in Machine
  BY DEF Machine, Settle, EnterSlot

LEMMA LeaveGuardedSlotType ==
  ASSUME NEW s \in Machine, NEW i \in Slots, NEW level
  PROVE  LeaveGuardedSlot(s, i, level) \in Machine
<1>0. s.reports + 1 \in Nat /\ TRUE \in BOOLEAN
  BY DEF Machine
<1>1. [s EXCEPT !.limitExceeded = TRUE, !.reports = @ + 1] \in Machine
  BY <1>0 DEF Machine
<1> QED
  BY <1>1, SettleType DEF LeaveGuardedSlot

LEMMA LeavePlainSlotType ==
  ASSUME NEW s \in Machine, NEW i \in Slots, NEW level
  PROVE  LeavePlainSlot(s, i, level) \in Machine
<1>0. s.reports + 1 \in Nat /\ TRUE \in BOOLEAN
  BY DEF Machine
<1>1. [s EXCEPT !.limitExceeded = TRUE, !.reports = @ + 1, !.previousSlotI = i] \in Machine
  BY <1>0 DEF Machine
<1> QED
  BY <1>1, SettleType DEF LeavePlainSlot

LEMMA SetLongAddrType ==
  ASSUME NEW s \in Machine, NEW a \in Int
  PROVE  /\ SetLongAddr(s, a) \in Machine
         /\ LongAddr(SetLongAddr(s, a)) = a
         /\ SetLongAddr(s, a).slotPage = s.slotPage
         /\ SetLongAddr(s, a).slotOption = s.slotOption
         /\ SetLongAddr(s, a).previousSlotI = s.previousSlotI
         /\ SetLongAddr(s, a).previousSlotOpt = s.previousSlotOpt
         /\ SetLongAddr(s, a).PseudoORG = s.PseudoORG
         /\ SetLongAddr(s, a).DeviceID = s.DeviceID
         /\ SetLongAddr(s, a).fatal = s.fatal
  BY DEF Machine, SetLongAddr, LongAddr

LEMMA ReportType ==
  ASSUME NEW s \in Machine
  PROVE  Report(s, 1) \in Machine
  BY DEF Machine, Report

LEMMA LeaveWrappingSlotType ==
  ASSUME NEW s \in Machine, NEW i \in Slots, NEW level
  PROVE  LeaveWrappingSlot(s, i, level) \in Machine
<1> DEFINE prev == s.previousSlotI
           next == s.slotPage[prev] + 1
           stopped == [Report(s, 1) EXCEPT !.slotOption[prev] = "O_NONE",
                                           !.limitExceeded = FALSE]
           back == SetLongAddr(s, LongAddr(s) - SlotSize)
           turned == [back EXCEPT !.slotPage[prev] = next, !.Page = next,
                                  !.MemoryPointer = [page |-> next, off |-> 0]]
<1>1. prev \in Slots /\ s.slotPage[prev] \in Pages
  BY DEF Machine
<1>2. stopped \in Machine
  BY <1>1, ReportType DEF Machine, SlotOptions
<1>3. [s EXCEPT !.fatal = TRUE] \in Machine
  BY DEF Machine
<1>4. ASSUME ~(PagesCount <= next) PROVE turned \in Machine
  <2>1. back \in Machine
    BY SetLongAddrType, LongAddrIsInt, SlotsAssumption
  <2>2. next \in Pages /\ [page |-> next, off |-> 0] \in Pointers
    BY <1>1, <1>4, PagesAssumption DEF Pages, Pointers
  <2> HIDE DEF back, next
  <2> QED
    BY <2>1, <2>2, <1>1 DEF Machine
<1>5. Settle(EnterSlot(stopped, i), i, level) \in Machine
  BY <1>2, EnterSlotType, SettleType
<1> HIDE DEF stopped, turned
<1> QED
  BY <1>3, <1>4, <1>5 DEF LeaveWrappingSlot, stopped, turned

LEMMA LeaveSlotType ==
  ASSUME NEW s \in Machine, NEW i \in Slots, NEW level
  PROVE  LeaveSlot(s, i, level) \in Machine
  BY LeaveGuardedSlotType, LeavePlainSlotType, LeaveWrappingSlotType DEF LeaveSlot

LEMMA CheckResetType ==
  ASSUME NEW s0 \in Machine
  PROVE  CheckReset(s0) \in Machine
<1> DEFINE s == DispWrap(s0, "RESET")
           i == SlotBelow(LongAddr(s) % AddressSpace)
<1>1. s \in Machine /\ i \in Slots
  BY DispWrapType, LongAddrIsInt, MaskedIsInRange, SlotBelowFound
<1>2. EnterSlot(Locate(s, i), i) \in Machine
  BY <1>1, LocateType, EnterSlotType
<1> HIDE DEF s, i
<1>3. [EnterSlot(Locate(s, i), i) EXCEPT !.limitExceeded = FALSE] \in Machine
  BY <1>2 DEF Machine
<1> QED
  BY <1>3 DEF CheckReset, s, i

LEMMA CheckPageType ==
  ASSUME NEW s0 \in Machine, NEW level
  PROVE  CheckPage(s0, level) \in Machine
<1> DEFINE s == DispWrap(s0, level)
           i == SlotBelow(LongAddr(s) % AddressSpace)
<1>1. s \in Machine /\ i \in Slots
  BY DispWrapType, LongAddrIsInt, MaskedIsInRange, SlotBelowFound
<1>2. LeaveSlot(Locate(s, i), i, level) \in Machine
  BY <1>1, LocateType, LeaveSlotType
<1> HIDE DEF s, i
<1>3. PointerInto(s, s.previousSlotI) \in Pointers
  BY <1>1, LongAddrIsInt, AddressIsInt DEF Machine, PointerInto, Pointers
<1>4. [s EXCEPT !.MemoryPointer = PointerInto(s, s.previousSlotI)] \in Machine
  BY <1>1, <1>3 DEF Machine
<1> QED
  BY <1>2, <1>4 DEF CheckPage, s, i

----------------------------------------------------------------------------
(* The remembered option *)

LEMMA EnterSlotCaches ==
  ASSUME NEW s \in Machine, NEW i \in Slots
  PROVE  OptionCached(EnterSlot(s, i))
  BY DEF Machine, EnterSlot, OptionCached

LEMMA SettleCaches ==
  ASSUME NEW s \in Machine, NEW i \in Slots, NEW level,
         level = "EMIT" \/ OptionCached(s)
  PROVE  OptionCached(Settle(s, i, level))
<1>1. (s.limitExceeded /\ s.previousSlotI = i) \in BOOLEAN
  OBVIOUS
<1>2. [s EXCEPT !.limitExceeded = @ /\ s.previousSlotI = i] \in Machine
  BY <1>1 DEF Machine
<1> QED
  BY <1>2, EnterSlotCaches DEF Settle

\* A reset looks the slot and its option up again.
LEMMA CheckResetCaches ==
  ASSUME NEW s0 \in Machine
  PROVE  OptionCached(CheckReset(s0)) /\ CheckReset(s0).fatal = s0.fatal
<1> DEFINE s == DispWrap(s0, "RESET")
           i == SlotBelow(LongAddr(s) % AddressSpace)
           e == EnterSlot(Locate(s, i), i)
<1>1. s \in Machine /\ i \in Slots /\ s.fatal = s0.fatal
  <2>1. s.fatal = s0.fatal
    BY DEF DispWrap, Machine
  <2> QED
    BY <2>1, DispWrapType, LongAddrIsInt, MaskedIsInRange, SlotBelowFound
<1> HIDE DEF s, i
<1>2. Locate(s, i) \in Machine /\ Locate(s, i).fatal = s.fatal
  BY <1>1, LocateType DEF Locate, Machine
<1>3. e \in Machine /\ OptionCached(e) /\ e.fatal = s.fatal
  BY <1>1, <1>2, EnterSlotType, EnterSlotCaches DEF EnterSlot, Machine
<1> HIDE DEF e
<1>4. /\ OptionCached([e EXCEPT !.limitExceeded = FALSE])
      /\ [e EXCEPT !.limitExceeded = FALSE].fatal = e.fatal
  BY <1>3 DEF Machine, OptionCached
<1> QED
  BY <1>1, <1>3, <1>4 DEF CheckReset, s, i, e

LEMMA LocateCaches ==
  ASSUME NEW s \in Machine, NEW i \in Slots, OptionCached(s)
  PROVE  OptionCached(Locate(s, i))
  BY DEF Machine, Locate, OptionCached

LEMMA LeaveSlotCaches ==
  ASSUME NEW s \in Machine, NEW i \in Slots, NEW level, OptionCached(s)
  PROVE  OptionCached(LeaveSlot(s, i, level))
<1>0. s.reports + 1 \in Nat /\ TRUE \in BOOLEAN
  BY DEF Machine
<1>1. OptionCached(LeaveGuardedSlot(s, i, level))
  <2>1. [s EXCEPT !.limitExceeded = TRUE, !.reports = @ + 1] \in Machine
    BY <1>0 DEF Machine
  <2>2. OptionCached([s EXCEPT !.limitExceeded = TRUE, !.reports = @ + 1])
    BY DEF Machine, OptionCached
  <2> QED
    BY <2>1, <2>2, SettleCaches DEF LeaveGuardedSlot
<1>2. OptionCached(LeavePlainSlot(s, i, level))
  <2>1. [s EXCEPT !.limitExceeded = TRUE, !.reports = @ + 1, !.previousSlotI = i] \in Machine
    BY <1>0 DEF Machine
  <2> QED
    BY <2>1, SettleCaches DEF LeavePlainSlot, Complains
<1>3. OptionCached(LeaveWrappingSlot(s, i, level))
  <2> DEFINE prev == s.previousSlotI
             next == s.slotPage[prev] + 1
             stopped == [Report(s, 1) EXCEPT !.slotOption[prev] = "O_NONE",
                                             !.limitExceeded = FALSE]
             back == SetLongAddr(s, LongAddr(s) - SlotSize)
             turned == [back EXCEPT !.slotPage[prev] = next, !.Page = next,
                                    !.MemoryPointer = [page |-> next, off |-> 0]]
  <2>1. stopped \in Machine
    BY ReportType DEF Machine, SlotOptions
  <2>2. OptionCached(Settle(EnterSlot(stopped, i), i, level))
    BY <2>1, EnterSlotType, EnterSlotCaches, SettleCaches
  <2>3. OptionCached([s EXCEPT !.fatal = TRUE])
    BY DEF Machine, OptionCached
  <2>4. OptionCached(turned)
    <3>1. /\ back \in Machine
          /\ back.slotOption = s.slotOption
          /\ back.previousSlotI = s.previousSlotI
          /\ back.previousSlotOpt = s.previousSlotOpt
      BY SetLongAddrType, LongAddrIsInt, SlotsAssumption
    <3> HIDE DEF back, next
    <3> QED
      BY <3>1 DEF Machine, OptionCached
  <2> HIDE DEF stopped, turned
  <2> QED
    BY <2>2, <2>3, <2>4 DEF LeaveWrappingSlot, stopped, turned
<1> QED
  BY <1>1, <1>2, <1>3 DEF LeaveSlot

LEMMA CheckPageCaches ==
  ASSUME NEW s0 \in Machine, NEW level, OptionCached(s0)
  PROVE  OptionCached(CheckPage(s0, level))
<1> DEFINE s == DispWrap(s0, level)
           i == SlotBelow(LongAddr(s) % AddressSpace)
<1>1. s \in Machine /\ i \in Slots
  BY DispWrapType, LongAddrIsInt, MaskedIsInRange, SlotBelowFound
<1>2. OptionCached(s)
  BY DEF DispWrap, Machine, OptionCached
<1> HIDE DEF s, i
<1>3. OptionCached(LeaveSlot(Locate(s, i), i, level))
  BY <1>1, <1>2, LocateType, LocateCaches, LeaveSlotCaches
<1>4. OptionCached([s EXCEPT !.MemoryPointer = PointerInto(s, s.previousSlotI)])
  BY <1>1, <1>2 DEF Machine, OptionCached
<1> QED
  BY <1>3, <1>4 DEF CheckPage, s, i

----------------------------------------------------------------------------
(* Directives *)

Good(s) == s \in Machine /\ OptionCached(s)

LEMMA CheckResetGood == \A s \in Machine : Good(CheckReset(s))
  BY CheckResetType, CheckResetCaches DEF Good

LEMMA CropIsInt == ASSUME NEW s, NEW a \in Int PROVE Crop(s, a) \in Int
  BY MaskedIsInRange DEF Crop

LEMMA dirPageImplGood ==
  ASSUME NEW s \in Machine, OptionCached(s), NEW page
  PROVE  Good(dirPageImpl(s, page))
<1>1. ASSUME page \in Pages
      PROVE  [s EXCEPT !.slotPage[s.CurrentSlot] = page] \in Machine
  BY <1>1 DEF Machine
<1> QED
  BY <1>1, CheckResetGood DEF dirPageImpl, Good

LEMMA dirORGGood ==
  ASSUME NEW s \in Machine, OptionCached(s), NEW line, line.addr \in Int
  PROVE  Good(dirORG(s, line))
<1> DEFINE moved == [s EXCEPT !.CurAddress = Crop(s, line.addr)]
<1>1. moved \in Machine /\ OptionCached(moved)
  BY CropIsInt DEF Machine, OptionCached
<1> HIDE DEF moved
<1>2. Good(moved) /\ Good(CheckReset(moved)) /\ Good(dirPageImpl(moved, line.page))
  BY <1>1, CheckResetGood, dirPageImplGood DEF Good
<1> QED
  BY <1>2 DEF dirORG, moved

LEMMA dirDISPGood ==
  ASSUME NEW s \in Machine, OptionCached(s), NEW line,
         line.addr \in Int, line.page \in Int
  PROVE  Good(dirDISP(s, line))
<1> DEFINE a == Crop(s, line.addr)
<1>1. a \in Int
  BY CropIsInt
<1> HIDE DEF a
<1> DEFINE r == [s EXCEPT !.adrdisp = s.CurAddress, !.CurAddress = a,
                          !.dispPageNum = line.page, !.PseudoORG = TRUE]
<1>2. r \in Machine
  BY <1>1 DEF Machine
<1>3. OptionCached(r)
  BY DEF Machine, OptionCached
<1> HIDE DEF r
<1> QED
  BY <1>2, <1>3 DEF dirDISP, Good, r, a

LEMMA dirENTGood ==
  ASSUME NEW s \in Machine, OptionCached(s)
  PROVE  Good(dirENT(s))
<1> DEFINE r == [s EXCEPT !.CurAddress = s.adrdisp, !.PseudoORG = FALSE,
                          !.dispPageNum = LABEL_PAGE_UNDEFINED]
<1>0. LABEL_PAGE_UNDEFINED \in Int /\ FALSE \in BOOLEAN /\ s.adrdisp \in Int
  BY DEF Machine, LABEL_PAGE_UNDEFINED
<1>1. r \in Machine
  BY <1>0 DEF Machine
<1>2. OptionCached(r)
  BY DEF Machine, OptionCached
<1> HIDE DEF r
<1> QED
  BY <1>1, <1>2 DEF dirENT, Good, r

LEMMA dirPAGEGood ==
  ASSUME NEW s \in Machine, OptionCached(s), NEW line
  PROVE  Good(dirPAGE(s, line))
  BY dirPageImplGood DEF dirPAGE, Good

LEMMA dirMMUResets ==
  ASSUME NEW s \in Machine, NEW line,
         line.opt \in SlotOptions, line.page \in Int, line.addr \in Int
  PROVE  \/ dirMMU(s, line) = s
         \/ \E t \in Machine : dirMMU(s, line) = CheckReset(t) /\ LongAddr(t) >= 0
<1> DEFINE slot1 == SlotNumberFromPreciseAddress(line.slot1)
           slot2 == SlotNumberFromPreciseAddress(line.slot2)
           range == slot1 .. slot2
           pages == [i \in Slots |-> IF i \in range THEN line.page + (i - slot1)
                                                    ELSE s.slotPage[i]]
           options == [i \in Slots |-> IF i \in range THEN line.opt ELSE s.slotOption[i]]
           mapped == [s EXCEPT !.slotPage = pages, !.slotOption = options]
           wrapped == SetLongAddr(mapped, LongAddr(mapped) % AddressSpace)
           moved == [wrapped EXCEPT !.CurAddress = line.addr % AddressSpace]
           valid == /\ s.DeviceID
                    /\ slot1 \in Slots /\ slot2 \in Slots /\ slot1 <= slot2
                    /\ line.page \in Pages /\ line.page + (slot2 - slot1) \in Pages
<1>1. ASSUME valid
      PROVE  /\ wrapped \in Machine /\ LongAddr(wrapped) >= 0
             /\ moved \in Machine /\ LongAddr(moved) >= 0
  <2> HIDE DEF slot1, slot2
  <2>1. pages \in [Slots -> Pages]
    <3>1. \A i \in Slots : s.slotPage[i] \in Pages
      BY DEF Machine
    <3>2. \A i \in Slots : i \in range => line.page + (i - slot1) \in Pages
      BY <1>1, PagesAssumption DEF Slots, Pages
    <3> QED
      BY <3>1, <3>2
  <2>2. options \in [Slots -> SlotOptions]
    BY DEF Machine
  <2> HIDE DEF pages, options
  <2>3. mapped \in Machine
    BY <2>1, <2>2 DEF Machine
  <2> HIDE DEF mapped
  <2>4. wrapped \in Machine /\ LongAddr(wrapped) >= 0
    BY <2>3, SetLongAddrType, LongAddrIsInt, MaskedIsInRange
  <2> HIDE DEF wrapped
  <2>5. moved \in Machine /\ LongAddr(moved) >= 0
    BY <2>4, MaskedIsInRange DEF Machine, LongAddr
  <2> QED
    BY <2>4, <2>5
<1>2. dirMMU(s, line) = IF valid THEN CheckReset(IF line.addr = NoArg THEN wrapped ELSE moved)
                                 ELSE s
  BY DEF dirMMU
<1> HIDE DEF valid, wrapped, moved
<1> QED
  BY <1>1, <1>2

LEMMA dirMMUGood ==
  ASSUME NEW s \in Machine, OptionCached(s), NEW line,
         line.opt \in SlotOptions, line.page \in Int, line.addr \in Int
  PROVE  Good(dirMMU(s, line))
  BY dirMMUResets, CheckResetGood DEF Good

LEMMA dirSLOTGood ==
  ASSUME NEW s \in Machine, OptionCached(s), NEW line
  PROVE  Good(dirSLOT(s, line))
  BY DEF dirSLOT, Good, Machine, OptionCached

LEMMA SetDeviceResets ==
  ASSUME NEW s \in Machine, NEW id
  PROVE  \/ SetDevice(s, id) = s
         \/ SetDevice(s, id) = [s EXCEPT !.DeviceID = FALSE]
         \/ \E t \in Machine : /\ SetDevice(s, id) = CheckReset(t)
                               /\ LongAddr(t) = LongAddr(s) /\ t.fatal = s.fatal
<1> DEFINE created == IF s.Devices THEN s
                      ELSE [s EXCEPT !.Devices = TRUE, !.slotPage = InitialPages,
                                     !.slotOption = [i \in Slots |-> "O_NONE"],
                                     !.CurrentSlot = SlotsCount - 1]
           selected == [created EXCEPT !.DeviceID = TRUE]
<1>1. created \in Machine /\ LongAddr(created) = LongAddr(s) /\ created.fatal = s.fatal
  <2>1. SlotsCount - 1 \in Slots /\ [i \in Slots |-> "O_NONE"] \in [Slots -> SlotOptions]
    BY SlotsAssumption DEF Slots, SlotOptions
  <2> QED
    BY <2>1, PagesAssumption DEF Machine, LongAddr
<1> HIDE DEF created
<1>2. selected \in Machine /\ LongAddr(selected) = LongAddr(s) /\ selected.fatal = s.fatal
  BY <1>1 DEF Machine, LongAddr
<1>3. SetDevice(s, id) \in {s, [s EXCEPT !.DeviceID = FALSE], CheckReset(selected)}
  BY DEF SetDevice, created, selected
<1> HIDE DEF selected
<1> QED
  BY <1>2, <1>3

LEMMA SetDeviceGood ==
  ASSUME NEW s \in Machine, OptionCached(s), NEW id
  PROVE  Good(SetDevice(s, id)) /\ SetDevice(s, id).fatal = s.fatal
<1> DEFINE none == [s EXCEPT !.DeviceID = FALSE]
<1>1. none \in Machine /\ OptionCached(none) /\ none.fatal = s.fatal
  BY DEF Machine, OptionCached
<1> HIDE DEF none
<1>2. \A t \in Machine : Good(CheckReset(t)) /\ CheckReset(t).fatal = t.fatal
  BY CheckResetGood, CheckResetCaches
<1>3. Good(s)
  BY DEF Good
<1>4. \/ SetDevice(s, id) = s
      \/ SetDevice(s, id) = none
      \/ \E t \in Machine : SetDevice(s, id) = CheckReset(t) /\ t.fatal = s.fatal
  BY SetDeviceResets DEF none
<1> QED
  BY <1>1, <1>2, <1>3, <1>4 DEF Good

LEMMA dirDEVICEGood ==
  ASSUME NEW s \in Machine, OptionCached(s), NEW line
  PROVE  Good(dirDEVICE(s, line))
<1> DEFINE counted == [s EXCEPT !.deviceDirectivesCount = @ + 1]
<1>1. counted \in Machine /\ OptionCached(counted)
  BY DEF Machine, OptionCached
<1> HIDE DEF counted
<1>2. Good(SetDevice(counted, line.id)) /\ Good(counted)
  BY <1>1, SetDeviceGood DEF Good
<1> QED
  BY <1>2 DEF dirDEVICE, counted

LEMMA CheckRamLimitGood ==
  ASSUME NEW s \in Machine, OptionCached(s)
  PROVE  Good(CheckRamLimitExceeded(s))
  BY SpaceAssumption, MaskedIsInRange DEF CheckRamLimitExceeded, Good, Machine, OptionCached

LEMMA MoveGood ==
  ASSUME NEW s \in Machine, OptionCached(s), NEW n \in Int
  PROVE  Good(Move(s, n)) /\ Move(s, n).fatal = s.fatal
<1> DEFINE d == IF s.PseudoORG THEN s.adrdisp + n ELSE s.adrdisp
           r == [s EXCEPT !.CurAddress = s.CurAddress + n, !.adrdisp = d]
<1>1. d \in Int /\ s.CurAddress + n \in Int
  BY DEF Machine
<1>2. Move(s, n) = r
  BY DEF Move
<1> HIDE DEF d
<1>3. r \in Machine
  BY <1>1 DEF Machine
<1>4. OptionCached(r) /\ r.fatal = s.fatal
  BY DEF Machine, OptionCached
<1> QED
  BY <1>2, <1>3, <1>4 DEF Good

LEMMA MovePointerGood ==
  ASSUME NEW s \in Machine, OptionCached(s), NEW n \in Int
  PROVE  Good(MovePointer(s, n)) /\ MovePointer(s, n).fatal = s.fatal
<1> SUFFICES ASSUME s.MemoryPointer # Null
             PROVE  Good(MovePointer(s, n)) /\ MovePointer(s, n).fatal = s.fatal
  BY DEF MovePointer, Good
<1>1. s.MemoryPointer \in [page : Pages, off : Int]
  BY DEF Machine, Pointers
<1> DEFINE p == [s.MemoryPointer EXCEPT !.off = @ + n]
<1>2. p \in Pointers
  BY <1>1 DEF Pointers
<1> HIDE DEF p
<1>3. Good([s EXCEPT !.MemoryPointer = p]) /\ [s EXCEPT !.MemoryPointer = p].fatal = s.fatal
  BY <1>2 DEF Good, Machine, OptionCached
<1>4. MovePointer(s, n) = [s EXCEPT !.MemoryPointer = p]
  BY DEF MovePointer, p, Machine
<1> QED
  BY <1>3, <1>4

LEMMA MoveBackGood ==
  ASSUME NEW s \in Machine, OptionCached(s), NEW n \in Int
  PROVE  Good(MoveBack(s, n))
  BY MoveGood, CheckPageType, CheckPageCaches, CheckRamLimitGood DEF MoveBack, Good

----------------------------------------------------------------------------
(* The inductive invariant *)

LEMMA LineArguments ==
  ASSUME NEW line \in LineType
  PROVE  /\ line.dir \in {"ORG", "DISP"} => line.addr \in Int /\ line.page \in Int
         /\ line.dir = "MMU" => /\ line.opt \in SlotOptions
                                /\ line.page \in Int /\ line.addr \in Int
         /\ line.dir = "BLOCK" => line.len \in Int
         /\ line.dir \in {"DB", "INCBIN"} => line.len \in Nat
         /\ line.dir = "ALIGN" => line.align \in Nat \ {0} /\ line.fill \in BOOLEAN
  BY DEF LineType

LEMMA InitialMachineGood == Good(InitialMachine) /\ ~InitialMachine.fatal
<1>1. /\ InitialPages \in [Slots -> Pages]
      /\ [i \in Slots |-> "O_NONE"] \in [Slots -> SlotOptions]
      /\ SlotsCount - 1 \in Slots /\ 0 \in Slots
      /\ "O_NONE" \in SlotOptions /\ Null \in Pointers
      /\ LABEL_PAGE_UNDEFINED \in Int
  BY SlotsAssumption, PagesAssumption DEF Slots, SlotOptions, Pointers, LABEL_PAGE_UNDEFINED
<1>2. InitialMachine \in Machine
  BY <1>1 DEF InitialMachine, Machine
<1>3. OptionCached(InitialMachine) /\ ~InitialMachine.fatal
  BY <1>1 DEF InitialMachine, OptionCached
<1> QED
  BY <1>2, <1>3 DEF Good

LEMMA InitPassGood ==
  ASSUME NEW s
  PROVE  Good(InitPass(s)) /\ ~InitPass(s).fatal
  BY InitialMachineGood, SetDeviceGood DEF InitPass, Good

LEMMA InitIInv == Init => IInv
<1> SUFFICES ASSUME Init PROVE IInv
  OBVIOUS
<1>1. m \in Machine /\ OptionCached(m) /\ ~m.fatal
  BY InitialMachineGood DEF Init, Good
<1>2. mem \in [Pages -> [0 .. SlotSize - 1 -> Nat]]
  BY DEF Init, EmptyMemory
<1>3. pc \in 0 .. Len(prog) /\ prog \in Seq(Lines)
  BY LinesAssumption DEF Init
<1>4. pass \in 1 .. LASTPASS /\ todo = 0 /\ phase = "line" /\ excursion = "inside"
  BY DEF Init, LASTPASS
<1>5. TypeOK
  <2>1. preserve \in BOOLEAN
    BY Zenon DEF Init
  <2> QED
    BY <2>1, <1>1, <1>2, <1>3, <1>4 DEF TypeOK
<1> QED
  BY <1>1, <1>4, <1>5 DEF IInv

LEMMA DirectiveStep ==
  ASSUME IInv, phase = "parse", NEW s, Good(s), Directive(s)
  PROVE  IInv'
<1>1. TypeOK'
  BY DEF IInv, TypeOK, Directive, Good
<1>2. OptionCached(m') /\ (m'.fatal => phase' = "exit")
  BY DEF Directive, Good
<1>3. todo' = 0 /\ phase' \in {"line", "exit"}
  BY DEF IInv, Directive
<1> QED
  BY <1>1, <1>2, <1>3 DEF IInv, OptionCached

LEMMA EmissionStep ==
  ASSUME IInv, phase = "parse", NEW n \in Int, NEW keep \in BOOLEAN, Emission(n, keep)
  PROVE  IInv'
<1>1. TypeOK'
  BY DEF IInv, TypeOK, Emission
<1>2. pc' > 0 /\ phase' = "emit" /\ OptionCached(m)' /\ ~m'.fatal
  BY DEF IInv, Emission, OptionCached
<1> QED
  BY <1>1, <1>2 DEF IInv

LEMMA PrepareLineStep ==
  ASSUME IInv, PrepareLine
  PROVE  IInv'
<1>1. m' \in Machine /\ OptionCached(m')
  BY CheckPageType, CheckPageCaches DEF PrepareLine, IInv, TypeOK
<1>2. prog' \in Seq(Lines) /\ pc' \in 0 .. Len(prog') /\ pc' > 0
  <2>1. pc \in Nat /\ pc <= Len(prog) /\ prog \in Seq(Lines)
    BY DEF IInv, TypeOK
  <2>2. CASE pc < Len(prog) /\ prog' = prog
    BY <2>1, <2>2 DEF PrepareLine
  <2>3. CASE pc = Len(prog) /\ \E line \in Lines : prog' = Append(prog, line)
    BY <2>1, <2>3 DEF PrepareLine
  <2> QED
    BY <2>2, <2>3 DEF PrepareLine
<1>3. /\ phase' \in {"parse", "exit"} /\ todo' = 0
      /\ m'.fatal => phase' = "exit"
  BY DEF PrepareLine, IInv
<1>4. TypeOK'
  BY <1>1, <1>2, <1>3 DEF TypeOK, IInv, PrepareLine
<1> QED
  BY <1>1, <1>2, <1>3, <1>4 DEF IInv, OptionCached

LEMMA EmitByteStep ==
  ASSUME IInv, EmitByteNoListing
  PROVE  IInv'
<1> DEFINE s == IF m.DeviceID THEN CheckPage(m, "EMIT") ELSE CheckRamLimitExceeded(m)
           p == IF m.DeviceID THEN MovePointer(s, 1) ELSE s
<1>1. Good(s)
  BY CheckPageType, CheckPageCaches, CheckRamLimitGood DEF IInv, TypeOK, Good
<1>2. Good(p) /\ p.fatal = s.fatal
  BY <1>1, MovePointerGood DEF Good
<1>3. Good(Move(p, 1)) /\ Move(p, 1).fatal = s.fatal
  BY <1>2, MoveGood DEF Good
<1>4. pc > 0 /\ pc \in Nat /\ todo \in Int /\ phase = "emit"
  BY DEF EmitByteNoListing, IInv, TypeOK
<1>5. UNCHANGED <<pass, pc, prog, preserve, labels>>
  BY DEF EmitByteNoListing
<1> DEFINE stores == m.DeviceID /\ s.MemoryPointer # Null
<1>6. CASE s.fatal
  <2>1. m' = s /\ phase' = "exit" /\ UNCHANGED <<mem, todo, excursion>>
    BY <1>6 DEF EmitByteNoListing
  <2> HIDE DEF s
  <2>2. TypeOK'
    BY <2>1, <1>1, <1>5 DEF IInv, TypeOK, Good
  <2> QED
    BY <2>1, <2>2, <1>1 DEF IInv, Good, OptionCached
<1>7. CASE ~s.fatal
  <2>1. /\ m' = Move(p, 1)
        /\ mem' = IF stores /\ pass = LASTPASS /\ ~preserve
                  THEN [mem EXCEPT ![s.MemoryPointer.page][s.MemoryPointer.off] = pc]
                  ELSE mem
        /\ todo' = todo - 1 /\ phase' = phase
        /\ excursion' \in {"inside", "reported", "silent"}
    BY <1>7 DEF EmitByteNoListing
  <2> HIDE DEF s, p, stores
  <2>2. m' \in Machine /\ OptionCached(m') /\ ~m'.fatal
    BY <2>1, <1>3, <1>7 DEF Good
  <2>3. mem' \in [Pages -> [0 .. SlotSize - 1 -> Nat]]
    BY <2>1, <1>4 DEF IInv, TypeOK
  <2>4. TypeOK'
    BY <2>1, <2>2, <2>3, <1>4, <1>5 DEF IInv, TypeOK
  <2> QED
    BY <2>1, <2>2, <2>4, <1>4, <1>5 DEF IInv, OptionCached
<1> QED
  BY <1>6, <1>7

LEMMA SkipStep ==
  ASSUME IInv, SkipIncludedBytes
  PROVE  IInv'
<1> DEFINE s == IF m.DeviceID THEN CheckPage(m, "EMIT") ELSE m
           room == (s.Page + 1 - s.MemoryPointer.page) * SlotSize - s.MemoryPointer.off
           advance == IF m.DeviceID /\ s.MemoryPointer # Null /\ room < todo
                      THEN room ELSE todo
           p == IF m.DeviceID THEN MovePointer(s, advance) ELSE s
<1>1. Good(s)
  BY CheckPageType, CheckPageCaches DEF IInv, TypeOK, Good
<1>2. pc > 0 /\ todo \in Int /\ phase = "emit"
  BY DEF SkipIncludedBytes, IInv, TypeOK
<1>3. UNCHANGED <<mem, pass, pc, prog, preserve, labels, excursion>>
  BY DEF SkipIncludedBytes
<1>4. advance \in Int
  <2> HIDE DEF s
  <2>1. s.Page \in Int /\ s.MemoryPointer.page \in Int /\ s.MemoryPointer.off \in Int
    BY <1>1, PagesAssumption DEF Good, Machine, Pages, NoArg, Pointers, Null
  <2>2. room \in Int
    BY <2>1, SlotsAssumption
  <2> HIDE DEF room
  <2> QED
    BY <2>2, <1>2
<1>5. CASE s.fatal
  <2>1. m' = s /\ phase' = "exit" /\ UNCHANGED todo
    BY <1>5 DEF SkipIncludedBytes
  <2> HIDE DEF s
  <2>2. TypeOK'
    BY <2>1, <1>1, <1>3 DEF IInv, TypeOK, Good
  <2> QED
    BY <2>1, <2>2, <1>1 DEF IInv, Good, OptionCached
<1>6. CASE ~s.fatal
  <2>1. m' = Move(p, advance) /\ todo' = todo - advance /\ phase' = phase
    BY <1>6 DEF SkipIncludedBytes
  <2> HIDE DEF s, advance
  <2>2. Good(p) /\ p.fatal = s.fatal
    BY <1>1, <1>4, MovePointerGood DEF Good
  <2> HIDE DEF p
  <2>3. Good(m') /\ ~m'.fatal
    BY <2>1, <2>2, <1>4, <1>6, MoveGood DEF Good
  <2>4. TypeOK'
    BY <2>1, <2>3, <1>2, <1>3, <1>4 DEF IInv, TypeOK, Good
  <2> QED
    BY <2>1, <2>3, <2>4, <1>2, <1>3 DEF IInv, Good, OptionCached
<1> QED
  BY <1>5, <1>6

\* The line being assembled is a line of the program.
LEMMA LineIsLine ==
  ASSUME IInv, phase \in {"parse", "emit"}
  PROVE  Line \in LineType
<1>1. pc \in 1 .. Len(prog) /\ prog \in Seq(Lines)
  BY DEF IInv, TypeOK
<1>2. prog[pc] \in Lines
  BY <1>1
<1> QED
  BY <1>2, LinesAssumption DEF Line

LEMMA NextIInv == IInv /\ [Next]_vars => IInv'
<1> SUFFICES ASSUME IInv, [Next]_vars PROVE IInv'
  OBVIOUS
<1>m. m \in Machine /\ OptionCached(m)
  BY DEF IInv, TypeOK
<1>1. CASE PrepareLine
  BY <1>1, PrepareLineStep
<1>2. CASE ORG
  BY <1>2, <1>m, LineIsLine, LineArguments, dirORGGood, DirectiveStep DEF ORG, Parsing
<1>3. CASE DISP
  BY <1>3, <1>m, LineIsLine, LineArguments, dirDISPGood, DirectiveStep DEF DISP, Parsing
<1>4. CASE ENT
  BY <1>4, <1>m, dirENTGood, DirectiveStep DEF ENT, Parsing
<1>5. CASE PAGE
  BY <1>5, <1>m, dirPAGEGood, DirectiveStep DEF PAGE, Parsing
<1>6. CASE MMU
  BY <1>6, <1>m, LineIsLine, LineArguments, dirMMUGood, DirectiveStep DEF MMU, Parsing
<1>7. CASE SLOT
  BY <1>7, <1>m, dirSLOTGood, DirectiveStep DEF SLOT, Parsing
<1>8. CASE DEVICE
  BY <1>8, <1>m, dirDEVICEGood, DirectiveStep DEF DEVICE, Parsing
<1>9. CASE BLOCK
  <2>1. phase = "parse" /\ Line.len \in Int /\ FALSE \in BOOLEAN
    BY <1>9, LineIsLine, LineArguments DEF BLOCK, Parsing
  <2>2. CASE Line.len <= 0
    BY <1>9, <2>1, <2>2, <1>m, MoveBackGood, DirectiveStep DEF BLOCK
  <2>3. CASE ~(Line.len <= 0)
    BY <1>9, <2>1, <2>3, EmissionStep DEF BLOCK
  <2> QED
    BY <2>2, <2>3
<1>10. CASE DB
  <2>1. phase = "parse" /\ Line.len \in Int /\ FALSE \in BOOLEAN
    BY <1>10, LineIsLine, LineArguments DEF DB, Parsing
  <2> QED
    BY <1>10, <2>1, EmissionStep DEF DB
<1>11. CASE ALIGN
  <2> DEFINE len == (-m.CurAddress) % Line.align
  <2>1. phase = "parse" /\ Line.align \in Nat \ {0} /\ Line.fill \in BOOLEAN
    BY <1>11, LineIsLine, LineArguments DEF ALIGN, Parsing
  <2>2. len \in Int
    <3>1. m.CurAddress \in Int
      BY <1>m DEF Machine
    <3> QED
      BY <2>1, <3>1
  <2>3. (~Line.fill) \in BOOLEAN
    OBVIOUS
  <2> HIDE DEF len
  <2>4. CASE len < 1
    BY <1>11, <2>1, <2>4, <1>m, DirectiveStep DEF ALIGN, len, Good
  <2>5. CASE ~(len < 1)
    BY <1>11, <2>1, <2>2, <2>3, <2>5, EmissionStep DEF ALIGN, len
  <2> QED
    BY <2>4, <2>5
<1>12. CASE INCBIN
  <2>1. phase = "parse" /\ Line.len \in Int /\ FALSE \in BOOLEAN
    BY <1>12, LineIsLine, LineArguments DEF INCBIN, Parsing
  <2> QED
    BY <1>12, <2>1, EmissionStep DEF INCBIN
<1>13. CASE EmitByteNoListing
  BY <1>13, EmitByteStep
<1>14. CASE SkipIncludedBytes
  BY <1>14, SkipStep
<1>15. CASE LineDone
  BY <1>15 DEF LineDone, IInv, TypeOK, OptionCached
<1>16. CASE EndOfSource
  <2> DEFINE r == [m EXCEPT !.CurAddress = m.adrdisp, !.PseudoORG = FALSE]
  <2>1. r \in Machine
    BY <1>m DEF Machine
  <2>2. OptionCached(r) /\ r.fatal = m.fatal
    BY <1>m DEF Machine, OptionCached
  <2> HIDE DEF r
  <2>3. m' \in Machine /\ OptionCached(m') /\ m'.fatal = m.fatal
    BY <1>16, <1>m, <2>1, <2>2 DEF EndOfSource, r
  <2>4. TypeOK'
    BY <1>16, <2>3 DEF EndOfSource, IInv, TypeOK
  <2> QED
    BY <1>16, <2>3, <2>4 DEF EndOfSource, IInv, OptionCached
<1>17. CASE NextPass
  <2>1. Good(m') /\ ~m'.fatal
    BY <1>17, InitPassGood DEF NextPass
  <2>2. mem' \in [Pages -> [0 .. SlotSize - 1 -> Nat]]
    BY <1>17 DEF NextPass, EmptyMemory
  <2>3. /\ pass' \in 1 .. LASTPASS /\ pc' \in 0 .. Len(prog') /\ prog' \in Seq(Lines)
        /\ todo' = 0 /\ phase' = "line" /\ excursion' = "inside" /\ preserve' = preserve
    BY <1>17 DEF NextPass, IInv, TypeOK, LASTPASS
  <2>4. TypeOK'
    BY <2>1, <2>2, <2>3 DEF TypeOK, IInv, Good
  <2> QED
    BY <2>1, <2>3, <2>4 DEF IInv, Good, OptionCached
<1>18. CASE LastPassDone
  BY <1>18 DEF LastPassDone, IInv, TypeOK, OptionCached
<1>19. CASE UNCHANGED vars
  BY <1>19 DEF vars, IInv, TypeOK, OptionCached
<1>20. CASE Exited
  BY <1>19, <1>20 DEF Exited
<1> QED
  BY <1>1, <1>2, <1>3, <1>4, <1>5, <1>6, <1>7, <1>8, <1>9, <1>10, <1>11, <1>12, <1>13,
     <1>14, <1>15, <1>16, <1>17, <1>18, <1>19, <1>20 DEF Next

\* Type correctness of the device memory in all three passes, and the
\* invariant it rests on.
THEOREM DeviceMemoryInvariant == Spec => []IInv
  BY InitIInv, NextIInv, PTL DEF Spec

\* The types alone: what every other argument about the pages, the slots and
\* the counters of the three passes starts from.
THEOREM DeviceMemoryTypeOK == Spec => []TypeOK
<1>1. IInv => TypeOK
  BY DEF IInv
<1> QED
  BY <1>1, DeviceMemoryInvariant, PTL

----------------------------------------------------------------------------
(* Emission implements BankedMemory *)

\* r differs from s in nothing that decides where a byte goes.
SamePlace(r, s) ==
  /\ r.CurAddress = s.CurAddress /\ r.adrdisp = s.adrdisp
  /\ r.PseudoORG = s.PseudoORG /\ r.DeviceID = s.DeviceID
  /\ r.slotPage = s.slotPage /\ r.MemoryPointer = s.MemoryPointer
  /\ r.fatal = s.fatal
  /\ Wrapping(r) \subseteq Wrapping(s)

LEMMA EnterSlotFrame ==
  ASSUME NEW s \in Machine, NEW i \in Slots
  PROVE  SamePlace(EnterSlot(s, i), s)
  BY DEF EnterSlot, Machine, SamePlace, Wrapping

LEMMA SettleFrame ==
  ASSUME NEW s \in Machine, NEW i \in Slots, NEW level
  PROVE  SamePlace(Settle(s, i, level), s)
<1>1. (s.limitExceeded /\ s.previousSlotI = i) \in BOOLEAN
  OBVIOUS
<1> DEFINE r == [s EXCEPT !.limitExceeded = @ /\ s.previousSlotI = i]
<1>2. r \in Machine
  BY <1>1 DEF Machine
<1>3. SamePlace(r, s)
  BY DEF Machine, SamePlace, Wrapping
<1>4. SamePlace(EnterSlot(r, i), r)
  BY <1>2, EnterSlotFrame
<1>5. SamePlace(EnterSlot(r, i), s)
  BY <1>3, <1>4 DEF SamePlace
<1>6. SamePlace(s, s)
  BY DEF SamePlace
<1> HIDE DEF r
<1> QED
  BY <1>5, <1>6 DEF Settle, r

LEMMA LeaveGuardedFrame ==
  ASSUME NEW s \in Machine, NEW i \in Slots, NEW level
  PROVE  SamePlace(LeaveGuardedSlot(s, i, level), s)
<1>0. s.reports + 1 \in Nat /\ TRUE \in BOOLEAN
  BY DEF Machine
<1> DEFINE r == [s EXCEPT !.limitExceeded = TRUE, !.reports = @ + 1]
<1>1. r \in Machine
  BY <1>0 DEF Machine
<1>2. SamePlace(r, s)
  BY DEF Machine, SamePlace, Wrapping
<1> HIDE DEF r
<1>3. SamePlace(Settle(r, i, level), s) /\ SamePlace(Settle(s, i, level), s)
  BY <1>1, <1>2, SettleFrame DEF SamePlace
<1> QED
  BY <1>3 DEF LeaveGuardedSlot, r

LEMMA LeavePlainFrame ==
  ASSUME NEW s \in Machine, NEW i \in Slots, NEW level
  PROVE  SamePlace(LeavePlainSlot(s, i, level), s)
<1>0. s.reports + 1 \in Nat /\ TRUE \in BOOLEAN
  BY DEF Machine
<1> DEFINE r == [s EXCEPT !.limitExceeded = TRUE, !.reports = @ + 1, !.previousSlotI = i]
<1>1. r \in Machine
  BY <1>0 DEF Machine
<1>2. SamePlace(r, s)
  BY DEF Machine, SamePlace, Wrapping
<1> HIDE DEF r
<1>3. SamePlace(Settle(r, i, level), s) /\ SamePlace(Settle(s, i, level), s)
  BY <1>1, <1>2, SettleFrame DEF SamePlace
<1> QED
  BY <1>3 DEF LeavePlainSlot, r

\* The next page was mapped into the full slot and the address wrapped.
PageTurned(r, s) ==
  \E i \in Wrapping(s) :
    /\ LongAddr(s) = Address(i) + SlotSize
    /\ s.slotPage[i] + 1 \in Pages
    /\ r.slotPage = [s.slotPage EXCEPT ![i] = @ + 1]
    /\ r.MemoryPointer = [page |-> s.slotPage[i] + 1, off |-> 0]
    /\ LongAddr(r) = Address(i)
    /\ Wrapping(r) = Wrapping(s)
    /\ r.PseudoORG = s.PseudoORG /\ r.DeviceID = s.DeviceID /\ r.fatal = s.fatal

\* A fatal error leaves the memory layout alone.
Failed(r, s) == r.fatal /\ LongAddr(r) = LongAddr(s) /\ r.slotPage = s.slotPage
                /\ r.slotOption = s.slotOption /\ r.DeviceID = s.DeviceID

LEMMA LeaveWrappingFrame ==
  ASSUME NEW s \in Machine, NEW i \in Slots, NEW level,
         OptionCached(s), s.previousSlotOpt = "O_NEXT"
  PROVE  LET r == LeaveWrappingSlot(s, i, level)
         IN  SamePlace(r, s) \/ PageTurned(r, s) \/ Failed(r, s)
<1> DEFINE prev == s.previousSlotI
           next == s.slotPage[prev] + 1
           stopped == [Report(s, 1) EXCEPT !.slotOption[prev] = "O_NONE",
                                           !.limitExceeded = FALSE]
           back == SetLongAddr(s, LongAddr(s) - SlotSize)
           turned == [back EXCEPT !.slotPage[prev] = next, !.Page = next,
                                  !.MemoryPointer = [page |-> next, off |-> 0]]
<1>1. SamePlace(Settle(EnterSlot(stopped, i), i, level), s)
  <2>1. Report(s, 1) \in Machine /\ SamePlace(Report(s, 1), s)
    BY ReportType DEF Report, Machine, SamePlace, Wrapping
  <2> DEFINE q == Report(s, 1)
  <2> HIDE DEF q
  <2>2. q \in Machine /\ prev \in Slots
    BY <2>1 DEF q, Machine
  <2> DEFINE z == [q EXCEPT !.slotOption[prev] = "O_NONE", !.limitExceeded = FALSE]
  <2>3. z \in Machine
    BY <2>2 DEF Machine, SlotOptions
  <2>4. SamePlace(z, q)
    BY <2>2 DEF Machine, SamePlace, Wrapping
  <2> HIDE DEF z
  <2>5. SamePlace(EnterSlot(z, i), z) /\ EnterSlot(z, i) \in Machine
    BY <2>3, EnterSlotFrame, EnterSlotType
  <2>6. SamePlace(Settle(EnterSlot(z, i), i, level), EnterSlot(z, i))
    BY <2>5, SettleFrame
  <2>7. SamePlace(Settle(EnterSlot(z, i), i, level), s)
    BY <2>1, <2>4, <2>5, <2>6 DEF SamePlace, q
  <2> QED
    BY <2>7 DEF z, q
<1>2. Failed([s EXCEPT !.fatal = TRUE], s)
  BY DEF Failed, Machine, LongAddr
<1>3. ASSUME ~(PagesCount <= next), LongAddr(s) = Address(prev) + SlotSize
      PROVE  PageTurned(turned, s)
  <2>1. prev \in Wrapping(s) /\ prev \in Slots /\ s.slotPage[prev] \in Pages
    BY DEF Wrapping, OptionCached, Machine
  <2>2. next \in Pages
    BY <2>1, <1>3, PagesAssumption DEF Pages
  <2>3. /\ back \in Machine /\ LongAddr(back) = Address(prev)
        /\ back.slotPage = s.slotPage /\ back.slotOption = s.slotOption
        /\ back.PseudoORG = s.PseudoORG /\ back.DeviceID = s.DeviceID
        /\ back.fatal = s.fatal
    <3>1. LongAddr(s) - SlotSize = Address(prev) /\ LongAddr(s) - SlotSize \in Int
      BY <1>3, <2>1, LongAddrIsInt, AddressIsInt, SlotsAssumption
    <3> QED
      BY <3>1, SetLongAddrType
  <2> HIDE DEF back
  <2>4. /\ turned.slotPage = [s.slotPage EXCEPT ![prev] = @ + 1]
        /\ turned.MemoryPointer = [page |-> s.slotPage[prev] + 1, off |-> 0]
    BY <2>3 DEF Machine
  <2>5. LongAddr(turned) = Address(prev) /\ Wrapping(turned) = Wrapping(s)
    BY <2>3 DEF Machine, LongAddr, Wrapping
  <2>6. turned.PseudoORG = s.PseudoORG /\ turned.DeviceID = s.DeviceID /\ turned.fatal = s.fatal
    BY <2>3 DEF Machine
  <2> HIDE DEF turned, prev
  <2> QED
    BY <2>1, <2>2, <2>4, <2>5, <2>6, <1>3 DEF PageTurned
<1> HIDE DEF stopped, turned
<1> QED
  BY <1>1, <1>2, <1>3 DEF LeaveWrappingSlot, stopped, turned

\* Where CheckPage(CHECK_EMIT) sends the next byte.
InMemory(r, s) ==
  /\ \E i \in Slots : /\ InSlot(i, LongAddr(s))
                      /\ r.MemoryPointer = [page |-> s.slotPage[i],
                                            off |-> LongAddr(s) - Address(i)]
  /\ LongAddr(r) = LongAddr(s) /\ r.slotPage = s.slotPage
  /\ Wrapping(r) \subseteq Wrapping(s)
  /\ r.PseudoORG = s.PseudoORG /\ r.DeviceID = s.DeviceID /\ r.fatal = s.fatal

OutOfMemory(r, s) ==
  /\ LongAddr(s) \notin 0 .. AddressSpace - 1
  /\ r.MemoryPointer = Null
  /\ LongAddr(r) = LongAddr(s) /\ r.slotPage = s.slotPage
  /\ Wrapping(r) \subseteq Wrapping(s)
  /\ r.PseudoORG = s.PseudoORG /\ r.DeviceID = s.DeviceID /\ r.fatal = s.fatal

LEMMA EmitTarget ==
  ASSUME NEW s0 \in Machine, OptionCached(s0), ~s0.fatal
  PROVE  LET r == CheckPage(s0, "EMIT")
         IN  InMemory(r, s0) \/ PageTurned(r, s0) \/ OutOfMemory(r, s0) \/ Failed(r, s0)
<1> DEFINE s == DispWrap(s0, "EMIT")
           i == SlotBelow(LongAddr(s) % AddressSpace)
           t == Locate(s, i)
           r == LeaveSlot(t, i, "EMIT")
           fast == [s EXCEPT !.MemoryPointer = PointerInto(s, s.previousSlotI)]
<1>1. s \in Machine /\ i \in Slots /\ LongAddr(s) = LongAddr(s0) /\ LongAddr(s) \in Int
  BY DispWrapType, LongAddrIsInt, MaskedIsInRange, SlotBelowFound
<1>2. /\ s.slotPage = s0.slotPage /\ s.slotOption = s0.slotOption
      /\ s.PseudoORG = s0.PseudoORG /\ s.DeviceID = s0.DeviceID /\ s.fatal = s0.fatal
      /\ OptionCached(s)
  BY DEF DispWrap, Machine, OptionCached
<1>3. ASSUME LongAddr(s) \in 0 .. AddressSpace - 1 PROVE InSlot(i, LongAddr(s))
  <2>1. LongAddr(s) % AddressSpace = LongAddr(s)
    BY <1>3, <1>1, SpaceAssumption
  <2> QED
    BY <2>1, <1>1, <1>3, SlotBelowFound, SpaceAssumption
<1> HIDE DEF s, i
<1>4. ASSUME InSlot(s.previousSlotI, LongAddr(s)) PROVE InMemory(fast, s0)
  <2>1. s.previousSlotI \in Slots
    BY <1>1 DEF Machine
  <2>2. fast.MemoryPointer = [page |-> s0.slotPage[s.previousSlotI],
                              off |-> LongAddr(s0) - Address(s.previousSlotI)]
    BY <1>1, <1>2 DEF PointerInto, Machine
  <2>3. /\ LongAddr(fast) = LongAddr(s0) /\ fast.slotPage = s0.slotPage
        /\ Wrapping(fast) = Wrapping(s0)
        /\ fast.PseudoORG = s0.PseudoORG /\ fast.DeviceID = s0.DeviceID
        /\ fast.fatal = s0.fatal
    BY <1>1, <1>2 DEF Machine, LongAddr, Wrapping
  <2> HIDE DEF fast
  <2> QED
    BY <2>1, <2>2, <2>3, <1>1, <1>4 DEF InMemory
<1>5. /\ t \in Machine /\ OptionCached(t)
      /\ LongAddr(t) = LongAddr(s0) /\ t.slotPage = s0.slotPage
      /\ t.slotOption = s0.slotOption
      /\ t.PseudoORG = s0.PseudoORG /\ t.DeviceID = s0.DeviceID /\ t.fatal = s0.fatal
  <2>1. t \in Machine /\ OptionCached(t)
    BY <1>1, <1>2, LocateType, LocateCaches
  <2> QED
    BY <2>1, <1>1, <1>2 DEF Locate, Machine, LongAddr
<1>6. t.MemoryPointer = IF InSlot(i, LongAddr(s0))
                        THEN [page |-> s0.slotPage[i], off |-> LongAddr(s0) - Address(i)]
                        ELSE Null
  BY <1>1, <1>2 DEF Locate, PointerInto, Machine
<1> HIDE DEF t
<1>7. SamePlace(r, t) \/ PageTurned(r, t) \/ Failed(r, t)
  <2>1. CASE t.previousSlotOpt \in {"O_ERROR", "O_WARNING"}
    BY <2>1, <1>1, <1>5, LeaveGuardedFrame DEF LeaveSlot
  <2>2. CASE t.previousSlotOpt = "O_NEXT"
    BY <2>2, <1>1, <1>5, LeaveWrappingFrame DEF LeaveSlot
  <2>3. CASE t.previousSlotOpt \notin {"O_ERROR", "O_WARNING", "O_NEXT"}
    BY <2>3, <1>1, <1>5, LeavePlainFrame DEF LeaveSlot
  <2> QED
    BY <2>1, <2>2, <2>3
<1> HIDE DEF r
<1>8. Wrapping(t) = Wrapping(s0)
  BY <1>5 DEF Wrapping
<1>9. InMemory(r, s0) \/ PageTurned(r, s0) \/ OutOfMemory(r, s0) \/ Failed(r, s0)
  <2>1. CASE PageTurned(r, t)
    BY <2>1, <1>5, <1>8 DEF PageTurned
  <2>2. CASE Failed(r, t)
    BY <2>2, <1>5 DEF Failed
  <2>3. CASE SamePlace(r, t)
    <3>1. /\ LongAddr(r) = LongAddr(s0) /\ r.slotPage = s0.slotPage
          /\ Wrapping(r) \subseteq Wrapping(s0)
          /\ r.PseudoORG = s0.PseudoORG /\ r.DeviceID = s0.DeviceID /\ r.fatal = s0.fatal
          /\ r.MemoryPointer = t.MemoryPointer
      BY <2>3, <1>5, <1>8 DEF SamePlace, LongAddr
    <3>2. CASE InSlot(i, LongAddr(s0))
      BY <3>1, <3>2, <1>1, <1>6 DEF InMemory
    <3>3. CASE ~InSlot(i, LongAddr(s0))
      BY <3>1, <3>3, <1>1, <1>3, <1>6 DEF OutOfMemory
    <3> QED
      BY <3>2, <3>3
  <2> QED
    BY <1>7, <2>1, <2>2, <2>3
<1> QED
  BY <1>4, <1>9 DEF CheckPage, s, i, t, r

\* After a byte both addresses and the pointer move on by one.
LEMMA AfterByte ==
  ASSUME NEW s \in Machine
  PROVE  LET r == Move(MovePointer(s, 1), 1)
         IN  /\ LongAddr(r) = LongAddr(s) + 1
             /\ r.slotPage = s.slotPage /\ r.slotOption = s.slotOption
             /\ r.DeviceID = s.DeviceID
<1> DEFINE p == MovePointer(s, 1)
<1>1. /\ p.CurAddress = s.CurAddress /\ p.adrdisp = s.adrdisp
      /\ p.PseudoORG = s.PseudoORG /\ p.DeviceID = s.DeviceID
      /\ p.slotPage = s.slotPage /\ p.slotOption = s.slotOption
      /\ p \in Machine
  <2> DEFINE q == [s.MemoryPointer EXCEPT !.off = @ + 1]
  <2>1. CASE s.MemoryPointer = Null
    BY <2>1 DEF MovePointer
  <2>2. CASE s.MemoryPointer # Null
    <3>1. s.MemoryPointer \in [page : Pages, off : Int]
      BY <2>2 DEF Machine, Pointers
    <3>2. q \in Pointers
      BY <3>1 DEF Pointers
    <3>3. p = [s EXCEPT !.MemoryPointer = q]
      BY <2>2 DEF MovePointer, Machine
    <3> HIDE DEF p, q
    <3> QED
      BY <3>2, <3>3 DEF Machine
  <2> QED
    BY <2>1, <2>2
<1> HIDE DEF p
<1>2. /\ Move(p, 1).PseudoORG = p.PseudoORG /\ Move(p, 1).DeviceID = p.DeviceID
      /\ Move(p, 1).slotPage = p.slotPage /\ Move(p, 1).slotOption = p.slotOption
      /\ Move(p, 1).CurAddress = p.CurAddress + 1
      /\ p.PseudoORG => Move(p, 1).adrdisp = p.adrdisp + 1
  BY <1>1 DEF Move, Machine
<1> QED
  BY <1>1, <1>2 DEF LongAddr, p

LEMMA RefineEmit ==
  ASSUME IInv, EmitByteNoListing
  PROVE  Abstract!Next \/ UNCHANGED Abstract!vars
<1> DEFINE storing == pass = LASTPASS /\ m.DeviceID /\ ~preserve
<1>1. /\ m \in Machine /\ OptionCached(m) /\ ~m.fatal /\ todo > 0
      /\ UNCHANGED <<pass, pc, preserve>>
  BY DEF IInv, TypeOK, EmitByteNoListing
<1>2. CASE ~m.DeviceID
  <2>1. /\ CheckRamLimitExceeded(m).DeviceID = m.DeviceID
        /\ CheckRamLimitExceeded(m).fatal = m.fatal
        /\ CheckRamLimitExceeded(m) \in Machine
    BY <1>1, CheckRamLimitGood DEF CheckRamLimitExceeded, Machine, Good
  <2>2. m' = Move(CheckRamLimitExceeded(m), 1) /\ mem' = mem
    BY <1>1, <1>2, <2>1 DEF EmitByteNoListing
  <2>3. m'.DeviceID = m.DeviceID
    <3>1. Move(CheckRamLimitExceeded(m), 1).DeviceID = CheckRamLimitExceeded(m).DeviceID
      BY <2>1 DEF Move, Machine
    <3> QED
      BY <2>1, <2>2, <3>1
  <2> QED
    BY <1>1, <1>2, <2>2, <2>3 DEF Abstract!Next, Abstract!Skip
<1>3. CASE m.DeviceID
  <2> DEFINE s == CheckPage(m, "EMIT")
  <2>1. InMemory(s, m) \/ PageTurned(s, m) \/ OutOfMemory(s, m) \/ Failed(s, m)
    BY <1>1, EmitTarget
  <2>2. s \in Machine
    BY <1>1, CheckPageType
  <2>3. /\ s.fatal => m' = s /\ UNCHANGED <<mem, todo>>
        /\ ~s.fatal => /\ m' = Move(MovePointer(s, 1), 1)
                       /\ mem' = IF s.MemoryPointer # Null /\ storing
                                 THEN [mem EXCEPT ![s.MemoryPointer.page][s.MemoryPointer.off] = pc]
                                 ELSE mem
                       /\ todo' = todo - 1
    BY <1>3 DEF EmitByteNoListing
  <2> HIDE DEF s
  <2>4. m'.DeviceID = m.DeviceID
    <3>1. s.DeviceID = m.DeviceID
      BY <2>1 DEF InMemory, PageTurned, OutOfMemory, Failed
    <3>2. Move(MovePointer(s, 1), 1).DeviceID = s.DeviceID
      BY <2>2, AfterByte
    <3> QED
      BY <2>3, <3>1, <3>2
  <2>5. CASE ~storing
    BY <1>1, <2>3, <2>4, <2>5 DEF Abstract!Next, Abstract!Skip
  <2>6. CASE storing /\ Failed(s, m)
    BY <1>1, <2>3, <2>4, <2>6 DEF Abstract!vars, Failed, Wrapping
  <2>7. CASE storing /\ ~s.fatal
    <3>1. /\ LongAddr(m') = LongAddr(s) + 1 /\ m'.slotPage = s.slotPage
          /\ Wrapping(m') = Wrapping(s)
      BY <2>2, <2>3, <2>7, AfterByte DEF Wrapping
    <3>2. Abstract!Emitting
      BY <1>1, <2>3, <2>4, <2>7 DEF Abstract!Emitting
    <3>3. CASE InMemory(s, m)
      <4>1. PICK i \in Slots :
              /\ InSlot(i, LongAddr(m))
              /\ s.MemoryPointer = [page |-> m.slotPage[i], off |-> LongAddr(m) - Address(i)]
        BY <3>3 DEF InMemory
      <4>2. m.slotPage[i] \in Pages
        BY <1>1 DEF Machine
      <4>3. s.MemoryPointer # Null
        BY <4>1, <4>2, PagesAssumption DEF Null, Pages
      <4>4. mem' = [mem EXCEPT ![m.slotPage[i]][LongAddr(m) - Address(i)] = pc]
        BY <2>3, <2>7, <4>1, <4>3
      <4>5. Abstract!Store(i)
        BY <3>1, <3>2, <3>3, <4>1, <4>4 DEF Abstract!Store, Abstract!Put, Abstract!Start,
           InMemory, InSlot, Address
      <4> QED
        BY <4>5 DEF Abstract!Next
    <3>4. CASE PageTurned(s, m)
      <4>1. PICK i \in Wrapping(m) :
              /\ LongAddr(m) = Address(i) + SlotSize
              /\ m.slotPage[i] + 1 \in Pages
              /\ s.slotPage = [m.slotPage EXCEPT ![i] = @ + 1]
              /\ s.MemoryPointer = [page |-> m.slotPage[i] + 1, off |-> 0]
              /\ LongAddr(s) = Address(i)
              /\ Wrapping(s) = Wrapping(m)
        BY <3>4 DEF PageTurned
      <4>2. i \in Slots
        BY DEF Wrapping
      <4>3. s.MemoryPointer # Null
        BY <4>1, PagesAssumption DEF Null, Pages
      <4>4. mem' = [mem EXCEPT ![m.slotPage[i] + 1][0] = pc]
        BY <2>3, <2>7, <4>1, <4>3
      <4>5. Abstract!StoreInNextPage(i)
        BY <3>1, <3>2, <4>1, <4>4 DEF Abstract!StoreInNextPage, Abstract!Put,
           Abstract!Start, Address
      <4> QED
        BY <4>2, <4>5 DEF Abstract!Next
    <3>5. CASE OutOfMemory(s, m)
      <4>1. Abstract!Lose
        BY <2>3, <2>7, <3>1, <3>2, <3>5 DEF Abstract!Lose, OutOfMemory
      <4> QED
        BY <4>1 DEF Abstract!Next
    <3> QED
      BY <2>1, <2>7, <3>3, <3>4, <3>5 DEF Failed
  <2> QED
    BY <1>1, <2>1, <2>5, <2>6, <2>7 DEF InMemory, PageTurned, OutOfMemory
<1> QED
  BY <1>2, <1>3

LEMMA RefineNext ==
  ASSUME IInv, [Next]_vars
  PROVE  Abstract!Next \/ UNCHANGED Abstract!vars
<1>1. CASE UNCHANGED vars
  BY <1>1 DEF vars, Abstract!vars
<1>2. CASE EmitByteNoListing
  BY <1>2, RefineEmit
<1>3. CASE SkipIncludedBytes
  <2>1. pass # LASTPASS /\ todo > 0 /\ UNCHANGED <<mem, pc, pass>>
    BY <1>3 DEF SkipIncludedBytes, SkipsFile
  <2> QED
    BY <2>1 DEF Abstract!Next, Abstract!Skip
<1>4. CASE NextPass
  BY <1>4 DEF NextPass, IInv, Abstract!Next, Abstract!Restart, EmptyMemory, Abstract!Empty
<1>5. ASSUME phase \notin {"emit", "exit"} \/ LineDone, mem' = mem
      PROVE  Abstract!Next
  BY <1>5 DEF IInv, LineDone, Abstract!Next, Abstract!Command
<1>6. CASE PrepareLine \/ EndOfSource \/ LastPassDone \/ LineDone
  BY <1>5, <1>6 DEF PrepareLine, EndOfSource, LastPassDone, LineDone
<1>7. CASE ORG \/ DISP \/ ENT \/ PAGE \/ MMU \/ SLOT \/ DEVICE
  BY <1>5, <1>7 DEF ORG, DISP, ENT, PAGE, MMU, SLOT, DEVICE, Parsing, Directive
<1>8. CASE BLOCK \/ DB \/ ALIGN \/ INCBIN
  BY <1>5, <1>8 DEF BLOCK, DB, ALIGN, INCBIN, Parsing, Directive, Emission
<1>9. CASE Exited
  BY <1>1, <1>9 DEF Exited
<1> QED
  BY <1>1, <1>2, <1>3, <1>4, <1>6, <1>7, <1>8, <1>9 DEF Next

\* Every byte the last pass emits is stored through the mapping in force at
\* its physical address, whatever directives ran before and whatever the
\* caches of CheckPage hold; it is lost only outside of the address space.
THEOREM DeviceMemoryRefinement == Spec => ImplementsBankedMemory
<1>1. Init => Abstract!Init
  BY InitialMachineGood DEF Init, InitialMachine, Good, Machine, Abstract!Init, Abstract!Empty,
     EmptyMemory, Wrapping, LongAddr, LASTPASS
<1>2. IInv /\ [Next]_vars => [Abstract!Next]_(Abstract!vars)
  BY RefineNext
<1> QED
  BY <1>1, <1>2, DeviceMemoryInvariant, PTL DEF Spec, ImplementsBankedMemory, Abstract!Spec


----------------------------------------------------------------------------
(* The invariant *)

\* Page is the page of the remembered slot while the address is in that slot.
PageCached(s) ==
  InSlot(s.previousSlotI, LongAddr(s)) => s.Page = s.slotPage[s.previousSlotI]

DispInRange(s) == s.PseudoORG /\ (s.DeviceID \/ ~IsLongPtr) => s.CurAddress <= AddressSpace

\* The address is behind the memory, and not only by the end of the slot.
Outside(s) ==
  LongAddr(s) >= AddressSpace /\ LongAddr(s) > Address(s.previousSlotI) + SlotSize

\* limitExceeded keeps quiet only during a run of lost bytes that was reported.
LossReported(s, e) ==
  /\ LongAddr(s) >= 0 /\ e # "silent"
  /\ s.DeviceID /\ s.limitExceeded => e = "reported" /\ Outside(s)

\* The inductive invariant: it ties the cached page and the silence of
\* limitExceeded to the address, and not only to the line that set them.
LayoutInv ==
  /\ LabelPageIsMapped
  /\ m.DeviceID /\ Onward => PageCached(m)
  /\ ~SkippedFile => DispInRange(m)
  /\ pass # LASTPASS => excursion = "inside"
  /\ pass = LASTPASS /\ Onward => LossReported(m, excursion)

----------------------------------------------------------------------------
(* The ways out of CheckPage *)

SameMode(r, s) ==
  r.PseudoORG = s.PseudoORG /\ r.DeviceID = s.DeviceID /\ r.CurrentSlot = s.CurrentSlot

\* The address has left the remembered slot for slot i, and goes on.
Leaves(r, t, i, level) ==
  /\ SameMode(r, t) /\ r.CurAddress = t.CurAddress /\ r.adrdisp = t.adrdisp
  /\ r.slotPage = t.slotPage /\ r.Page = t.Page /\ r.MemoryPointer = t.MemoryPointer
  /\ r.fatal = t.fatal
  /\ r.previousSlotI = i \/ (level # "EMIT" /\ r.previousSlotI = t.previousSlotI)
  /\ r.limitExceeded =>
       IF level = "EMIT"
       THEN r.previousSlotI = i /\ (t.MemoryPointer = Null \/ t.previousSlotI = i)
       ELSE r.previousSlotI = t.previousSlotI /\ t.limitExceeded
  /\ level = "EMIT" /\ pass = LASTPASS /\ t.MemoryPointer = Null =>
       r.reports > t.reports \/ t.limitExceeded

\* The next page is mapped into the full slot.
Turns(r, t) ==
  /\ SameMode(r, t) /\ (r.PseudoORG => r.CurAddress = t.CurAddress)
  /\ LongAddr(t) = Address(t.previousSlotI) + SlotSize
  /\ LongAddr(r) = Address(t.previousSlotI)
  /\ r.previousSlotI = t.previousSlotI /\ r.limitExceeded = t.limitExceeded
  /\ r.Page = r.slotPage[r.previousSlotI] /\ r.MemoryPointer # Null
  /\ r.fatal = t.fatal

Fails(r, t) ==
  /\ SameMode(r, t) /\ r.CurAddress = t.CurAddress /\ r.adrdisp = t.adrdisp
  /\ r.slotPage = t.slotPage /\ r.previousSlotI = t.previousSlotI
  /\ r.limitExceeded = t.limitExceeded /\ r.fatal

LEMMA SettleOutcome ==
  ASSUME NEW s \in Machine, NEW i \in Slots, NEW level
  PROVE  LET r == Settle(s, i, level)
         IN  /\ SameMode(r, s) /\ r.CurAddress = s.CurAddress /\ r.adrdisp = s.adrdisp
             /\ r.slotPage = s.slotPage /\ r.Page = s.Page /\ r.MemoryPointer = s.MemoryPointer
             /\ r.fatal = s.fatal /\ r.reports = s.reports
             /\ level = "EMIT" => /\ r.previousSlotI = i
                                  /\ r.limitExceeded => s.limitExceeded /\ s.previousSlotI = i
             /\ level # "EMIT" => r = s
<1> DEFINE q == [s EXCEPT !.limitExceeded = s.limitExceeded /\ s.previousSlotI = i]
<1>1. q \in Machine /\ (q.limitExceeded => s.limitExceeded /\ s.previousSlotI = i)
  BY DEF Machine
<1>2. /\ SameMode(q, s) /\ q.CurAddress = s.CurAddress /\ q.adrdisp = s.adrdisp
      /\ q.slotPage = s.slotPage /\ q.Page = s.Page /\ q.MemoryPointer = s.MemoryPointer
      /\ q.fatal = s.fatal /\ q.reports = s.reports
  BY DEF Machine, SameMode
<1> HIDE DEF q
<1>3. /\ SameMode(EnterSlot(q, i), q) /\ EnterSlot(q, i).CurAddress = q.CurAddress
      /\ EnterSlot(q, i).adrdisp = q.adrdisp /\ EnterSlot(q, i).slotPage = q.slotPage
      /\ EnterSlot(q, i).Page = q.Page /\ EnterSlot(q, i).MemoryPointer = q.MemoryPointer
      /\ EnterSlot(q, i).fatal = q.fatal /\ EnterSlot(q, i).reports = q.reports
      /\ EnterSlot(q, i).previousSlotI = i /\ EnterSlot(q, i).limitExceeded = q.limitExceeded
  BY <1>1 DEF EnterSlot, Machine, SameMode
<1>4. Settle(s, i, level) = IF level = "EMIT" THEN EnterSlot(q, i) ELSE s
  BY DEF Settle, q
<1> HIDE DEF SameMode
<1>5. CASE level = "EMIT"
  BY <1>1, <1>2, <1>3, <1>4, <1>5 DEF SameMode
<1>6. CASE level # "EMIT"
  BY <1>4, <1>6 DEF SameMode
<1> QED
  BY <1>5, <1>6

LEMMA LeaveGuardedOutcome ==
  ASSUME NEW t \in Machine, NEW i \in Slots, NEW level
  PROVE  Leaves(LeaveGuardedSlot(t, i, level), t, i, level)
<1> DEFINE c == [t EXCEPT !.limitExceeded = TRUE, !.reports = t.reports + 1]
<1>1. /\ c \in Machine /\ c.reports = t.reports + 1 /\ c.reports > t.reports
      /\ SameMode(c, t) /\ c.CurAddress = t.CurAddress /\ c.adrdisp = t.adrdisp
      /\ c.slotPage = t.slotPage /\ c.Page = t.Page /\ c.MemoryPointer = t.MemoryPointer
      /\ c.fatal = t.fatal /\ c.previousSlotI = t.previousSlotI
  <2>1. t.reports \in Nat /\ t.reports + 1 \in Nat /\ t.reports + 1 > t.reports
    BY DEF Machine
  <2> QED
    BY <2>1 DEF Machine, SameMode
<1>2. LeaveGuardedSlot(t, i, level) = Settle(IF Complains(t, level) THEN c ELSE t, i, level)
  BY DEF LeaveGuardedSlot
<1> HIDE DEF c
<1>3. CASE Complains(t, level)
  <2>1. level = "EMIT" /\ LeaveGuardedSlot(t, i, level) = Settle(c, i, level)
    BY <1>2, <1>3 DEF Complains
  <2> QED
    BY <1>1, <2>1, SettleOutcome DEF Leaves, SameMode
<1>4. CASE ~Complains(t, level)
  <2>1. LeaveGuardedSlot(t, i, level) = Settle(t, i, level)
    BY <1>2, <1>4
  <2> QED
    BY <1>4, <2>1, SettleOutcome DEF Leaves, SameMode, Complains
<1> QED
  BY <1>3, <1>4

LEMMA LeavePlainOutcome ==
  ASSUME NEW t \in Machine, NEW i \in Slots, NEW level
  PROVE  Leaves(LeavePlainSlot(t, i, level), t, i, level)
<1> DEFINE c == [t EXCEPT !.limitExceeded = TRUE, !.reports = t.reports + 1, !.previousSlotI = i]
           lost == Complains(t, level) /\ t.MemoryPointer = Null
<1>1. /\ c \in Machine /\ c.reports > t.reports
      /\ SameMode(c, t) /\ c.CurAddress = t.CurAddress /\ c.adrdisp = t.adrdisp
      /\ c.slotPage = t.slotPage /\ c.Page = t.Page /\ c.MemoryPointer = t.MemoryPointer
      /\ c.fatal = t.fatal
  <2>1. t.reports \in Nat /\ t.reports + 1 \in Nat /\ t.reports + 1 > t.reports
    BY DEF Machine
  <2> QED
    BY <2>1 DEF Machine, SameMode
<1>2. LeavePlainSlot(t, i, level) = Settle(IF lost THEN c ELSE t, i, level)
  BY DEF LeavePlainSlot
<1> HIDE DEF c
<1>3. CASE lost
  <2>1. level = "EMIT" /\ LeavePlainSlot(t, i, level) = Settle(c, i, level) /\ t.MemoryPointer = Null
    BY <1>2, <1>3 DEF Complains
  <2> QED
    BY <1>1, <2>1, SettleOutcome DEF Leaves, SameMode
<1>4. CASE ~lost
  <2>1. LeavePlainSlot(t, i, level) = Settle(t, i, level)
    BY <1>2, <1>4
  <2> QED
    BY <1>4, <2>1, SettleOutcome DEF Leaves, SameMode, Complains
<1> QED
  BY <1>3, <1>4

LEMMA LeaveWrappingOutcome ==
  ASSUME NEW t \in Machine, NEW i \in Slots, NEW level
  PROVE  LET r == LeaveWrappingSlot(t, i, level)
         IN  Leaves(r, t, i, level) \/ Turns(r, t) \/ Fails(r, t)
<1> DEFINE prev == t.previousSlotI
           next == t.slotPage[prev] + 1
           r == LeaveWrappingSlot(t, i, level)
           c == [Report(t, 1) EXCEPT !.slotOption[prev] = "O_NONE", !.limitExceeded = FALSE]
           back == SetLongAddr(t, LongAddr(t) - SlotSize)
<1>0. /\ prev \in Slots /\ t.slotPage[prev] \in Pages /\ next \in Nat
      /\ LongAddr(t) \in Int /\ Address(prev) \in Int /\ SlotSize \in Nat
  BY LongAddrIsInt, AddressIsInt, PagesAssumption, SlotsAssumption DEF Machine, Pages
<1>1. CASE PagesCount <= next
  <2>1. r = Settle(EnterSlot(c, i), i, level)
    BY <1>1 DEF LeaveWrappingSlot
  <2>2. /\ c \in Machine /\ ~c.limitExceeded /\ (pass = LASTPASS => c.reports > t.reports)
        /\ SameMode(c, t) /\ c.CurAddress = t.CurAddress /\ c.adrdisp = t.adrdisp
        /\ c.slotPage = t.slotPage /\ c.Page = t.Page /\ c.MemoryPointer = t.MemoryPointer
        /\ c.fatal = t.fatal
    <3>1. t.reports \in Nat /\ "O_NONE" \in SlotOptions
      BY DEF Machine, SlotOptions
    <3> DEFINE n == IF pass = LASTPASS THEN t.reports + 1 ELSE t.reports
               o == [t.slotOption EXCEPT ![prev] = "O_NONE"]
    <3>2. n \in Nat /\ (pass = LASTPASS => n > t.reports) /\ o \in [Slots -> SlotOptions]
      BY <3>1 DEF Machine
    <3>3. c = [t EXCEPT !.reports = n, !.slotOption = o, !.limitExceeded = FALSE]
      BY DEF Report, Machine
    <3> HIDE DEF n, o, c
    <3> QED
      BY <3>2, <3>3 DEF Machine, SameMode
  <2> HIDE DEF c, r
  <2> DEFINE e == EnterSlot(c, i)
  <2>3. /\ e \in Machine /\ ~e.limitExceeded /\ e.reports = c.reports /\ e.previousSlotI = i
        /\ SameMode(e, c) /\ e.CurAddress = c.CurAddress /\ e.adrdisp = c.adrdisp
        /\ e.slotPage = c.slotPage /\ e.Page = c.Page /\ e.MemoryPointer = c.MemoryPointer
        /\ e.fatal = c.fatal
    BY <2>2 DEF EnterSlot, Machine, SameMode
  <2> HIDE DEF e
  <2>4. Leaves(r, t, i, level)
    BY <2>1, <2>2, <2>3, SettleOutcome DEF Leaves, SameMode, e
  <2> QED
    BY <2>4 DEF r
<1>2. CASE ~(PagesCount <= next) /\ LongAddr(t) # Address(prev) + SlotSize
  <2>1. r = [t EXCEPT !.fatal = TRUE]
    BY <1>2 DEF LeaveWrappingSlot
  <2>2. Fails(r, t)
    BY <2>1 DEF Fails, SameMode, Machine
  <2> QED
    BY <2>2
<1>3. CASE ~(PagesCount <= next) /\ LongAddr(t) = Address(prev) + SlotSize
  <2>1. r = [back EXCEPT !.slotPage[prev] = next, !.Page = next,
                         !.MemoryPointer = [page |-> next, off |-> 0]]
    BY <1>3 DEF LeaveWrappingSlot
  <2>2. /\ back \in Machine /\ SameMode(back, t) /\ LongAddr(back) = Address(prev)
        /\ (back.PseudoORG => back.CurAddress = t.CurAddress)
        /\ back.previousSlotI = prev /\ back.limitExceeded = t.limitExceeded
        /\ back.fatal = t.fatal
    <3>1. LongAddr(t) - SlotSize = Address(prev)
      BY <1>0, <1>3
    <3> DEFINE a == Address(prev)
    <3>2. back = SetLongAddr(t, a) /\ a \in Int
      BY <3>1, <1>0
    <3> HIDE DEF a, back
    <3>3. back \in Machine /\ LongAddr(back) = a
      BY <3>2, SetLongAddrType
    <3>4. CASE t.PseudoORG
      BY <3>2, <3>3, <3>4 DEF SetLongAddr, Machine, SameMode, a
    <3>5. CASE ~t.PseudoORG
      BY <3>2, <3>3, <3>5 DEF SetLongAddr, Machine, SameMode, a
    <3> QED
      BY <3>4, <3>5
  <2> HIDE DEF back, r
  <2>3. /\ SameMode(r, back) /\ r.CurAddress = back.CurAddress /\ r.adrdisp = back.adrdisp
        /\ r.previousSlotI = prev /\ r.limitExceeded = back.limitExceeded
        /\ r.fatal = back.fatal /\ r.MemoryPointer = [page |-> next, off |-> 0]
        /\ r.Page = next /\ r.slotPage[prev] = next
    BY <2>1, <2>2, <1>0 DEF Machine, SameMode
  <2>4. r.MemoryPointer # Null
    BY <2>3, <1>0 DEF Null
  <2>5. LongAddr(r) = LongAddr(back)
    BY <2>3 DEF LongAddr, SameMode
  <2>6. Turns(r, t)
    BY <2>2, <2>3, <2>4, <2>5, <1>3 DEF Turns, SameMode
  <2> QED
    BY <2>6 DEF r
<1> QED
  BY <1>1, <1>2, <1>3

\* Where CheckPage looks for memory, and how it goes on from there.
Outcome(r, s, t, i, level) ==
  /\ t \in Machine /\ i \in Slots
  /\ SameMode(t, s) /\ LongAddr(t) = LongAddr(s) /\ t.slotPage = s.slotPage
  /\ t.previousSlotI = s.previousSlotI /\ t.limitExceeded = s.limitExceeded
  /\ t.reports = s.reports /\ t.fatal = s.fatal
  /\ t.CurAddress = DispWrap(s, level).CurAddress
  /\ InSlot(i, LongAddr(s) % AddressSpace)
  /\ IF InSlot(s.previousSlotI, LongAddr(s))
     THEN r = t /\ t.Page = s.Page /\ t.MemoryPointer # Null
     ELSE /\ t.Page = s.slotPage[i] /\ (t.MemoryPointer = Null <=> ~InSlot(i, LongAddr(s)))
          /\ Leaves(r, t, i, level) \/ Turns(r, t) \/ Fails(r, t)

LEMMA CheckPageOutcome ==
  ASSUME NEW s0 \in Machine, NEW level
  PROVE  \E t \in Machine, i \in Slots : Outcome(CheckPage(s0, level), s0, t, i, level)
<1> DEFINE s == DispWrap(s0, level)
           L == LongAddr(s)
           i == SlotBelow(L % AddressSpace)
<1>1. s \in Machine /\ L = LongAddr(s0) /\ L \in Int
  BY DispWrapType, LongAddrIsInt
<1>2. i \in Slots /\ InSlot(i, L % AddressSpace)
  BY <1>1, MaskedIsInRange, SlotBelowFound
<1>3. /\ SameMode(s, s0) /\ s.slotPage = s0.slotPage /\ s.Page = s0.Page
      /\ s.previousSlotI = s0.previousSlotI /\ s.limitExceeded = s0.limitExceeded
      /\ s.reports = s0.reports /\ s.fatal = s0.fatal
  BY DEF DispWrap, Machine, SameMode
<1>4. CheckPage(s0, level) = IF InSlot(s.previousSlotI, L)
                             THEN [s EXCEPT !.MemoryPointer = PointerInto(s, s.previousSlotI)]
                             ELSE LeaveSlot(Locate(s, i), i, level)
  BY DEF CheckPage
<1>5. s.CurAddress = DispWrap(s0, level).CurAddress
  OBVIOUS
<1> HIDE DEF s, i
<1>6. CASE InSlot(s.previousSlotI, L)
  <2> DEFINE p == PointerInto(s, s.previousSlotI)
             t == [s EXCEPT !.MemoryPointer = p]
  <2>1. p \in Pointers /\ p # Null
    <3>1. s.slotPage[s.previousSlotI] \in Pages /\ L - Address(s.previousSlotI) \in Int
      BY <1>1, AddressIsInt DEF Machine
    <3>2. p.page # -1
      BY <3>1, PagesAssumption DEF PointerInto, Pages
    <3> QED
      BY <3>1, <3>2 DEF PointerInto, Pointers, Null
  <2> HIDE DEF p
  <2>2. /\ t \in Machine /\ SameMode(t, s) /\ LongAddr(t) = L /\ t.slotPage = s.slotPage
        /\ t.previousSlotI = s.previousSlotI /\ t.limitExceeded = s.limitExceeded
        /\ t.reports = s.reports /\ t.fatal = s.fatal /\ t.CurAddress = s.CurAddress
        /\ t.Page = s.Page /\ t.MemoryPointer = p
    BY <1>1, <2>1 DEF Machine, SameMode, LongAddr
  <2>3. CheckPage(s0, level) = t
    BY <1>4, <1>6 DEF p
  <2> HIDE DEF t
  <2>4. Outcome(t, s0, t, i, level)
    BY <1>1, <1>2, <1>3, <1>5, <1>6, <2>1, <2>2 DEF Outcome, SameMode
  <2> QED
    BY <2>2, <2>3, <2>4, <1>2
<1>7. CASE ~InSlot(s.previousSlotI, L)
  <2> DEFINE t == Locate(s, i)
             r == LeaveSlot(t, i, level)
  <2>1. t \in Machine
    BY <1>1, <1>2, LocateType
  <2>2. /\ SameMode(t, s) /\ LongAddr(t) = L /\ t.slotPage = s.slotPage
        /\ t.previousSlotI = s.previousSlotI /\ t.limitExceeded = s.limitExceeded
        /\ t.reports = s.reports /\ t.fatal = s.fatal /\ t.CurAddress = s.CurAddress
        /\ t.Page = s.slotPage[i]
    BY <1>1 DEF Machine, SameMode, LongAddr, Locate
  <2>3. t.MemoryPointer = Null <=> ~InSlot(i, L)
    <3>1. t.MemoryPointer = IF InSlot(i, L) THEN PointerInto(s, i) ELSE Null
      BY <1>1 DEF Machine, Locate
    <3>2. PointerInto(s, i) # Null
      <4>1. s.slotPage[i] \in Pages
        BY <1>1, <1>2 DEF Machine
      <4>2. s.slotPage[i] # -1
        BY <4>1, PagesAssumption DEF Pages
      <4> QED
        BY <4>2 DEF PointerInto, Null
    <3> QED
      BY <3>1, <3>2
  <2> HIDE DEF t
  <2>4. Leaves(r, t, i, level) \/ Turns(r, t) \/ Fails(r, t)
    BY <2>1, <1>2, LeaveGuardedOutcome, LeavePlainOutcome, LeaveWrappingOutcome DEF LeaveSlot
  <2>5. CheckPage(s0, level) = r
    BY <1>4, <1>7 DEF t
  <2> HIDE DEF r
  <2>6. Outcome(r, s0, t, i, level)
    BY <1>1, <1>2, <1>3, <1>5, <1>7, <2>1, <2>2, <2>3, <2>4 DEF Outcome, SameMode
  <2> QED
    BY <2>1, <2>5, <2>6, <1>2
<1> QED
  BY <1>6, <1>7

----------------------------------------------------------------------------
(* What CheckPage keeps *)

LEMMA WrappedIsInRange ==
  ASSUME NEW s \in Machine, NEW level
  PROVE  LET a == DispWrap(s, level).CurAddress
         IN  /\ (DispInRange(s) /\ s.PseudoORG /\ (s.DeviceID \/ ~IsLongPtr)) => a <= AddressSpace
             /\ s.PseudoORG /\ level # "NO_EMIT" => a < AddressSpace
<1>1. s.CurAddress \in Int
  BY DEF Machine
<1>2. DispWrap(s, level).CurAddress =
        IF s.PseudoORG /\ level # "NO_EMIT" /\ AddressSpace <= s.CurAddress
        THEN s.CurAddress % AddressSpace ELSE s.CurAddress
  BY DEF DispWrap, Machine
<1> QED
  BY <1>1, <1>2, MaskedIsInRange, SpaceAssumption DEF DispInRange

LEMMA CheckPageDisp ==
  ASSUME NEW s \in Machine, NEW level
  PROVE  LET r == CheckPage(s, level)
         IN  /\ SameMode(r, s)
             /\ DispInRange(s) => DispInRange(r)
             /\ r.PseudoORG /\ level # "NO_EMIT" => r.CurAddress < AddressSpace
<1> DEFINE r == CheckPage(s, level)
<1>1. PICK t \in Machine, i \in Slots : Outcome(r, s, t, i, level)
  BY CheckPageOutcome
<1> HIDE DEF r
<1>2. SameMode(r, s) /\ (r.PseudoORG => r.CurAddress = DispWrap(s, level).CurAddress)
  BY <1>1 DEF Outcome, Leaves, Turns, Fails, SameMode
<1>3. (DispInRange(s) => DispInRange(r)) /\ (r.PseudoORG /\ level # "NO_EMIT" => r.CurAddress < AddressSpace)
  BY <1>2, WrappedIsInRange DEF DispInRange, SameMode
<1> QED
  BY <1>2, <1>3 DEF r

LEMMA CheckPagePage ==
  ASSUME NEW s \in Machine, NEW level, PageCached(s)
  PROVE  LET r == CheckPage(s, level)
         IN  /\ PageCached(r)
             /\ level = "EMIT" /\ ~r.fatal => r.Page = r.slotPage[r.previousSlotI]
<1> DEFINE r == CheckPage(s, level)
<1>1. PICK t \in Machine, i \in Slots : Outcome(r, s, t, i, level)
  BY CheckPageOutcome
<1> HIDE DEF r
<1>2. CASE InSlot(s.previousSlotI, LongAddr(s))
  <2>1. r.Page = r.slotPage[r.previousSlotI]
    BY <1>1, <1>2 DEF Outcome, PageCached
  <2> QED
    BY <2>1 DEF PageCached, r
<1>3. CASE ~InSlot(s.previousSlotI, LongAddr(s)) /\ Leaves(r, t, i, level)
  <2>1. /\ LongAddr(r) = LongAddr(s) /\ r.slotPage = s.slotPage /\ r.Page = s.slotPage[i]
        /\ r.previousSlotI = i \/ (level # "EMIT" /\ r.previousSlotI = s.previousSlotI)
    BY <1>1, <1>3 DEF Outcome, Leaves, SameMode, LongAddr
  <2> QED
    BY <2>1, <1>3 DEF PageCached, r
<1>4. CASE ~InSlot(s.previousSlotI, LongAddr(s)) /\ Turns(r, t)
  BY <1>4 DEF Turns, PageCached, r
<1>5. CASE ~InSlot(s.previousSlotI, LongAddr(s)) /\ Fails(r, t)
  <2>1. LongAddr(r) = LongAddr(s) /\ r.previousSlotI = s.previousSlotI /\ r.fatal
    BY <1>1, <1>5 DEF Outcome, Fails, SameMode, LongAddr
  <2> QED
    BY <2>1, <1>5 DEF PageCached, r
<1> QED
  BY <1>1, <1>2, <1>3, <1>4, <1>5 DEF Outcome

\* An address the slot below it does not hold is behind the memory.
LEMMA BehindTheMemory ==
  ASSUME NEW a \in Int, a >= 0, NEW i \in Slots, InSlot(i, a % AddressSpace), ~InSlot(i, a)
  PROVE  a >= AddressSpace /\ a >= Address(i) + SlotSize
<1>1. a % AddressSpace \in Int /\ 0 <= a % AddressSpace /\ a % AddressSpace <= a
  BY SpaceAssumption
<1>2. a < AddressSpace => a % AddressSpace = a
  BY SpaceAssumption
<1>3. Address(i) \in Int /\ SlotSize \in Nat /\ AddressSpace \in Nat
  BY AddressIsInt, SlotsAssumption, SpaceAssumption
<1> QED
  BY <1>1, <1>2, <1>3 DEF InSlot

\* A line that emits nothing keeps the account of lost bytes.
LEMMA CheckPageKeepsAccount ==
  ASSUME NEW s \in Machine, NEW level, NEW e, s.DeviceID, LossReported(s, e)
  PROVE  LET r == CheckPage(s, level)
         IN  level # "EMIT" \/ (r.fatal /\ ~s.fatal) => LossReported(r, e)
<1> DEFINE r == CheckPage(s, level)
<1>1. PICK t \in Machine, i \in Slots : Outcome(r, s, t, i, level)
  BY CheckPageOutcome
<1> HIDE DEF r
<1> SUFFICES ASSUME level # "EMIT" \/ (r.fatal /\ ~s.fatal) PROVE LossReported(r, e)
  BY DEF r
<1>0. s.previousSlotI \in Slots /\ LongAddr(s) \in Int /\ \A j \in Slots : Address(j) \in Int
  BY LongAddrIsInt, AddressIsInt DEF Machine
<1>2. CASE InSlot(s.previousSlotI, LongAddr(s))
  BY <1>1, <1>2 DEF Outcome, LossReported, Outside, SameMode
<1>3. CASE ~InSlot(s.previousSlotI, LongAddr(s)) /\ Leaves(r, t, i, level)
  BY <1>1, <1>3 DEF Outcome, Leaves, LossReported, Outside, SameMode, LongAddr
<1>4. CASE ~InSlot(s.previousSlotI, LongAddr(s)) /\ Turns(r, t)
  <2>1. ~s.limitExceeded
    BY <1>0, <1>1, <1>4, SlotsAssumption DEF Outcome, Turns, LossReported, Outside
  <2>2. LongAddr(r) = Address(s.previousSlotI) /\ ~r.limitExceeded
    BY <2>1, <1>1, <1>4 DEF Outcome, Turns
  <2>3. Address(s.previousSlotI) >= 0
    BY <1>0, SlotsAssumption DEF Address, Slots
  <2> QED
    BY <2>2, <2>3 DEF LossReported
<1>5. CASE ~InSlot(s.previousSlotI, LongAddr(s)) /\ Fails(r, t)
  BY <1>1, <1>5 DEF Outcome, Fails, LossReported, Outside, SameMode, LongAddr
<1> QED
  BY <1>1, <1>2, <1>3, <1>4, <1>5 DEF Outcome

\* A byte without memory is reported, or the run of lost bytes it belongs to was.
LEMMA CheckPageEmits ==
  ASSUME NEW s \in Machine, NEW e, s.DeviceID, pass = LASTPASS, LossReported(s, e),
         ~s.fatal, ~CheckPage(s, "EMIT").fatal
  PROVE  LET r == CheckPage(s, "EMIT")
             lost == r.MemoryPointer = Null
         IN  /\ LongAddr(r) >= 0
             /\ lost => r.reports > s.reports \/ e = "reported"
             /\ r.limitExceeded => /\ lost
                                   /\ LongAddr(r) >= AddressSpace
                                   /\ LongAddr(r) >= Address(r.previousSlotI) + SlotSize
<1> DEFINE r == CheckPage(s, "EMIT")
<1>1. PICK t \in Machine, i \in Slots : Outcome(r, s, t, i, "EMIT")
  BY CheckPageOutcome
<1>2. ~r.fatal
  OBVIOUS
<1> HIDE DEF r
<1>0. /\ s.previousSlotI \in Slots /\ LongAddr(s) \in Int /\ LongAddr(s) >= 0
      /\ \A j \in Slots : Address(j) \in Int
  BY LongAddrIsInt, AddressIsInt DEF Machine, LossReported
<1> DEFINE lost == r.MemoryPointer = Null
           Goal == /\ LongAddr(r) >= 0
                   /\ lost => r.reports > s.reports \/ e = "reported"
                   /\ r.limitExceeded => /\ lost
                                         /\ LongAddr(r) >= AddressSpace
                                         /\ LongAddr(r) >= Address(r.previousSlotI) + SlotSize
<1>3. s.limitExceeded => e = "reported" /\ LongAddr(s) > Address(s.previousSlotI) + SlotSize
  BY DEF LossReported, Outside
<1>4. CASE InSlot(s.previousSlotI, LongAddr(s))
  <2>1. ~s.limitExceeded
    BY <1>0, <1>3, <1>4, SlotsAssumption DEF InSlot
  <2>2. LongAddr(r) = LongAddr(s) /\ r.limitExceeded = s.limitExceeded /\ ~lost
    BY <1>1, <1>4 DEF Outcome
  <2> QED
    BY <2>1, <2>2, <1>0 DEF r
<1>5. CASE ~InSlot(s.previousSlotI, LongAddr(s)) /\ Leaves(r, t, i, "EMIT")
  <2>1. /\ LongAddr(r) = LongAddr(s) /\ (lost <=> ~InSlot(i, LongAddr(s)))
        /\ r.limitExceeded => r.previousSlotI = i /\ (lost \/ s.previousSlotI = i)
        /\ lost => r.reports > s.reports \/ s.limitExceeded
        /\ InSlot(i, LongAddr(s) % AddressSpace)
    BY <1>1, <1>5 DEF Outcome, Leaves, SameMode, LongAddr
  <2>2. lost => LongAddr(s) >= AddressSpace /\ LongAddr(s) >= Address(i) + SlotSize
    BY <2>1, <1>0, BehindTheMemory
  <2>3. r.limitExceeded => lost
    BY <2>1, <1>5
  <2>4. Goal
    BY <2>1, <2>2, <2>3, <1>0, <1>3
  <2> QED
    BY <2>4 DEF r
<1>6. CASE ~InSlot(s.previousSlotI, LongAddr(s)) /\ Turns(r, t)
  <2>1. ~s.limitExceeded
    BY <1>0, <1>1, <1>3, <1>6, SlotsAssumption DEF Outcome, Turns
  <2>2. LongAddr(r) = Address(s.previousSlotI) /\ ~r.limitExceeded /\ ~lost
    BY <2>1, <1>1, <1>6 DEF Outcome, Turns
  <2>3. Address(s.previousSlotI) >= 0
    BY <1>0, SlotsAssumption DEF Address, Slots
  <2> QED
    BY <2>2, <2>3 DEF r
<1> QED
  BY <1>1, <1>2, <1>4, <1>5, <1>6 DEF Outcome, Fails

\* A directive that resets CheckPage leaves nothing to be remembered wrongly.
Fresh(r, s) ==
  /\ SameMode(r, s) /\ r.slotPage = s.slotPage /\ LongAddr(r) = LongAddr(s)
  /\ r.Page = r.slotPage[r.previousSlotI] /\ ~r.limitExceeded
  /\ r.PseudoORG => r.CurAddress < AddressSpace

LEMMA CheckResetFresh ==
  ASSUME NEW s0 \in Machine
  PROVE  Fresh(CheckReset(s0), s0)
<1> DEFINE s == DispWrap(s0, "RESET")
           i == SlotBelow(LongAddr(s) % AddressSpace)
           t == Locate(s, i)
           r == [EnterSlot(t, i) EXCEPT !.limitExceeded = FALSE]
<1>1. s \in Machine /\ LongAddr(s) = LongAddr(s0) /\ i \in Slots
  BY DispWrapType, LongAddrIsInt, MaskedIsInRange, SlotBelowFound
<1>2. SameMode(s, s0) /\ s.slotPage = s0.slotPage
  BY DEF DispWrap, Machine, SameMode
<1>3. s.PseudoORG => s.CurAddress < AddressSpace
  BY <1>2, WrappedIsInRange DEF SameMode
<1>4. CheckReset(s0) = r
  BY DEF CheckReset
<1> HIDE DEF s, i
<1>5. /\ t \in Machine /\ SameMode(t, s) /\ t.slotPage = s.slotPage /\ t.Page = t.slotPage[i]
      /\ t.CurAddress = s.CurAddress /\ t.adrdisp = s.adrdisp
  BY <1>1, LocateType DEF Locate, Machine, SameMode
<1> HIDE DEF t
<1>6. /\ SameMode(r, t) /\ r.slotPage = t.slotPage /\ r.Page = t.Page /\ r.previousSlotI = i
      /\ r.CurAddress = t.CurAddress /\ r.adrdisp = t.adrdisp /\ ~r.limitExceeded
  BY <1>1, <1>5 DEF EnterSlot, Machine, SameMode
<1> HIDE DEF r
<1> QED
  BY <1>1, <1>2, <1>3, <1>4, <1>5, <1>6 DEF Fresh, SameMode, LongAddr

LEMMA FreshKeeps ==
  ASSUME NEW r, NEW s, Fresh(r, s), r \in Machine
  PROVE  /\ PageCached(r) /\ DispInRange(r)
         /\ \A e : LongAddr(s) >= 0 /\ e # "silent" => LossReported(r, e)
<1>1. r.PseudoORG => r.CurAddress <= AddressSpace
  BY SpaceAssumption DEF Fresh, Machine
<1> QED
  BY <1>1 DEF Fresh, PageCached, DispInRange, LossReported

----------------------------------------------------------------------------
(* What the directives keep *)

KeepsPage(r, s) == (s.DeviceID => PageCached(s)) => (r.DeviceID => PageCached(r))
KeepsDisp(r, s) == DispInRange(s) => DispInRange(r)
KeepsLoss(r, s) == \A e : LossReported(s, e) => LossReported(r, e)
Keeps(r, s) == KeepsPage(r, s) /\ KeepsDisp(r, s) /\ KeepsLoss(r, s)

\* Nothing that CheckPage looks at is changed.
SameLayout(r, s) ==
  /\ r.DeviceID = s.DeviceID /\ r.slotPage = s.slotPage /\ r.Page = s.Page
  /\ r.previousSlotI = s.previousSlotI /\ r.limitExceeded = s.limitExceeded
  /\ LongAddr(r) = LongAddr(s)

LEMMA SameLayoutKeeps ==
  ASSUME NEW r, NEW s, SameLayout(r, s)
  PROVE  KeepsPage(r, s) /\ KeepsLoss(r, s)
  BY DEF SameLayout, KeepsPage, KeepsLoss, PageCached, LossReported, Outside

LEMMA ResetKeeps ==
  ASSUME NEW t \in Machine, NEW s, LongAddr(s) >= 0 => LongAddr(t) >= 0
  PROVE  Keeps(CheckReset(t), s)
  BY CheckResetFresh, FreshKeeps, CheckResetType
     DEF Keeps, KeepsPage, KeepsDisp, KeepsLoss, LossReported

LEMMA dirPageImplKeeps ==
  ASSUME NEW s \in Machine, NEW page \in Pages
  PROVE  \A t \in Machine : (LongAddr(t) >= 0 => LongAddr(s) >= 0) => Keeps(dirPageImpl(s, page), t)
<1> DEFINE q == [s EXCEPT !.slotPage[s.CurrentSlot] = page]
<1>1. q \in Machine /\ LongAddr(q) = LongAddr(s)
  BY DEF Machine, LongAddr
<1>2. dirPageImpl(s, page) = CheckReset(q)
  BY DEF dirPageImpl
<1> HIDE DEF q
<1> QED
  BY <1>1, <1>2, ResetKeeps

LEMMA KeepsItself == \A s : Keeps(s, s)
  BY DEF Keeps, KeepsPage, KeepsDisp, KeepsLoss

LEMMA dirPAGEKeeps ==
  ASSUME NEW s \in Machine, NEW line
  PROVE  Keeps(dirPAGE(s, line), s)
<1>1. CASE s.DeviceID /\ line.page \in Pages
  BY <1>1, dirPageImplKeeps DEF dirPAGE
<1>2. CASE ~(s.DeviceID /\ line.page \in Pages)
  BY <1>2, KeepsItself DEF dirPAGE, dirPageImpl
<1> QED
  BY <1>1, <1>2

LEMMA CropInRange ==
  ASSUME NEW s, NEW a \in Int
  PROVE  /\ Crop(s, a) \in Int
         /\ s.DeviceID \/ ~IsLongPtr => 0 <= Crop(s, a) /\ Crop(s, a) <= AddressSpace
         /\ a >= 0 => Crop(s, a) >= 0
  BY MaskedIsInRange, SpaceAssumption DEF Crop

LEMMA dirORGKeeps ==
  ASSUME NEW s \in Machine, NEW line, line.addr \in Int, line.page \in Int, line.dir = "ORG"
  PROVE  /\ KeepsDisp(dirORG(s, line), s)
         /\ ~MovesUnseen(line) => Keeps(dirORG(s, line), s)
<1> DEFINE c == Crop(s, line.addr)
           moved == [s EXCEPT !.CurAddress = c]
<1>0. c \in Int
  BY CropInRange
<1>1. dirORG(s, line) = IF ~s.DeviceID THEN moved
                        ELSE IF line.page = NoArg THEN CheckReset(moved)
                        ELSE dirPageImpl(moved, line.page)
  BY DEF dirORG
<1>a. /\ s.DeviceID \/ ~IsLongPtr => 0 <= c /\ c <= AddressSpace
      /\ line.addr >= 0 => c >= 0
  BY CropInRange
<1> HIDE DEF c
<1>2. /\ moved \in Machine /\ SameMode(moved, s) /\ moved.CurAddress = c
      /\ moved.adrdisp = s.adrdisp
  BY <1>0 DEF Machine, SameMode
<1> HIDE DEF moved
<1>3. DispInRange(moved)
  BY <1>2, <1>a DEF DispInRange, SameMode
<1>4. LongAddr(s) >= 0 /\ (s.DeviceID \/ ~MovesUnseen(line)) => LongAddr(moved) >= 0
  BY <1>2, <1>a, SpaceAssumption DEF LongAddr, SameMode, MovesUnseen
<1>5. CASE ~s.DeviceID
  <2>1. ~moved.DeviceID /\ dirORG(s, line) = moved
    BY <1>1, <1>2, <1>5 DEF SameMode
  <2> QED
    BY <2>1, <1>3, <1>4 DEF Keeps, KeepsPage, KeepsDisp, KeepsLoss, LossReported
<1>6. CASE s.DeviceID /\ line.page = NoArg
  BY <1>1, <1>2, <1>4, <1>6, ResetKeeps DEF Keeps
<1>7. CASE s.DeviceID /\ line.page # NoArg /\ line.page \in Pages
  BY <1>1, <1>2, <1>4, <1>7, dirPageImplKeeps DEF Keeps
<1>8. CASE s.DeviceID /\ line.page # NoArg /\ line.page \notin Pages
  BY <1>1, <1>3, <1>8 DEF dirPageImpl, KeepsDisp, MovesUnseen
<1> QED
  BY <1>5, <1>6, <1>7, <1>8

LEMMA dirDISPKeeps ==
  ASSUME NEW s \in Machine, NEW line, line.addr \in Int, line.page \in Int
  PROVE  Keeps(dirDISP(s, line), s)
<1> DEFINE c == Crop(s, line.addr)
           r == [s EXCEPT !.adrdisp = s.CurAddress, !.CurAddress = c,
                          !.dispPageNum = line.page, !.PseudoORG = TRUE]
           ignored == s.PseudoORG \/ (line.page # NoArg /\ ~(s.DeviceID /\ line.page \in Pages))
<1>0. c \in Int /\ (s.DeviceID \/ ~IsLongPtr => 0 <= c /\ c <= AddressSpace)
  BY CropInRange
<1>1. dirDISP(s, line) = IF ignored THEN s ELSE r
  BY DEF dirDISP
<1> HIDE DEF c
<1>2. CASE ~ignored
  <2>1. /\ r.PseudoORG /\ r.CurAddress = c /\ r.adrdisp = s.CurAddress /\ r.DeviceID = s.DeviceID
        /\ r.slotPage = s.slotPage /\ r.Page = s.Page /\ r.previousSlotI = s.previousSlotI
        /\ r.limitExceeded = s.limitExceeded
    BY <1>0 DEF Machine
  <2> HIDE DEF r
  <2>2. SameLayout(r, s)
    BY <2>1, <1>2 DEF SameLayout, LongAddr
  <2>3. DispInRange(r)
    BY <2>1, <1>0 DEF DispInRange
  <2> QED
    BY <1>1, <1>2, <2>2, <2>3, SameLayoutKeeps DEF Keeps, KeepsDisp
<1> QED
  BY <1>1, <1>2, KeepsItself

LEMMA dirENTKeeps ==
  ASSUME NEW s \in Machine
  PROVE  Keeps(dirENT(s), s)
<1> DEFINE r == [s EXCEPT !.CurAddress = s.adrdisp, !.PseudoORG = FALSE,
                          !.dispPageNum = LABEL_PAGE_UNDEFINED]
<1>1. dirENT(s) = IF ~s.PseudoORG THEN s ELSE r
  BY DEF dirENT
<1>2. CASE s.PseudoORG
  <2>1. /\ ~r.PseudoORG /\ r.CurAddress = s.adrdisp /\ r.DeviceID = s.DeviceID
        /\ r.slotPage = s.slotPage /\ r.Page = s.Page /\ r.previousSlotI = s.previousSlotI
        /\ r.limitExceeded = s.limitExceeded
    BY DEF Machine
  <2> HIDE DEF r
  <2>2. SameLayout(r, s) /\ DispInRange(r)
    BY <2>1, <1>2 DEF SameLayout, LongAddr, DispInRange
  <2> QED
    BY <1>1, <1>2, <2>2, SameLayoutKeeps DEF Keeps, KeepsDisp
<1> QED
  BY <1>1, <1>2, KeepsItself

LEMMA dirMMUKeeps ==
  ASSUME NEW s \in Machine, NEW line,
         line.opt \in SlotOptions, line.page \in Int, line.addr \in Int
  PROVE  Keeps(dirMMU(s, line), s)
  BY dirMMUResets, ResetKeeps, KeepsItself

LEMMA dirSLOTKeeps ==
  ASSUME NEW s \in Machine, NEW line
  PROVE  Keeps(dirSLOT(s, line), s)
<1> DEFINE slot == SlotNumberFromPreciseAddress(line.slot)
           r == [s EXCEPT !.CurrentSlot = slot]
<1>1. dirSLOT(s, line) = IF s.DeviceID /\ slot \in Slots THEN r ELSE s
  BY DEF dirSLOT
<1> HIDE DEF slot
<1>2. SameLayout(r, s) /\ KeepsDisp(r, s)
  BY DEF Machine, SameLayout, LongAddr, KeepsDisp, DispInRange
<1> HIDE DEF r
<1> QED
  BY <1>1, <1>2, SameLayoutKeeps, KeepsItself DEF Keeps

LEMMA SetDeviceKeeps ==
  ASSUME NEW s \in Machine, NEW id
  PROVE  Keeps(SetDevice(s, id), s)
<1> DEFINE none == [s EXCEPT !.DeviceID = FALSE]
<1>1. /\ ~none.DeviceID /\ LongAddr(none) = LongAddr(s)
      /\ none.PseudoORG = s.PseudoORG /\ none.CurAddress = s.CurAddress
  BY DEF Machine, LongAddr
<1> HIDE DEF none
<1>2. Keeps(none, s)
  BY <1>1 DEF Keeps, KeepsPage, KeepsDisp, KeepsLoss, DispInRange, LossReported
<1>3. ASSUME NEW t \in Machine, LongAddr(t) = LongAddr(s)
      PROVE  Keeps(CheckReset(t), s)
  BY <1>3, ResetKeeps
<1>4. \/ SetDevice(s, id) = s
      \/ SetDevice(s, id) = none
      \/ \E t \in Machine : SetDevice(s, id) = CheckReset(t) /\ LongAddr(t) = LongAddr(s)
  BY SetDeviceResets DEF none
<1> QED
  BY <1>2, <1>3, <1>4, KeepsItself

LEMMA dirDEVICEKeeps ==
  ASSUME NEW s \in Machine, NEW line
  PROVE  Keeps(dirDEVICE(s, line), s)
<1> DEFINE counted == [s EXCEPT !.deviceDirectivesCount = @ + 1]
<1>1. counted \in Machine /\ SameLayout(counted, s) /\ KeepsDisp(counted, s)
  BY DEF Machine, SameLayout, LongAddr, KeepsDisp, DispInRange
<1>2. dirDEVICE(s, line) \in {counted, SetDevice(counted, line.id)}
  BY DEF dirDEVICE
<1> HIDE DEF counted
<1>3. Keeps(counted, s) /\ Keeps(SetDevice(counted, line.id), counted)
  BY <1>1, SameLayoutKeeps, SetDeviceKeeps DEF Keeps
<1>4. Keeps(SetDevice(counted, line.id), s)
  BY <1>3 DEF Keeps, KeepsPage, KeepsDisp, KeepsLoss
<1> QED
  BY <1>2, <1>3, <1>4

LEMMA MoveOutcome ==
  ASSUME NEW s \in Machine, NEW n \in Int
  PROVE  LET r == Move(s, n)
         IN  /\ SameMode(r, s) /\ LongAddr(r) = LongAddr(s) + n /\ r.CurAddress = s.CurAddress + n
             /\ r.slotPage = s.slotPage /\ r.Page = s.Page
             /\ r.previousSlotI = s.previousSlotI /\ r.limitExceeded = s.limitExceeded
<1> DEFINE d == IF s.PseudoORG THEN s.adrdisp + n ELSE s.adrdisp
           a == s.CurAddress + n
           r == [s EXCEPT !.CurAddress = a, !.adrdisp = d]
<1>1. Move(s, n) = r
  BY DEF Move
<1>2. /\ SameMode(r, s) /\ r.CurAddress = a /\ r.adrdisp = d
      /\ r.slotPage = s.slotPage /\ r.Page = s.Page
      /\ r.previousSlotI = s.previousSlotI /\ r.limitExceeded = s.limitExceeded
  <2> HIDE DEF a, d
  <2> QED
    BY DEF Machine, SameMode
<1> HIDE DEF r
<1>3. LongAddr(r) = LongAddr(s) + n
  BY <1>2 DEF LongAddr, SameMode
<1> QED
  BY <1>1, <1>2, <1>3

\* EmitBlock with nothing to emit; a block of no bytes moves nothing.
LEMMA MoveBackKeeps ==
  ASSUME NEW s \in Machine, OptionCached(s), NEW n \in Int, n <= 0
  PROVE  /\ KeepsDisp(MoveBack(s, n), s)
         /\ n = 0 /\ ~s.fatal => Keeps(MoveBack(s, n), s)
<1> DEFINE moved == Move(s, n)
<1>1. /\ moved \in Machine /\ SameMode(moved, s) /\ moved.CurAddress = s.CurAddress + n
      /\ LongAddr(moved) = LongAddr(s) + n
      /\ moved.slotPage = s.slotPage /\ moved.Page = s.Page
      /\ moved.previousSlotI = s.previousSlotI /\ moved.limitExceeded = s.limitExceeded
  BY MoveOutcome, MoveGood DEF Good
<1>2. s.CurAddress \in Int /\ LongAddr(s) \in Int
  BY LongAddrIsInt DEF Machine
<1>3. MoveBack(s, n) = IF s.DeviceID THEN CheckPage(moved, "NO_EMIT")
                                     ELSE CheckRamLimitExceeded(moved)
  BY DEF MoveBack
<1> HIDE DEF moved
<1>4. KeepsDisp(moved, s)
  BY <1>1, <1>2, SpaceAssumption DEF KeepsDisp, DispInRange, SameMode
<1>5. n = 0 => SameLayout(moved, s)
  BY <1>1, <1>2 DEF SameLayout, SameMode
<1>6. n = 0 => KeepsPage(moved, s) /\ KeepsLoss(moved, s)
  BY <1>5, SameLayoutKeeps
<1>7. CASE s.DeviceID
  <2>1. KeepsDisp(CheckPage(moved, "NO_EMIT"), moved)
    BY <1>1, CheckPageDisp DEF KeepsDisp
  <2>2. KeepsPage(CheckPage(moved, "NO_EMIT"), moved)
    BY <1>1, <1>7, CheckPagePage DEF KeepsPage, SameMode
  <2>3. KeepsLoss(CheckPage(moved, "NO_EMIT"), moved)
    <3>1. ASSUME NEW e, LossReported(moved, e)
          PROVE  LossReported(CheckPage(moved, "NO_EMIT"), e)
      <4>1. moved.DeviceID /\ "NO_EMIT" # "EMIT"
        BY <1>1, <1>7 DEF SameMode
      <4> QED
        BY <1>1, <3>1, <4>1, CheckPageKeepsAccount
    <3> QED
      BY <3>1 DEF KeepsLoss
  <2> QED
    BY <1>3, <1>4, <1>6, <1>7, <2>1, <2>2, <2>3 DEF Keeps, KeepsPage, KeepsDisp, KeepsLoss
<1>8. CASE ~s.DeviceID
  <2> DEFINE r == CheckRamLimitExceeded(moved)
  <2>1. /\ ~r.DeviceID /\ r.PseudoORG = moved.PseudoORG /\ LongAddr(r) = LongAddr(moved)
        /\ r.PseudoORG /\ ~IsLongPtr => r.CurAddress <= AddressSpace
    BY <1>1, <1>8, MaskedIsInRange, SpaceAssumption
       DEF CheckRamLimitExceeded, Machine, SameMode, LongAddr
  <2>2. MoveBack(s, n) = r
    BY <1>3, <1>8
  <2> HIDE DEF r
  <2>3. KeepsDisp(r, s) /\ KeepsPage(r, s)
    BY <2>1 DEF KeepsDisp, KeepsPage, DispInRange
  <2>4. n = 0 => KeepsLoss(r, s)
    BY <2>1, <1>6 DEF KeepsLoss, LossReported
  <2> QED
    BY <2>2, <2>3, <2>4 DEF Keeps
<1> QED
  BY <1>7, <1>8

----------------------------------------------------------------------------
(* The page of a label *)

LEMMA SlotsAreDisjoint ==
  ASSUME NEW i \in Slots, NEW j \in Slots, NEW a \in Int, InSlot(i, a), InSlot(j, a)
  PROVE  i = j
<1>1. i \in Int /\ j \in Int /\ Address(i) \in Int /\ Address(j) \in Int /\ SlotSize \in Nat
  BY AddressIsInt, SlotsAssumption DEF Slots
<1>2. ~(i < j) /\ ~(j < i)
  BY <1>1, SlotsOrdered DEF InSlot
<1> QED
  BY <1>1, <1>2

LEMMA CheckPageFindsPage ==
  ASSUME NEW s \in Machine, NEW level, PageCached(s), ~CheckPage(s, level).fatal,
         NEW j \in Slots, InSlot(j, LongAddr(CheckPage(s, level))),
         LongAddr(CheckPage(s, level)) < AddressSpace
  PROVE  CheckPage(s, level).Page = CheckPage(s, level).slotPage[j]
<1> DEFINE r == CheckPage(s, level)
<1>1. PICK t \in Machine, i \in Slots : Outcome(r, s, t, i, level)
  BY CheckPageOutcome
<1>2. r \in Machine /\ ~r.fatal /\ InSlot(j, LongAddr(r)) /\ LongAddr(r) < AddressSpace
  BY CheckPageType
<1> HIDE DEF r
<1>3. LongAddr(r) \in Int /\ LongAddr(r) >= 0
  <2>1. Address(j) \in Int /\ Address(j) >= 0 /\ LongAddr(r) \in Int
    BY <1>2, LongAddrIsInt, SlotsAssumption DEF Address, Slots
  <2> QED
    BY <1>2, <2>1 DEF InSlot
<1>4. CASE InSlot(s.previousSlotI, LongAddr(s))
  <2>1. /\ r.Page = r.slotPage[s.previousSlotI] /\ LongAddr(r) = LongAddr(s)
        /\ s.previousSlotI \in Slots
    BY <1>1, <1>4 DEF Outcome, PageCached, Machine
  <2>2. s.previousSlotI = j
    BY <2>1, <1>2, <1>3, <1>4, SlotsAreDisjoint
  <2> QED
    BY <2>1, <2>2 DEF r
<1>5. CASE ~InSlot(s.previousSlotI, LongAddr(s)) /\ Leaves(r, t, i, level)
  <2>1. /\ r.Page = r.slotPage[i] /\ LongAddr(r) = LongAddr(s)
        /\ InSlot(i, LongAddr(r) % AddressSpace)
    BY <1>1, <1>5 DEF Outcome, Leaves, SameMode, LongAddr
  <2>2. LongAddr(r) % AddressSpace = LongAddr(r)
    BY <1>2, <1>3, SpaceAssumption
  <2>3. i = j
    BY <2>1, <2>2, <1>1, <1>2, <1>3, SlotsAreDisjoint
  <2> QED
    BY <2>1, <2>3 DEF r
<1>6. CASE ~InSlot(s.previousSlotI, LongAddr(s)) /\ Turns(r, t)
  <2>1. /\ r.Page = r.slotPage[r.previousSlotI] /\ r.previousSlotI \in Slots
        /\ LongAddr(r) = Address(r.previousSlotI)
    BY <1>1, <1>2, <1>6 DEF Turns, Machine
  <2>2. InSlot(r.previousSlotI, LongAddr(r))
    BY <2>1, AddressIsInt, SlotsAssumption DEF InSlot
  <2>3. r.previousSlotI = j
    BY <2>1, <2>2, <1>2, <1>3, SlotsAreDisjoint
  <2> QED
    BY <2>1, <2>3 DEF r
<1> QED
  BY <1>1, <1>2, <1>4, <1>5, <1>6 DEF Outcome, Fails

\* The short cut through Page agrees with the search through the slots.
LEMMA ShortCutAgrees ==
  ASSUME NEW r \in Machine, r.DeviceID, ~r.PseudoORG,
         \A j \in Slots : InSlot(j, r.CurAddress) => r.Page = r.slotPage[j]
  PROVE  getAddressPageNumber(r, r.CurAddress) = GetPageOfA16(r, r.CurAddress)
<1> DEFINE a == r.CurAddress
           c == r.CurrentSlot
<1>1. a \in Int /\ c \in Slots
  BY DEF Machine
<1>2. CASE InSlot(c, a)
  <2>1. getAddressPageNumber(r, a) = r.Page
    BY <1>2 DEF getAddressPageNumber
  <2>2. GetSlotOfA16(a) \in Slots /\ InSlot(GetSlotOfA16(a), a)
    BY <1>1, <1>2 DEF GetSlotOfA16
  <2>3. GetSlotOfA16(a) # -1
    BY <2>2 DEF Slots
  <2>4. GetPageOfA16(r, a) = r.slotPage[GetSlotOfA16(a)]
    BY <2>3 DEF GetPageOfA16
  <2> QED
    BY <2>1, <2>2, <2>4
<1>3. CASE ~InSlot(c, a)
  BY <1>3 DEF getAddressPageNumber
<1> QED
  BY <1>2, <1>3

----------------------------------------------------------------------------
(* Every step keeps the invariant *)

LEMMA KeepingDirective ==
  ASSUME IInv, LayoutInv, NEW r, Directive(r), KeepsDisp(r, m), Onward => Keeps(r, m)
  PROVE  LayoutInv'
<1>1. m' = r /\ UNCHANGED <<pass, pc, prog, excursion>> /\ phase' \in {"line", "exit"}
  BY DEF Directive
<1>2. (Onward' <=> Onward) /\ (SkippedFile' <=> SkippedFile) /\ LabelPageIsMapped'
  BY <1>1 DEF Onward, SkippedFile, LabelPageIsMapped
<1>3. m'.DeviceID /\ Onward' => PageCached(m')
  BY <1>1, <1>2 DEF LayoutInv, Keeps, KeepsPage
<1>4. ~SkippedFile' => DispInRange(m')
  BY <1>1, <1>2 DEF LayoutInv, KeepsDisp
<1>5. pass' # LASTPASS => excursion' = "inside"
  BY <1>1 DEF LayoutInv
<1>6. pass' = LASTPASS /\ Onward' => LossReported(m', excursion')
  BY <1>1, <1>2 DEF LayoutInv, Keeps, KeepsLoss
<1> QED
  BY <1>2, <1>3, <1>4, <1>5, <1>6
     DEF LayoutInv, PageCached, DispInRange, LossReported, Outside, InSlot, LongAddr

LEMMA UnchangedLayout ==
  ASSUME LayoutInv, UNCHANGED <<m, pass, pc, prog, excursion>>,
         phase' # "parse" \/ UNCHANGED phase
  PROVE  LayoutInv'
<1>1. (Onward' <=> Onward) /\ (SkippedFile' <=> SkippedFile)
  BY DEF Onward, SkippedFile
<1>2. LabelPageIsMapped'
  BY <1>1 DEF LayoutInv, LabelPageIsMapped
<1> QED
  BY <1>1, <1>2 DEF LayoutInv, PageCached, DispInRange, LossReported, Outside

\* A pass only adds to the lines it has met.
LEMMA PassGoesOn ==
  ASSUME IInv, PrepareLine
  PROVE  (Onward' => Onward) /\ (SkippedFile => SkippedFile')
<1>1. pc \in Nat /\ pc <= Len(prog) /\ prog \in Seq(Lines) /\ pc' = pc + 1 /\ pass' = pass
  BY DEF IInv, TypeOK, PrepareLine
<1>2. \A i \in 1 .. pc : i \in 1 .. pc' /\ prog'[i] = prog[i]
  <2>1. CASE prog' = prog
    BY <1>1, <2>1
  <2>2. CASE \E line \in Lines : prog' = Append(prog, line)
    BY <1>1, <2>2
  <2> QED
    BY <2>1, <2>2 DEF PrepareLine
<1> QED
  BY <1>1, <1>2 DEF Onward, SkippedFile, MovesUnseen

LEMMA PrepareLineLayout ==
  ASSUME IInv, LayoutInv, PrepareLine
  PROVE  LayoutInv'
<1> DEFINE r == IF m.DeviceID THEN CheckPage(m, "NO_EMIT") ELSE m
<1>1. m' = r /\ UNCHANGED <<pass, excursion>> /\ phase' = IF r.fatal THEN "exit" ELSE "parse"
  BY DEF PrepareLine
<1>2. m \in Machine /\ r \in Machine
  BY CheckPageType DEF IInv, TypeOK
<1>3. (Onward' => Onward) /\ (SkippedFile => SkippedFile')
  BY PassGoesOn
<1>4. Onward /\ r.DeviceID => m.DeviceID /\ PageCached(m)
  BY <1>2, CheckPageDisp DEF LayoutInv, SameMode
<1>5. Onward /\ r.DeviceID => PageCached(r)
  BY <1>2, <1>4, CheckPagePage
<1>6. DispInRange(m) => DispInRange(r)
  BY <1>2, CheckPageDisp
<1>7. LossReported(m, excursion) => LossReported(r, excursion)
  <2>1. "NO_EMIT" # "EMIT"
    OBVIOUS
  <2> QED
    BY <1>2, <2>1, CheckPageKeepsAccount
<1>8. ASSUME phase' = "parse", r.DeviceID, ~r.PseudoORG, r.CurAddress < AddressSpace, Onward
      PROVE  getAddressPageNumber(r, r.CurAddress) = GetPageOfA16(r, r.CurAddress)
  <2>1. ~r.fatal /\ m.DeviceID /\ PageCached(m) /\ r = CheckPage(m, "NO_EMIT")
    BY <1>1, <1>4, <1>8
  <2>2. LongAddr(r) = r.CurAddress
    BY <1>8 DEF LongAddr
  <2>3. \A j \in Slots : InSlot(j, r.CurAddress) => r.Page = r.slotPage[j]
    <3> HIDE DEF r
    <3> QED
      BY <1>2, <1>8, <2>1, <2>2, CheckPageFindsPage
  <2> HIDE DEF r
  <2> QED
    BY <1>2, <1>8, <2>3, ShortCutAgrees
<1> HIDE DEF r
<1>9. LabelPageIsMapped'
  BY <1>1, <1>3, <1>8 DEF LabelPageIsMapped, getAddressPageNumber, GetPageOfA16
<1>10. m'.DeviceID /\ Onward' => PageCached(m')
  BY <1>1, <1>3, <1>5
<1>11. ~SkippedFile' => DispInRange(m')
  BY <1>1, <1>3, <1>6 DEF LayoutInv
<1>12. /\ pass' # LASTPASS => excursion' = "inside"
       /\ pass' = LASTPASS /\ Onward' => LossReported(m', excursion')
  BY <1>1, <1>3, <1>7 DEF LayoutInv
<1> QED
  BY <1>9, <1>10, <1>11, <1>12
     DEF LayoutInv, PageCached, DispInRange, LossReported, Outside, InSlot, LongAddr

LEMMA OnwardLine ==
  ASSUME IInv, Onward, phase \in {"parse", "emit"}
  PROVE  ~MovesUnseen(Line)
<1>1. pc \in Nat /\ pc > 0
  BY DEF IInv, TypeOK
<1>2. pc \in 1 .. pc
  BY <1>1
<1> QED
  BY <1>2 DEF Onward, Line

LEMMA DirectiveLayout ==
  ASSUME IInv, LayoutInv,
         ORG \/ DISP \/ ENT \/ PAGE \/ MMU \/ SLOT \/ DEVICE \/ BLOCK \/ DB \/ ALIGN \/ INCBIN
  PROVE  LayoutInv'
<1>1. phase = "parse"
  BY DEF ORG, DISP, ENT, PAGE, MMU, SLOT, DEVICE, BLOCK, DB, ALIGN, INCBIN, Parsing
<1>2. Line \in LineType /\ m \in Machine /\ OptionCached(m) /\ ~m.fatal
  BY <1>1, LineIsLine DEF IInv, TypeOK
<1>3. Onward => ~MovesUnseen(Line)
  BY <1>1, OnwardLine
<1>4. ASSUME NEW r, Directive(r), Keeps(r, m) PROVE LayoutInv'
  BY <1>4, KeepingDirective DEF Keeps
<1>5. ASSUME NEW n, NEW keep, Emission(n, keep) PROVE LayoutInv'
  BY <1>5, UnchangedLayout DEF Emission
<1>6. CASE ORG
  <2>1. Line.dir = "ORG" /\ Directive(dirORG(m, Line)) /\ Line.addr \in Int /\ Line.page \in Int
    BY <1>2, <1>6, LineArguments DEF ORG, Parsing
  <2>2. KeepsDisp(dirORG(m, Line), m) /\ (Onward => Keeps(dirORG(m, Line), m))
    BY <1>2, <1>3, <2>1, dirORGKeeps
  <2> QED
    BY <2>1, <2>2, KeepingDirective
<1>7. CASE DISP
  <2>1. Directive(dirDISP(m, Line)) /\ Line.addr \in Int /\ Line.page \in Int
    BY <1>2, <1>7, LineArguments DEF DISP, Parsing
  <2> QED
    BY <1>2, <1>4, <2>1, dirDISPKeeps
<1>8. CASE ENT
  BY <1>2, <1>4, <1>8, dirENTKeeps DEF ENT
<1>9. CASE PAGE
  BY <1>2, <1>4, <1>9, dirPAGEKeeps DEF PAGE
<1>10. CASE MMU
  <2>1. /\ Directive(dirMMU(m, Line))
        /\ Line.opt \in SlotOptions /\ Line.page \in Int /\ Line.addr \in Int
    BY <1>2, <1>10, LineArguments DEF MMU, Parsing
  <2> QED
    BY <1>2, <1>4, <2>1, dirMMUKeeps
<1>11. CASE SLOT
  BY <1>2, <1>4, <1>11, dirSLOTKeeps DEF SLOT
<1>12. CASE DEVICE
  BY <1>2, <1>4, <1>12, dirDEVICEKeeps DEF DEVICE
<1>13. CASE BLOCK
  <2>1. Line.dir = "BLOCK" /\ Line.len \in Int
    BY <1>2, <1>13, LineArguments DEF BLOCK, Parsing
  <2>2. CASE Line.len <= 0
    <3>1. Directive(MoveBack(m, Line.len))
      BY <1>13, <2>2 DEF BLOCK
    <3>2. Onward => Line.len = 0
      BY <1>3, <2>1, <2>2 DEF MovesUnseen
    <3>3. KeepsDisp(MoveBack(m, Line.len), m) /\ (Onward => Keeps(MoveBack(m, Line.len), m))
      BY <1>2, <2>1, <2>2, <3>2, MoveBackKeeps
    <3> QED
      BY <3>1, <3>3, KeepingDirective
  <2>3. CASE ~(Line.len <= 0)
    BY <1>5, <1>13, <2>3 DEF BLOCK
  <2> QED
    BY <2>2, <2>3
<1>14. CASE DB \/ INCBIN
  BY <1>5, <1>14 DEF DB, INCBIN
<1>15. CASE ALIGN
  <2> DEFINE len == (-m.CurAddress) % Line.align
  <2>1. Directive(m) \/ Emission(len, ~Line.fill)
    BY <1>15 DEF ALIGN
  <2> QED
    BY <1>4, <1>5, <2>1, KeepsItself
<1> QED
  BY <1>6, <1>7, <1>8, <1>9, <1>10, <1>11, <1>12, <1>13, <1>14, <1>15

\* Only the address and the pointer go on behind the emitted bytes.
Advances(r, s, n) ==
  /\ SameMode(r, s) /\ LongAddr(r) = LongAddr(s) + n /\ r.CurAddress = s.CurAddress + n
  /\ r.slotPage = s.slotPage /\ r.Page = s.Page
  /\ r.previousSlotI = s.previousSlotI /\ r.limitExceeded = s.limitExceeded

LEMMA AdvanceOutcome ==
  ASSUME NEW s \in Machine, OptionCached(s), NEW n \in Int, NEW dev
  PROVE  Advances(Move(IF dev THEN MovePointer(s, n) ELSE s, n), s, n)
<1> DEFINE p == IF dev THEN MovePointer(s, n) ELSE s
<1>1. p \in Machine
  BY MovePointerGood DEF Good
<1>2. /\ SameMode(p, s) /\ p.CurAddress = s.CurAddress /\ p.adrdisp = s.adrdisp
      /\ p.slotPage = s.slotPage /\ p.Page = s.Page
      /\ p.previousSlotI = s.previousSlotI /\ p.limitExceeded = s.limitExceeded
  BY DEF MovePointer, Machine, SameMode
<1> HIDE DEF p
<1>3. LongAddr(p) = LongAddr(s)
  BY <1>2 DEF LongAddr, SameMode
<1> QED
  BY <1>1, <1>2, <1>3, MoveOutcome DEF Advances, SameMode, p

LEMMA EmitByteLayout ==
  ASSUME IInv, LayoutInv, EmitByteNoListing
  PROVE  LayoutInv'
<1> DEFINE s == IF m.DeviceID THEN CheckPage(m, "EMIT") ELSE CheckRamLimitExceeded(m)
           stores == m.DeviceID /\ s.MemoryPointer # Null
<1>0. m \in Machine /\ OptionCached(m) /\ ~m.fatal /\ phase = "emit"
  BY DEF IInv, TypeOK, EmitByteNoListing
<1>1. s \in Machine /\ OptionCached(s)
  BY <1>0, CheckPageType, CheckPageCaches, CheckRamLimitGood DEF Good
<1>2. UNCHANGED <<pass, pc, prog>> /\ phase' # "parse"
  BY <1>0 DEF EmitByteNoListing
<1>3. (Onward' <=> Onward) /\ (SkippedFile' <=> SkippedFile) /\ LabelPageIsMapped'
  BY <1>2 DEF Onward, SkippedFile, LabelPageIsMapped
<1>4. /\ s.DeviceID = m.DeviceID /\ s.PseudoORG = m.PseudoORG
      /\ ~m.DeviceID => LongAddr(s) = LongAddr(m) /\ ~s.fatal
      /\ DispInRange(m) => DispInRange(s)
      /\ s.PseudoORG /\ (s.DeviceID \/ ~IsLongPtr) => s.CurAddress < AddressSpace
  <2>1. CASE m.DeviceID
    BY <1>0, <2>1, CheckPageDisp DEF SameMode
  <2>2. CASE ~m.DeviceID
    <3>1. m.CurAddress \in Int /\ m.CurAddress % AddressSpace < AddressSpace
      BY <1>0, MaskedIsInRange DEF Machine
    <3> QED
      BY <1>0, <2>2, <3>1, SpaceAssumption
         DEF CheckRamLimitExceeded, Machine, LongAddr, DispInRange
  <2> QED
    BY <2>1, <2>2
<1>5. m.DeviceID /\ Onward =>
        PageCached(s) /\ (~s.fatal => s.Page = s.slotPage[s.previousSlotI])
  BY <1>0, CheckPagePage DEF LayoutInv
<1>6. CASE s.fatal
  <2>1. m' = s /\ UNCHANGED excursion /\ m.DeviceID
    BY <1>4, <1>6 DEF EmitByteNoListing
  <2>2. pass = LASTPASS /\ Onward => LossReported(s, excursion)
    BY <1>0, <1>6, <2>1, CheckPageKeepsAccount DEF LayoutInv
  <2> HIDE DEF s
  <2>3. /\ m'.DeviceID /\ Onward' => PageCached(m')
        /\ ~SkippedFile' => DispInRange(m')
        /\ pass' # LASTPASS => excursion' = "inside"
        /\ pass' = LASTPASS /\ Onward' => LossReported(m', excursion')
    BY <1>2, <1>3, <1>4, <1>5, <2>1, <2>2 DEF LayoutInv
  <2> QED
    BY <1>3, <2>3
       DEF LayoutInv, PageCached, DispInRange, LossReported, Outside, InSlot, LongAddr
<1>7. CASE ~s.fatal
  <2>1. /\ m' = Move(IF m.DeviceID THEN MovePointer(s, 1) ELSE s, 1)
        /\ excursion' = IF stores \/ ~m.DeviceID \/ pass # LASTPASS THEN "inside"
                        ELSE IF s.reports > m.reports \/ excursion = "reported"
                        THEN "reported" ELSE "silent"
    BY <1>7 DEF EmitByteNoListing
  <2>2. pass = LASTPASS /\ Onward /\ m.DeviceID =>
          /\ LongAddr(s) >= 0
          /\ s.MemoryPointer = Null => s.reports > m.reports \/ excursion = "reported"
          /\ s.limitExceeded => /\ s.MemoryPointer = Null
                                /\ LongAddr(s) >= AddressSpace
                                /\ LongAddr(s) >= Address(s.previousSlotI) + SlotSize
    BY <1>0, <1>7, CheckPageEmits DEF LayoutInv
  <2>3. pass = LASTPASS /\ Onward => LongAddr(s) >= 0
    BY <1>4, <2>2 DEF LayoutInv, LossReported
  <2> HIDE DEF s
  <2>4. Advances(m', s, 1)
    BY <1>1, <2>1, AdvanceOutcome
  <2>5. s.CurAddress \in Int /\ LongAddr(s) \in Int /\ Address(s.previousSlotI) \in Int
    BY <1>1, LongAddrIsInt, AddressIsInt DEF Machine
  <2>6. m'.DeviceID /\ Onward' => PageCached(m')
    BY <1>3, <1>4, <1>5, <1>7, <2>4 DEF Advances, SameMode, PageCached
  <2>7. DispInRange(m')
    BY <1>4, <2>4, <2>5, SpaceAssumption DEF Advances, SameMode, DispInRange
  <2>8. pass' # LASTPASS => excursion' = "inside"
    BY <1>2, <2>1
  <2>9. ASSUME pass' = LASTPASS, Onward' PROVE LossReported(m', excursion')
    <3>1. LongAddr(m') >= 0
      BY <1>2, <1>3, <2>3, <2>4, <2>5, <2>9 DEF Advances
    <3>2. excursion' # "silent"
      BY <1>2, <1>3, <2>1, <2>2, <2>9
    <3>3. ASSUME m'.DeviceID, m'.limitExceeded
          PROVE  excursion' = "reported" /\ Outside(m')
      <4>1. /\ s.MemoryPointer = Null /\ LongAddr(s) >= AddressSpace
            /\ LongAddr(s) >= Address(s.previousSlotI) + SlotSize /\ m.DeviceID
        BY <1>2, <1>3, <1>4, <2>2, <2>4, <2>9, <3>3 DEF Advances, SameMode
      <4>2. Outside(m')
        BY <2>4, <2>5, <4>1, SpaceAssumption, SlotsAssumption DEF Advances, Outside
      <4> QED
        BY <1>2, <2>1, <2>9, <3>2, <4>1, <4>2
    <3> QED
      BY <3>1, <3>2, <3>3 DEF LossReported
  <2> QED
    BY <1>3, <2>6, <2>7, <2>8, <2>9
       DEF LayoutInv, PageCached, DispInRange, LossReported, Outside, InSlot, LongAddr
<1> QED
  BY <1>6, <1>7

LEMMA SkipLayout ==
  ASSUME IInv, LayoutInv, SkipIncludedBytes
  PROVE  LayoutInv'
<1> DEFINE s == IF m.DeviceID THEN CheckPage(m, "EMIT") ELSE m
           room == (s.Page + 1 - s.MemoryPointer.page) * SlotSize - s.MemoryPointer.off
           advance == IF m.DeviceID /\ s.MemoryPointer # Null /\ room < todo
                      THEN room ELSE todo
<1>0. m \in Machine /\ OptionCached(m) /\ ~m.fatal /\ phase = "emit" /\ pass # LASTPASS
  BY DEF IInv, TypeOK, SkipIncludedBytes, SkipsFile
<1>1. s \in Machine /\ OptionCached(s)
  BY <1>0, CheckPageType, CheckPageCaches
<1>2. UNCHANGED <<pass, pc, prog, excursion>> /\ phase' # "parse"
  BY <1>0 DEF SkipIncludedBytes
<1>3. (Onward' <=> Onward) /\ LabelPageIsMapped'
  BY <1>2 DEF Onward, LabelPageIsMapped
<1>4. SkippedFile'
  <2>1. pc \in Nat /\ pc > 0 /\ prog[pc].dir = "INCBIN"
    BY <1>0 DEF IInv, TypeOK, SkipIncludedBytes, SkipsFile, Line
  <2>2. pc \in 1 .. pc
    BY <2>1
  <2> QED
    BY <1>0, <1>2, <2>1, <2>2 DEF SkippedFile
<1>5. s.DeviceID = m.DeviceID
  BY <1>0, CheckPageDisp DEF SameMode
<1>6. m.DeviceID /\ Onward =>
        PageCached(s) /\ (~s.fatal => s.Page = s.slotPage[s.previousSlotI])
  BY <1>0, CheckPagePage DEF LayoutInv
<1>7. m'.DeviceID /\ Onward' => PageCached(m')
  <2>1. CASE s.fatal
    <3>1. m' = s
      BY <2>1 DEF SkipIncludedBytes
    <3> HIDE DEF s
    <3> QED
      BY <1>3, <1>5, <1>6, <3>1
  <2>2. CASE ~s.fatal
    <3>1. m' = Move(IF m.DeviceID THEN MovePointer(s, advance) ELSE s, advance)
      BY <2>2 DEF SkipIncludedBytes
    <3>2. advance \in Int
      <4> HIDE DEF s
      <4>1. s.Page \in Int /\ s.MemoryPointer.page \in Int /\ s.MemoryPointer.off \in Int
        BY <1>1, PagesAssumption DEF Machine, Pages, NoArg, Pointers, Null
      <4>2. room \in Int
        BY <4>1, SlotsAssumption
      <4>3. todo \in Int
        BY DEF IInv, TypeOK
      <4> HIDE DEF room
      <4> QED
        BY <4>2, <4>3
    <3> HIDE DEF s, advance
    <3>3. Advances(m', s, advance)
      BY <1>1, <3>1, <3>2, AdvanceOutcome
    <3> QED
      BY <1>3, <1>5, <1>6, <2>2, <3>3 DEF Advances, SameMode, PageCached
  <2> QED
    BY <2>1, <2>2
<1>8. pass' # LASTPASS /\ excursion' = "inside"
  BY <1>0, <1>2 DEF LayoutInv
<1> QED
  BY <1>3, <1>4, <1>7, <1>8 DEF LayoutInv, PageCached, InSlot, LongAddr

LEMMA InitPassLayout ==
  ASSUME NEW s
  PROVE  LET r == InitPass(s)
         IN  (r.DeviceID => PageCached(r)) /\ DispInRange(r) /\ LossReported(r, "inside")
<1> DEFINE q == InitialMachine
<1>1. q \in Machine
  BY InitialMachineGood DEF Good
<1>2. ~q.DeviceID /\ ~q.PseudoORG /\ LongAddr(q) = 0
  BY DEF InitialMachine, LongAddr
<1> HIDE DEF q
<1>3. (q.DeviceID => PageCached(q)) /\ DispInRange(q) /\ LossReported(q, "inside")
  BY <1>2 DEF DispInRange, LossReported
<1>4. Keeps(SetDevice(q, "DEV"), q) /\ Keeps(q, q)
  BY <1>1, SetDeviceKeeps, KeepsItself
<1>5. InitPass(s) \in {q, SetDevice(q, "DEV")}
  BY DEF InitPass, q
<1> QED
  BY <1>3, <1>4, <1>5 DEF Keeps, KeepsPage, KeepsDisp, KeepsLoss

\* The first line of a pass finds nothing behind it.
LEMMA FirstLine == pc = 0 => Onward /\ ~SkippedFile
  BY DEF Onward, SkippedFile

LEMMA InitLayout == Init => LayoutInv
<1> SUFFICES ASSUME Init PROVE LayoutInv
  OBVIOUS
<1>1. pass = 1 /\ pc = 0 /\ phase = "line" /\ excursion = "inside" /\ m = InitialMachine
  BY DEF Init
<1>2. ~m.DeviceID /\ ~m.PseudoORG
  BY <1>1 DEF InitialMachine
<1> QED
  BY <1>1, <1>2 DEF LayoutInv, LabelPageIsMapped, DispInRange, LASTPASS

LEMMA NextPassLayout ==
  ASSUME IInv, LayoutInv, NextPass
  PROVE  LayoutInv'
<1>1. pc' = 0 /\ phase' = "line" /\ m' = InitPass(m) /\ excursion' = "inside"
  BY DEF NextPass
<1>2. (m'.DeviceID => PageCached(m')) /\ DispInRange(m') /\ LossReported(m', "inside")
  BY <1>1, InitPassLayout
<1>3. LabelPageIsMapped'
  BY <1>1 DEF LabelPageIsMapped
<1> QED
  BY <1>1, <1>2, <1>3
     DEF LayoutInv, PageCached, DispInRange, LossReported, Outside, InSlot, LongAddr

LEMMA EndOfSourceLayout ==
  ASSUME IInv, LayoutInv, EndOfSource
  PROVE  LayoutInv'
<1> DEFINE r == [m EXCEPT !.CurAddress = m.adrdisp, !.PseudoORG = FALSE]
<1>1. m \in Machine /\ UNCHANGED <<pass, pc, prog, excursion>> /\ phase' = "endpass"
  BY DEF EndOfSource, IInv, TypeOK
<1>2. CASE m.PseudoORG
  <2>1. m' = r
    BY <1>2 DEF EndOfSource
  <2>2. /\ ~r.PseudoORG /\ r.CurAddress = m.adrdisp /\ r.DeviceID = m.DeviceID
        /\ r.slotPage = m.slotPage /\ r.Page = m.Page /\ r.previousSlotI = m.previousSlotI
        /\ r.limitExceeded = m.limitExceeded
    BY <1>1 DEF Machine
  <2> HIDE DEF r
  <2>3. SameLayout(r, m) /\ DispInRange(r)
    BY <1>2, <2>2 DEF SameLayout, LongAddr, DispInRange
  <2>4. KeepsPage(r, m) /\ KeepsLoss(r, m)
    BY <2>3, SameLayoutKeeps
  <2>5. (Onward' <=> Onward) /\ LabelPageIsMapped'
    BY <1>1 DEF Onward, LabelPageIsMapped
  <2>6. /\ m'.DeviceID /\ Onward' => PageCached(m')
        /\ DispInRange(m')
        /\ pass' # LASTPASS => excursion' = "inside"
        /\ pass' = LASTPASS /\ Onward' => LossReported(m', excursion')
    BY <1>1, <2>1, <2>3, <2>4, <2>5 DEF LayoutInv, KeepsPage, KeepsLoss
  <2> QED
    BY <2>5, <2>6
       DEF LayoutInv, PageCached, DispInRange, LossReported, Outside, InSlot, LongAddr
<1>3. CASE ~m.PseudoORG
  BY <1>1, <1>3, UnchangedLayout DEF EndOfSource
<1> QED
  BY <1>2, <1>3

LEMMA NextLayout == IInv /\ LayoutInv /\ [Next]_vars => LayoutInv'
<1> SUFFICES ASSUME IInv, LayoutInv, [Next]_vars PROVE LayoutInv'
  OBVIOUS
<1>1. CASE PrepareLine
  BY <1>1, PrepareLineLayout
<1>2. CASE ORG \/ DISP \/ ENT \/ PAGE \/ MMU \/ SLOT \/ DEVICE \/ BLOCK \/ DB \/ ALIGN \/ INCBIN
  BY <1>2, DirectiveLayout
<1>3. CASE EmitByteNoListing
  BY <1>3, EmitByteLayout
<1>4. CASE SkipIncludedBytes
  BY <1>4, SkipLayout
<1>5. CASE LineDone
  BY <1>5, UnchangedLayout DEF LineDone
<1>6. CASE EndOfSource
  BY <1>6, EndOfSourceLayout
<1>7. CASE NextPass
  BY <1>7, NextPassLayout
<1>8. CASE LastPassDone
  BY <1>8, UnchangedLayout DEF LastPassDone
<1>9. CASE UNCHANGED vars
  BY <1>9, UnchangedLayout DEF vars
<1> QED
  BY <1>1, <1>2, <1>3, <1>4, <1>5, <1>6, <1>7, <1>8, <1>9 DEF Next, Exited

----------------------------------------------------------------------------
(* Theorems *)

\* For every device, every option and every program: the cached page, the
\* displaced address and the silence of limitExceeded are what CheckPage,
\* getAddressPageNumber and the directives take them for.
THEOREM DeviceLayoutInvariant == Spec => []LayoutInv
  BY InitLayout, NextLayout, DeviceMemoryInvariant, PTL DEF Spec

\* A label sees the page that is mapped at its address, and a displaced label
\* an address of the address space or its end.
THEOREM DeviceLayoutLabels == Spec => []LabelsAreInPlace
<1>1. LayoutInv => LabelsAreInPlace
  BY DEF LayoutInv, LabelsAreInPlace, DispLabelInRange, DispInRange
<1> QED
  BY <1>1, DeviceLayoutInvariant, PTL

\* No byte is lost without a report in front of the run it belongs to.
THEOREM DeviceLayoutNoSilentLoss == Spec => []NoSilentLoss
<1>1. LayoutInv => NoSilentLoss
  BY DEF LayoutInv, NoSilentLoss, LossReported
<1> QED
  BY <1>1, DeviceLayoutInvariant, PTL
=============================================================================
