------------------------------- MODULE Exports -------------------------------
(***************************************************************************)
(* What the program writes for other tools: the label lists of Unreal and     *)
(* CSpect, the symbol and export files, the table behind the listing, the      *)
(* breakpoint lists and the keyword comments of the debugging data.  The       *)
(* directives act in different passes: LABELSLIST and SLDOPT in the first,      *)
(* BPLIST in the second, the others in the last; the lists of labels are        *)
(* written when all passes are over.                                         *)
(*                                                                         *)
(* A source is a sequence of items [op, name, n, x, in]: a name is a sequence   *)
(* of identifiers, n a number, x a word, in the passes that see the item.       *)
(***************************************************************************)
EXTENDS Integers, Sequences, SequencesExt, FiniteSets, Functions

CONSTANTS
  ExportSources,   \* bound: the sources
  Memories,        \* devices: id -> [size: of a page, slots: the initial pages]
  MaxBreakpoints   \* 100 in the code

ASSUME ExportsAssumption == MaxBreakpoints \in Nat

VARIABLES
  xsrc,  \* the source
  xs     \* the globals: see ExportStart

exportVars == <<xsrc, xs>>

FinalPass == 3
PAGE_UNDEFINED == -1
PAGE_ROM == 32512
PAGE_OUT_OF_BOUNDS == 32640
NoMemory == "NONE"
NoFile == "none"

ExportStart ==
  [pass |-> 1, pc |-> 1, table |-> <<>>, errors |-> {}, ended |-> "no",
   device |-> NoMemory, listed |-> {}, maps |-> [d \in DOMAIN Memories |-> Memories[d].slots],
   directives |-> 0, global |-> NoMemory,                      \* deviceDirectivesCount, globalDeviceID
   unreal |-> NoFile, cspect |-> 0, exportName |-> FALSE,      \* the Options
   exp |-> NoFile, exported |-> <<>>, sld |-> FALSE, keywords |-> <<>>, header |-> <<>>, comments |-> <<>>,
   bp |-> NoFile, counter |-> 0, points |-> <<>>]

ItemAt(s) == xsrc[s.pc]
Seen(s) == s.pc <= Len(xsrc) /\ s.pass \in ItemAt(s).in

\* Error of the type PASS3, and of the type EARLY
Error3(s, e) == IF s.pass = FinalPass THEN [s EXCEPT !.errors = @ \cup {e}] ELSE s
Early(s, e) == [s EXCEPT !.errors = @ \cup {e}]

-----------------------------------------------------------------------------
(* Devices and labels, as far as pages need them.                            *)

SlotOf(d, adr) == adr \div Memories[d].size + 1
GetPageOfA16(s, adr) ==
  IF SlotOf(s.device, adr) \in DOMAIN s.maps[s.device] THEN s.maps[s.device][SlotOf(s.device, adr)]
  ELSE PAGE_OUT_OF_BOUNDS
getAddressPageNumber(s, adr) == IF s.device = NoMemory THEN PAGE_ROM ELSE GetPageOfA16(s, adr)

SetDevice(s, d) ==
  IF d = NoMemory THEN [s EXCEPT !.device = d]
  ELSE [s EXCEPT !.device = d, !.listed = @ \cup {d},
                 !.maps[d] = IF d \in s.listed THEN @ ELSE Memories[d].slots]

dirDEVICE(s) ==
  LET counted == [s EXCEPT !.directives = @ + 1]
  IN  IF counted.directives > 1 \/ s.listed = {} THEN SetDevice(counted, ItemAt(s).x) ELSE counted

dirPAGE(s) ==
  IF s.device = NoMemory THEN Error3(s, "no device")
  ELSE [s EXCEPT !.maps[s.device][Len(Memories[s.device].slots)] = ItemAt(s).n]

\* ParseLabel and CLabelTable::Insert; the last pass finds the label as pass 2 left it.
Define(s) ==
  LET it == ItemAt(s)
      e  == [value |-> it.n, kind |-> it.x, pass |-> s.pass, page |-> getAddressPageNumber(s, it.n),
             used |-> it.name \in DOMAIN s.table /\ s.table[it.name].used]
      fresh == it.name \in DOMAIN s.table =>
                 \/ s.table[it.name].kind = "defl" \/ s.table[it.name].page = PAGE_UNDEFINED
                 \/ s.table[it.name].pass < s.pass
      put == [y \in DOMAIN s.table \cup {it.name} |-> IF y = it.name THEN e ELSE s.table[y]]
  IN  IF s.pass < FinalPass THEN IF fresh THEN [s EXCEPT !.table = put] ELSE Early(s, "duplicate label")
      ELSE IF it.name \notin DOMAIN s.table \/ s.table[it.name].page = PAGE_UNDEFINED
        THEN IF it.x = "defl" THEN [s EXCEPT !.table = put] ELSE Error3(s, "label not found")
      ELSE IF it.x = "defl" THEN [s EXCEPT !.table = put]
      ELSE [s EXCEPT !.table[it.name].pass = s.pass]

Exists(s, name) == name \in DOMAIN s.table /\ s.table[name].page # PAGE_UNDEFINED

\* GetLabelValue: a label nobody defined yet gets an entry without a page
Refer(s) ==
  LET n == ItemAt(s).name
      undefined == [value |-> 0, kind |-> "none", pass |-> s.pass, page |-> PAGE_UNDEFINED, used |-> TRUE]
      t == IF n \in DOMAIN s.table THEN [s.table EXCEPT ![n].used = TRUE]
           ELSE [y \in DOMAIN s.table \cup {n} |-> IF y = n THEN undefined ELSE s.table[y]]
  IN  IF Exists(s, n) THEN [s EXCEPT !.table = t] ELSE Error3([s EXCEPT !.table = t], "label not found")

-----------------------------------------------------------------------------
(* Directives.                                                             *)

dirLABELSLIST(s) ==
  IF s.device = NoMemory THEN Error3(s, "LABELSLIST only in device mode")
  ELSE IF s.pass # 1 THEN s
  ELSE [s EXCEPT !.unreal = ItemAt(s).x]     \* "pages", or "virtual" for EmitVirtualLabels

dirCSPECTMAP(s) ==
  IF s.device = NoMemory THEN Error3(s, "CSPECTMAP only in device mode")
  ELSE IF s.pass # FinalPass THEN s
  ELSE [s EXCEPT !.cspect = Memories[s.device].size]

\* Mutant: the name of the file is asked for in the last pass only.
dirEXPORT_last(s) ==
  LET r == Refer(s)
  IN  IF s.pass < FinalPass THEN s
      ELSE [r EXCEPT !.exportName = TRUE,
                     !.exported = IF Exists(s, ItemAt(s).name) /\ s.exp # NoFile
                                  THEN Append(@, <<ItemAt(s).name, s.table[ItemAt(s).name].value>>) ELSE @]

\* dirEXPORT with WriteExp; without a file nothing is written
dirEXPORT(s) ==
  LET r == [Refer(s) EXCEPT !.exportName = TRUE]
  IN  IF s.pass < FinalPass THEN [s EXCEPT !.exportName = TRUE]
      ELSE [r EXCEPT !.exported = IF Exists(s, ItemAt(s).name) /\ s.exp # NoFile
                                  THEN Append(@, <<ItemAt(s).name, s.table[ItemAt(s).name].value>>) ELSE @]

\* dirBPLIST with OpenBreakpointsFile
dirBPLIST(s) ==
  IF s.pass # 2 THEN s
  ELSE IF s.device = NoMemory THEN Early(s, "BPLIST only in device mode")
  ELSE IF s.bp # NoFile THEN Early(s, "breakpoints file was already opened")
  ELSE [s EXCEPT !.bp = ItemAt(s).x, !.counter = 0]

Conditional == {"mame", "fuse"}

\* WriteBreakpoint: n < 0 stands for a breakpoint with a condition at -n
WriteBreakpoint(s) ==
  LET condition == ItemAt(s).n < 0
      adr == IF condition THEN -ItemAt(s).n ELSE ItemAt(s).n
      c   == s.counter + 1
      t   == [s EXCEPT !.counter = c]
      put == [t EXCEPT !.points = Append(@, [n |-> c, adr |-> adr % 65536, condition |-> condition])]
  IN  CASE s.bp = NoFile -> Error3(s, "no breakpoints file")
        [] s.bp = "zesarux" /\ c > MaxBreakpoints -> Error3(t, "maximum amount of breakpoints")
        [] s.bp \notin Conditional /\ condition -> Error3(t, "conditional breakpoint")
        [] OTHER -> put

dirSETBREAKPOINT(s) == IF s.pass # FinalPass THEN s ELSE WriteBreakpoint(s)

\* dirSLDOPT COMMENT
SldAddCommentKeyword(s) ==
  IF s.pass = 1 /\ ~Contains(s.keywords, ItemAt(s).x) THEN [s EXCEPT !.keywords = Append(@, ItemAt(s).x)] ELSE s

IsSldExportActive(s) == s.sld /\ s.device # NoMemory

\* SldTrackComments: a comment x at the address n
SldTrackComments(s) ==
  IF IsSldExportActive(s) /\ Contains(s.keywords, ItemAt(s).x)
  THEN [s EXCEPT !.comments = Append(@, [at |-> s.pc, page |-> GetPageOfA16(s, ItemAt(s).n), adr |-> ItemAt(s).n])]
  ELSE s

-----------------------------------------------------------------------------
(* The lists of labels.                                                    *)

\* getDumpOrder only orders them
Listed(s) == {name \in DOMAIN s.table : s.table[name].page # PAGE_UNDEFINED}

Dump(s) == {[name |-> n, value |-> s.table[n].value, used |-> s.table[n].used] : n \in Listed(s)}

\* "convert pages {0, 1, 2, 3} of ZX48 into ZX128-like {ROM, 5, 2, 0}"
fakeZx128Pages == <<PAGE_ROM, 5, 2, 0>>

DumpForUnreal(s) ==
  LET virtual == s.unreal = "virtual"
      mask == IF virtual THEN 65536 ELSE Memories[s.device].size
      PageOf(n) ==
        LET p == IF virtual THEN PAGE_OUT_OF_BOUNDS ELSE s.table[n].page
        IN  IF s.device = "ZXSPECTRUM48" /\ p < 4 THEN fakeZx128Pages[p + 1] ELSE p
  IN  {[name |-> n, adr |-> s.table[n].value % mask,
        page |-> IF PageOf(n) < PAGE_ROM THEN PageOf(n) ELSE PAGE_UNDEFINED] : n \in Listed(s)}

\* Mutant: the first dot is taken
SplitAt_first(s, name) ==
  LET ks == {k \in 1 .. Len(name) - 1 : Exists(s, SubSeq(name, 1, k))}
  IN  IF ks = {} THEN Len(name) ELSE CHOOSE k \in ks : \A j \in ks : k <= j

\* DumpForCSpect: "@" stands behind the longest part of a name that is a label
SplitAt(s, name) ==
  LET ks == {k \in 1 .. Len(name) - 1 : Exists(s, SubSeq(name, 1, k))}
  IN  IF ks = {} THEN Len(name) ELSE CHOOSE k \in ks : \A j \in ks : j <= k

\* The file has the names in upper case: two that differ in case only are one in it.
DumpForCSpect(s) ==
  LET Type(e) == CASE e.kind = "struct" -> 0 [] e.kind = "structdef" -> 4 [] e.kind = "equ" -> 1
                   [] e.kind = "defl" -> 2 [] OTHER -> IF e.page >= PAGE_ROM THEN 3 ELSE 0
  IN  {LET e == s.table[n]
           page == IF Type(e) # 0 THEN 0 ELSE e.page
       IN  [primary |-> SubSeq(n, 1, SplitAt(s, n)), local |-> SubSeq(n, SplitAt(s, n) + 1, Len(n)),
            adr |-> e.value % 65536, type |-> Type(e), long |-> (e.value % s.cspect) + page * s.cspect]
        : n \in Listed(s)}

\* DumpSymbols has the labels without a page, too
DumpSymbols(s) == {[name |-> n, value |-> s.table[n].value] : n \in DOMAIN s.table}

-----------------------------------------------------------------------------
(* Passes.                                                                 *)

\* OpenSld and InitPass with OpenExpFile
NextExportPass(s) ==
  LET p == s.pass + 1
      only == s.directives = 1 /\ s.listed # {}
      t == [s EXCEPT !.pass = p, !.pc = 1, !.device = NoMemory, !.listed = {}, !.directives = 0,
                     !.global = IF only THEN CHOOSE d \in s.listed : TRUE ELSE NoMemory,
                     !.sld = p = FinalPass /\ xsrc # <<>>, !.header = IF p = FinalPass THEN s.keywords ELSE <<>>,
                     !.exp = IF p = FinalPass /\ s.exportName THEN "open" ELSE NoFile]
  IN  IF t.global = NoMemory THEN t ELSE SetDevice(t, t.global)

\* The end of main.  Without a device DumpForUnreal compares a null pointer.
FinishExports(s) == [s EXCEPT !.ended = IF s.unreal # NoFile /\ s.device = NoMemory THEN "crashed" ELSE "yes"]

Assembled(s) ==
  CASE ~Seen(s) -> s
    [] ItemAt(s).op = "device" -> dirDEVICE(s)
    [] ItemAt(s).op = "page" -> dirPAGE(s)
    [] ItemAt(s).op = "label" -> Define(s)
    [] ItemAt(s).op = "ref" -> Refer(s)
    [] ItemAt(s).op = "labelslist" -> dirLABELSLIST(s)
    [] ItemAt(s).op = "cspectmap" -> dirCSPECTMAP(s)
    [] ItemAt(s).op = "export" -> dirEXPORT(s)
    [] ItemAt(s).op = "bplist" -> dirBPLIST(s)
    [] ItemAt(s).op = "setbp" -> dirSETBREAKPOINT(s)
    [] ItemAt(s).op = "keyword" -> SldAddCommentKeyword(s)
    [] ItemAt(s).op = "comment" -> SldTrackComments(s)

ExportLine ==
  /\ xs.ended = "no" /\ xs.pc <= Len(xsrc)
  /\ xs' = [Assembled(xs) EXCEPT !.pc = @ + 1]
  /\ UNCHANGED xsrc

ExportPass ==
  /\ xs.ended = "no" /\ xs.pc > Len(xsrc) /\ xs.pass < FinalPass
  /\ xs' = NextExportPass(xs)
  /\ UNCHANGED xsrc

ExportEnd ==
  /\ xs.ended = "no" /\ xs.pc > Len(xsrc) /\ xs.pass = FinalPass
  /\ xs' = FinishExports(xs)
  /\ UNCHANGED xsrc

ExportInit == xsrc \in ExportSources /\ xs = ExportStart
ExportNext == ExportLine \/ ExportPass \/ ExportEnd
ExportSpec == ExportInit /\ [][ExportNext]_exportVars
=============================================================================
