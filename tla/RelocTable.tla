----------------------------- MODULE RelocTable -----------------------------
(***************************************************************************)
(* The relocation table: RELOCATE_START, RELOCATE_END, RELOCATE_TABLE.     *)
(*                                                                         *)
(* Every word (or byte, in HIGH mode) that has to be adjusted when the     *)
(* code moves adds its offset to a table.  RELOCATE_TABLE may come before  *)
(* the code it describes, therefore the table of the previous pass stands  *)
(* in for offsets the current pass has not collected yet; the size of the  *)
(* emitted table in turn moves the code behind it.                         *)
(*                                                                         *)
(* A line exists in the passes of its field "in": conditional assembly     *)
(* (IFUSED, the value of a forward label, __PASS__) may hide it in others. *)
(***************************************************************************)
EXTENDS Integers, Sequences

CONSTANTS
    WordRange,   \* 0x10000 in the code: the table holds words
    Lines,       \* source lines a program may consist of
    MaxLines     \* bound: number of lines of a program

LASTPASS == 3
Passes == 1 .. LASTPASS
OFF == 0
REGULAR == 1
HIGH == 2

\* An expression over a relocatable label: the label itself, its high byte,
\* or something that relocation makes unstable.
LineType ==
       [op : {"START"}, high : BOOLEAN, in : SUBSET Passes]
  \cup [op : {"END", "TABLE", "ENT"}, in : SUBSET Passes]
  \cup [op : {"DISP"}, addr : Nat, in : SUBSET Passes]
  \cup [op : {"DW", "DB"}, expr : {"label", "high", "unstable"}, in : SUBSET Passes]

ASSUME LinesAssumption == /\ Lines \subseteq LineType /\ MaxLines \in Nat
                          /\ WordRange \in Nat \ {0}

VARIABLES
    offsets, offsetsPrevious, maxTableCount, warnAboutContentChange,
    type,          \* type of the open relocation block
    mode,          \* alternative_offset: OFF before the first block
    CurAddress, adrdisp,
    PseudoORG,     \* "DISP_NONE", "DISP_ACTIVE" or "DISP_INSIDE_RELOCATE"
    pass, pc, prog,
    phase,         \* "line", "parse" or "exit"
    errors,        \* kinds of errors shown
    inconsistent,  \* was "Relocation table seems internally inconsistent" shown?
    unstable,      \* were the warnings about unstable expressions shown?
    tables,        \* ghost: the tables the last pass emitted
    controls,      \* ghost: where pass 1 was, without the addresses
    moments        \* ghost: where pass 2 was

reloc == <<offsets, offsetsPrevious, maxTableCount, warnAboutContentChange, type, mode>>
place == <<CurAddress, adrdisp, PseudoORG>>
source == <<pass, pc, prog>>
ghosts == <<controls, moments>>
vars == <<reloc, place, source, phase, errors, inconsistent, unstable, tables, ghosts>>

Line == prog[pc]

\* What decides the blocks, the number of offsets, and then the addresses.
Ctl(p, ph, ty, md, org, n) ==
  [pc |-> p, phase |-> ph, type |-> ty, mode |-> md, org |-> org, n |-> n]
At(p, ph, ty, org, adr, disp, out) ==
  [pc |-> p, phase |-> ph, type |-> ty, org |-> org, adr |-> adr, disp |-> disp, out |-> out]
Control == Ctl(pc, phase, type, mode, PseudoORG, Len(offsets))
Moment == At(pc, phase, type, PseudoORG, CurAddress, adrdisp, offsets)
Remember == /\ controls' = IF pass' = 1 THEN controls \cup {Control'} ELSE controls
            /\ moments' = IF pass' = 2 THEN moments \cup {Moment'} ELSE moments

----------------------------------------------------------------------------
(* Collecting offsets *)

\* ParseExpression compares the value with the one of the moved labels.
deltaType(expr) == CASE expr = "label" -> REGULAR
                     [] expr = "high" /\ type = HIGH -> HIGH
                     [] OTHER -> OFF

\* Mutant: a table that is too short is not noticed.
DiffersWithin(offset) ==
  /\ warnAboutContentChange
  /\ Len(offsets) + 1 <= Len(offsetsPrevious)
  /\ offsetsPrevious[Len(offsets) + 1] # offset

\* The table was emitted already: does the new offset contradict it?
Differs(offset) ==
  /\ warnAboutContentChange
  /\ \/ Len(offsetsPrevious) <= Len(offsets)
     \/ offsetsPrevious[Len(offsets) + 1] # offset

addOffsetToRelocate(offset) ==
  /\ offsets' = Append(offsets, offset % WordRange)
  /\ inconsistent' = (inconsistent \/ Differs(offset))
  /\ warnAboutContentChange' = (warnAboutContentChange /\ ~Differs(offset))
  /\ UNCHANGED unstable

\* Where the byte is, seen from the relocation block.
Address == IF PseudoORG = "DISP_INSIDE_RELOCATE" THEN adrdisp ELSE CurAddress

Complain == /\ unstable' = TRUE
            /\ UNCHANGED <<offsets, inconsistent, warnAboutContentChange>>

Ignore == UNCHANGED <<offsets, inconsistent, warnAboutContentChange, unstable>>

\* resolveRelocationAffected for an affected expression of a DW (minType is
\* REGULAR) or of a DB (HIGH); GetBytes warns about what is left over.
resolveRelocationAffected(minType, delta) ==
  LET relocates == minType <= type /\ minType <= delta
  IN  \/ type = OFF /\ Ignore
      \/ type # OFF /\ ~relocates /\ Complain
      \/ type # OFF /\ relocates /\ addOffsetToRelocate(Address + type - delta)

Advance(n) == /\ CurAddress' = CurAddress + n
              /\ adrdisp' = IF PseudoORG = "DISP_NONE" THEN adrdisp ELSE adrdisp + n
              /\ UNCHANGED PseudoORG

Parsing(op) == phase = "parse" /\ Line.op = op /\ pass \in Line.in

Data ==
  /\ Parsing("DW") \/ Parsing("DB")
  /\ LET byte == Line.op = "DB"
     IN  /\ resolveRelocationAffected(IF byte THEN HIGH ELSE REGULAR, deltaType(Line.expr))
         /\ Advance(IF byte THEN 1 ELSE 2)
  /\ UNCHANGED <<offsetsPrevious, maxTableCount, type, mode, errors, tables>>

----------------------------------------------------------------------------
(* Directives *)

refreshMaxTableCount ==
  maxTableCount' = IF maxTableCount < Len(offsets) THEN Len(offsets) ELSE maxTableCount

Rejected(message) ==
  /\ errors' = errors \cup {message}
  /\ UNCHANGED <<reloc, place, inconsistent, unstable, tables>>

dirRELOCATE_START ==
  /\ Parsing("START")
  /\ LET new == IF Line.high THEN HIGH ELSE REGULAR
     IN  IF type # OFF THEN Rejected("already started")
         ELSE IF mode \notin {OFF, new} THEN Rejected("mixed modes")
         ELSE /\ mode' = new /\ type' = new
              /\ refreshMaxTableCount
              /\ UNCHANGED <<offsets, offsetsPrevious, warnAboutContentChange, place,
                             errors, inconsistent, unstable, tables>>

dirRELOCATE_END ==
  /\ Parsing("END")
  /\ IF type = OFF THEN Rejected("start is missing")
     ELSE IF PseudoORG = "DISP_INSIDE_RELOCATE" THEN Rejected("end DISP first")
     ELSE /\ type' = OFF
          /\ refreshMaxTableCount
          /\ UNCHANGED <<offsets, offsetsPrevious, warnAboutContentChange, mode, place,
                         errors, inconsistent, unstable, tables>>

\* Word i of the table that is emitted now.
Entry(i) == IF i <= Len(offsets) THEN offsets[i] ELSE offsetsPrevious[i]

dirRELOCATE_TABLE ==
  /\ Parsing("TABLE")
  /\ refreshMaxTableCount
  /\ tables' = IF pass = LASTPASS
               THEN tables \cup {[i \in 1 .. maxTableCount' |-> Entry(i)]} ELSE tables
  /\ Advance(2 * maxTableCount')
  /\ warnAboutContentChange' = (pass = LASTPASS)
  /\ UNCHANGED <<offsets, offsetsPrevious, type, mode, errors, inconsistent, unstable>>

DISP ==
  /\ Parsing("DISP")
  /\ IF PseudoORG = "DISP_NONE"
     THEN /\ adrdisp' = CurAddress /\ CurAddress' = Line.addr
          /\ PseudoORG' = IF type = OFF THEN "DISP_ACTIVE" ELSE "DISP_INSIDE_RELOCATE"
     ELSE UNCHANGED place
  /\ UNCHANGED <<reloc, errors, inconsistent, unstable, tables>>

\* A DISP block is inside of a relocation block, or around it.
ENT ==
  /\ Parsing("ENT")
  /\ IF PseudoORG = "DISP_NONE" THEN Rejected("ENT after DISP")
     ELSE IF (PseudoORG = "DISP_ACTIVE") = (type # OFF) THEN Rejected("blocks overlap")
     ELSE /\ CurAddress' = adrdisp /\ PseudoORG' = "DISP_NONE" /\ UNCHANGED adrdisp
          /\ UNCHANGED <<reloc, errors, inconsistent, unstable, tables>>

Skipped == /\ phase = "parse" /\ pass \notin Line.in
           /\ UNCHANGED <<reloc, place, errors, inconsistent, unstable, tables>>

ParseLine ==
  /\ \/ Data \/ dirRELOCATE_START \/ dirRELOCATE_END \/ dirRELOCATE_TABLE
     \/ DISP \/ ENT \/ Skipped
  /\ phase' = "line" /\ UNCHANGED source
  /\ Remember

----------------------------------------------------------------------------
(* Passes *)

\* Mutant: the largest table of any pass is remembered.
InitPassKeepsCount ==
  /\ errors' = IF type = OFF THEN errors ELSE errors \cup {"missing end"}
  /\ offsetsPrevious' = offsets /\ offsets' = << >> /\ type' = OFF
  /\ UNCHANGED <<maxTableCount, warnAboutContentChange, mode>>

\* Mutant: a pass starts with an empty table.
InitPassForgetsCount ==
  /\ errors' = IF type = OFF THEN errors ELSE errors \cup {"missing end"}
  /\ offsetsPrevious' = offsets /\ offsets' = << >> /\ type' = OFF
  /\ maxTableCount' = 0
  /\ UNCHANGED <<warnAboutContentChange, mode>>

\* Relocation::InitPass
InitPass ==
  /\ errors' = IF type = OFF THEN errors ELSE errors \cup {"missing end"}
  /\ offsetsPrevious' = offsets /\ offsets' = << >> /\ type' = OFF
  /\ maxTableCount' = Len(offsets)
  /\ UNCHANGED <<warnAboutContentChange, mode>>

ReadLine ==
  /\ phase = "line"
  /\ \/ pc < Len(prog) /\ prog' = prog
     \/ /\ pass = 1 /\ pc = Len(prog) /\ pc < MaxLines
        /\ \E line \in Lines : prog' = Append(prog, line)
  /\ pc' = pc + 1 /\ phase' = "parse"
  /\ UNCHANGED <<reloc, place, pass, errors, inconsistent, unstable, tables>>
  /\ Remember

NextPass ==
  /\ phase = "line" /\ pc = Len(prog) /\ pass < LASTPASS
  /\ InitPass
  /\ pass' = pass + 1 /\ pc' = 0
  /\ CurAddress' = 0 /\ adrdisp' = 0 /\ PseudoORG' = "DISP_NONE"
  /\ UNCHANGED <<prog, phase, inconsistent, unstable, tables>>
  /\ Remember

LastPassDone ==
  /\ phase = "line" /\ pc = Len(prog) /\ pass = LASTPASS
  /\ phase' = "exit"
  /\ UNCHANGED <<reloc, place, source, errors, inconsistent, unstable, tables, ghosts>>

Exited == phase = "exit" /\ UNCHANGED vars

Init ==
  /\ offsets = << >> /\ offsetsPrevious = << >> /\ maxTableCount = 0
  /\ warnAboutContentChange = FALSE /\ type = OFF /\ mode = OFF
  /\ CurAddress = 0 /\ adrdisp = 0 /\ PseudoORG = "DISP_NONE"
  /\ pass = 1 /\ pc = 0 /\ prog = << >> /\ phase = "line"
  /\ errors = {} /\ inconsistent = FALSE /\ unstable = FALSE /\ tables = {}
  /\ controls = {Control} /\ moments = {}

Next == ReadLine \/ ParseLine \/ NextPass \/ LastPassDone \/ Exited

Spec == Init /\ [][Next]_vars

----------------------------------------------------------------------------
(* Properties *)

Words == 0 .. WordRange - 1

\* The tables hold words, and the state of blocks is one the code knows.
TypeOK ==
  /\ offsets \in Seq(Words) /\ offsetsPrevious \in Seq(Words)
  /\ maxTableCount \in Nat
  /\ warnAboutContentChange \in BOOLEAN /\ inconsistent \in BOOLEAN
  /\ type \in {OFF, REGULAR, HIGH} /\ mode \in {OFF, REGULAR, HIGH}
  /\ CurAddress \in Nat /\ adrdisp \in Nat
  /\ PseudoORG \in {"DISP_NONE", "DISP_ACTIVE", "DISP_INSIDE_RELOCATE"}
  /\ pass \in Passes /\ prog \in Seq(Lines) /\ pc \in 0 .. Len(prog)
  /\ phase \in {"line", "parse", "exit"} /\ (phase = "parse" => pc > 0)

\* RELOCATE_TABLE never reads behind the end of offsetsPrevious: the count is
\* the length of one of the two tables.
CountIsBacked == maxTableCount <= Len(offsets) \/ maxTableCount <= Len(offsetsPrevious)

\* Every table a last pass without a warning emitted begins with the offsets
\* that pass has collected by now: none is missing, none is wrong, wherever
\* the table stands in the source.
SilentTableHasAll ==
  ~inconsistent => \A t \in tables : /\ Len(offsets) <= Len(t)
                                     /\ \A i \in 1 .. Len(offsets) : t[i] = offsets[i]

\* The offsets of the previous pass always fit the count ...
CountCoversPrevious == Len(offsetsPrevious) <= maxTableCount

\* ... only the last pass emits tables, and without a warning it still
\* compares new offsets with them ...
TablesAreWatched == /\ tables # {} => pass = LASTPASS
                    /\ tables # {} /\ ~inconsistent => warnAboutContentChange

\* ... so that what it has not collected yet is what it took from the
\* previous pass.
SilentTablesAgree ==
  ~inconsistent => \A t \in tables : /\ t \in Seq(Words)
                                     /\ Len(offsets) <= Len(t)
                                     /\ Len(offsetsPrevious) <= Len(t)
                                     /\ \A i \in 1 .. Len(t) : t[i] = Entry(i)

\* The inductive invariant behind CountIsBacked and SilentTableHasAll: state
\* of relocate.cpp between any two source lines.
IInv == /\ TypeOK /\ CountIsBacked /\ CountCoversPrevious
        /\ TablesAreWatched /\ SilentTablesAgree

\* No address of the program comes near the end of the word range: every line
\* emits at most one word per line of the program.
StaysBelowEnd ==
  LET size == 2 * Len(prog) * Len(prog)
  IN  /\ size < WordRange
      /\ \A i \in 1 .. Len(prog) : prog[i].op = "DISP" => prog[i].addr + size < WordRange

\* Three passes are enough for a source that has the same lines in every pass
\* and stays below the end of the word range: no warning, and exact tables,
\* although each table may come before the code and moves it.
ThreePassesSuffice ==
  /\ phase = "exit" /\ StaysBelowEnd
  /\ \A i \in 1 .. Len(prog) : prog[i].in = Passes
  => ~inconsistent /\ \A t \in tables : t = offsets

=============================================================================
