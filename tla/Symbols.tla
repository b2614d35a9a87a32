------------------------------- MODULE Symbols -------------------------------
(***************************************************************************)
(* The names of a source: modules, main and local labels, macro instances, *)
(* temporary (numbered) labels and the SIZEOF tracking, over the three     *)
(* passes (tables.cpp, ParseLabel in parser.cpp, dirMODULE, dirENDMODULE).  *)
(*                                                                         *)
(* A program is the sequence of the items the passes run through, macros   *)
(* and includes already unfolded.  An item is                              *)
(*   [op, w, n, in]   what it does, a label as it is written, a number,    *)
(*                    and the passes whose conditions keep the item.       *)
(* A written label is [bang, mod, id]: the prefix "!", the modifier "",    *)
(* ".", "@" or "@.", and the identifier.  A full name is [mac, path]: the   *)
(* numbers of the macro instances it belongs to, innermost first, and the  *)
(* parts of its path.  Text is joined with dots in the code; no identifier *)
(* here contains one.                                                      *)
(***************************************************************************)
EXTENDS Integers, Sequences, FiniteSets, SequencesExt, Functions, TLC

CONSTANTS
  SymbolPrograms,     \* the programs to assemble
  LASTPASS      \* 3

\* What an item is: an operation, a written label, a number, and the passes
\* that do not leave it out.
Items ==
  [op : {"bytes", "org", "disp", "ent", "addr", "smc", "equ", "defl", "ref", "sizeof", "tag",
         "localtag", "module", "endmodule", "macro", "include", "close", "struct", "temp", "back",
         "forward"},
   w : [bang : BOOLEAN, mod : {"", ".", "@", "@."}, id : STRING],
   n : Int, in : SUBSET (1 .. LASTPASS)]

ASSUME ProgramsAssumption == LASTPASS \in Nat \ {0} /\ SymbolPrograms \subseteq Seq(Items)

VARIABLES
  prog, pass, pc,
  adr,          \* CurAddress
  phys,         \* adrdisp inside DISP, CurAddress otherwise
  displaced,    \* PseudoORG
  symbols,      \* CLabelTable: full name -> entry
  modules,      \* ModuleName, as the sequence of its parts
  vorlab,       \* the path of the last main label
  macros,       \* macrolabp: numbers of the open macro instances, innermost first
  macronummer,
  blocks,       \* the open macros and includes, innermost last
  level,        \* sourceBlockLevel
  sizeofStack,  \* labels being measured: [label, srcLevel]
  labels,       \* temporary labels of the previous pass: [nummer, value]
  nextPassLabels,
  sld,          \* the "L" lines of the debugging data: [at, parts, name]
  reads,        \* what the expressions of this pass evaluated to: [at, val, found]
  msgs          \* errors and warnings reported so far

scope  == <<modules, vorlab, macros, macronummer, blocks, level>>
place  == <<adr, phys, displaced>>
temps  == <<labels, nextPassLabels>>
symbolVars   == <<prog, pass, pc, place, symbols, scope, sizeofStack, temps, sld, reads, msgs>>

-----------------------------------------------------------------------------
(* Names.                                                                  *)

IsLocal(w) == w.mod \in {".", "@."}

\* ValidateLabel: "@." is understood inside macros, in definitions only.
Escapes(w, setNameSpace) == setNameSpace /\ ~w.bang /\ macros # <<>> /\ w.mod = "@."
ValidName(w, setNameSpace) == w.mod # "@." \/ Escapes(w, setNameSpace)

ValidateLabel(w, setNameSpace) ==
  LET inMacro  == w.mod = "." /\ macros # <<>>
      inModule == w.mod = "" /\ modules # <<>>
  IN CASE inMacro    -> [mac |-> macros, path |-> <<w.id>>]
       [] inModule   -> [mac |-> <<>>, path |-> Append(modules, w.id)]
       [] IsLocal(w) /\ ~inMacro -> [mac |-> <<>>, path |-> Append(vorlab, w.id)]
       [] OTHER      -> [mac |-> <<>>, path |-> <<w.id>>]

\* The part of ValidateLabel that makes a main label the owner of later local ones.
NewVorlab(w, setNameSpace) ==
  IF setNameSpace /\ ~w.bang /\ ~IsLocal(w) THEN ValidateLabel(w, setNameSpace).path ELSE vorlab

InitVorlab(ms) == Append(ms, "_")

\* ExportLabelToSld: module, main and local part of a label that was just
\* defined, with the macro instances in the place of its main label.  The text
\* of the module is cut from the text of the main label where it begins with it;
\* no identifier of a program begins with another one.
ExportLabelToSld(w, isStructLabel, main) ==
  LET inMacro  == w.mod = "." /\ macros # <<>>
      inModule == ~inMacro /\ w.mod # "@" /\ modules # <<>>
      fromVorlab == ~w.bang /\ ~inMacro /\ ~(isStructLabel /\ ~IsLocal(w))
      mainLabel  == IF inMacro THEN <<>> ELSE IF fromVorlab THEN main ELSE <<w.id>>
      skip == fromVorlab /\ modules # <<>> /\ IsPrefix(modules, mainLabel)
  IN [module |-> IF inModule THEN modules ELSE <<>>,
      mac    |-> IF inMacro THEN macros ELSE <<>>,
      main   |-> IF skip THEN SubSeq(mainLabel, Len(modules) + 1, Len(mainLabel)) ELSE mainLabel,
      local  |-> IF IsLocal(w) THEN <<w.id>> ELSE <<>>]

Exported(w, isStructLabel, main) ==
  sld \cup {[at |-> pc, parts |-> ExportLabelToSld(w, isStructLabel, main), name |-> ValidateLabel(w, TRUE)]}

\* Mutant: only the innermost macro instance is searched.
Candidates_innermost(w) ==
  LET full == ValidateLabel(w, FALSE)
  IN IF w.mod = "." /\ macros # <<>>
       THEN <<full, [mac |-> <<>>, path |-> Append(vorlab, w.id)]>>
     ELSE IF w.mod = "" /\ modules # <<>> THEN <<full, [mac |-> <<>>, path |-> <<w.id>>]>>
     ELSE <<full>>

\* The names SearchLabel tries for a written label, in this order: a local
\* label in all enclosing macros, then under the main label; a plain one in
\* the module, then outside of all modules.
Candidates(w) ==
  LET full == ValidateLabel(w, FALSE)
  IN IF w.mod = "." /\ macros # <<>>
       THEN [k \in 1 .. Len(macros) |->
              [mac |-> SubSeq(macros, k, Len(macros)), path |-> <<w.id>>]]
            \o <<[mac |-> <<>>, path |-> Append(vorlab, w.id)]>>
     ELSE IF w.mod = "" /\ modules # <<>> THEN <<full, [mac |-> <<>>, path |-> <<w.id>>]>>
     ELSE <<full>>

Known(table, name)   == name \in DOMAIN table
IsDefined(table, name) == Known(table, name) /\ table[name].page

\* The first candidate that is defined, else the last one that is a placeholder;
\* without either, the name GetLabel makes a placeholder for.
Found(w) == \E k \in DOMAIN Candidates(w) : IsDefined(symbols, Candidates(w)[k])

SearchLabel(w) ==
  LET cs == Candidates(w)
      defined == {k \in DOMAIN cs : IsDefined(symbols, cs[k])}
      placeholders == {k \in DOMAIN cs : Known(symbols, cs[k])}
  IN IF defined # {} THEN cs[CHOOSE k \in defined : \A j \in defined : k <= j]
     ELSE IF placeholders # {} THEN cs[CHOOSE k \in placeholders : \A j \in placeholders : j <= k]
     ELSE IF w.mod = "." /\ macros # <<>> THEN cs[Len(cs)] ELSE cs[1]

-----------------------------------------------------------------------------
(* The label table.                                                        *)

Undefined == [value |-> 0, ph_value |-> 0, page |-> FALSE, updatePass |-> 0, kind |-> "none",
              local |-> FALSE, sized |-> FALSE, size |-> 0]

PutLabel(table, name, entry) == (name :> entry) @@ table
LabelEntry(table, name) == IF Known(table, name) THEN table[name] ELSE Undefined

\* GetLabel: a missing label becomes a placeholder; SIZEOF marks the label.
GetLabel(w, sizeof) ==
  LET name == SearchLabel(w)
      old  == LabelEntry(symbols, name)
      new  == IF Known(symbols, name) THEN old ELSE [old EXCEPT !.updatePass = pass]
  IN PutLabel(symbols, name, [new EXCEPT !.sized = @ \/ sizeof])

\* CLabelTable::Insert succeeds (needsUpdate, or the name is new).
NeedsUpdate(table, name) ==
  Known(table, name) =>
    table[name].kind = "defl" \/ ~table[name].page \/ table[name].updatePass < pass

Insert(table, name, val, kind, local) ==
  PutLabel(table, name, [LabelEntry(table, name) EXCEPT !.value = val, !.ph_value = phys, !.page = TRUE,
                                              !.updatePass = pass, !.kind = kind, !.local = local])

\* CLabelTable::Update
Update(table, name, val) == [table EXCEPT ![name].value = val, ![name].ph_value = phys]

-----------------------------------------------------------------------------
(* SIZEOF.                                                                 *)

\* Mutant: a boundary does not end labels of its own level.
Closed_deeper(stack, myLevel, all) ==
  {k \in DOMAIN stack : all \/ \A j \in k .. Len(stack) : myLevel < stack[j].srcLevel}

\* The labels a boundary stops: from the top of the stack down to the first
\* one that belongs to an outer level; a hard boundary stops all.
Closed(stack, myLevel, all) ==
  {k \in DOMAIN stack : all \/ \A j \in k .. Len(stack) : myLevel <= stack[j].srcLevel}

\* SizeBoundary on a table and a stack: kind is "local", "main", "all" or "flow".
Boundary(table, stack, kind) ==
  LET myLevel == level + (IF kind = "local" THEN 1 ELSE 0)
      closed  == Closed(stack, myLevel, kind \in {"all", "flow"})
      names   == {stack[k].label : k \in closed}
  IN [table |-> [name \in DOMAIN table |->
                   IF name \in names THEN [table[name] EXCEPT !.size = phys - table[name].ph_value]
                                     ELSE table[name]],
      stack |-> SubSeq(stack, 1, Len(stack) - Cardinality(closed)),
      msgs  |-> (IF kind = "flow" /\ stack # <<>> THEN {"sizeof across wrap-around"} ELSE {})
                \cup (IF kind = "all" /\ \E k \in closed : stack[k].srcLevel < myLevel
                        THEN {"sizeof of parent scope"} ELSE {})]

SizeBoundary(kind) ==
  LET b == Boundary(symbols, sizeofStack, kind)
  IN /\ symbols' = b.table
     /\ sizeofStack' = b.stack
     /\ msgs' = msgs \cup b.msgs

\* A definition is a boundary for the labels of its level and, when somebody
\* asked for its size, is measured from here on (TrackForSize).
DefineAndTrack(table, name, local, reported) ==
  LET b == Boundary(table, sizeofStack, IF local THEN "local" ELSE "main")
      e == b.table[name]
      track == e.sized /\ e.kind \notin {"equ", "defl", "smc"}
  IN /\ symbols' = b.table
     /\ sizeofStack' = IF track
                         THEN Append(b.stack, [label |-> name, srcLevel |-> level + (IF e.local THEN 1 ELSE 0)])
                         ELSE b.stack
     /\ msgs' = msgs \cup b.msgs \cup reported
                \cup (IF e.sized /\ ~track THEN {"sizeof of this type of label"} ELSE {})

-----------------------------------------------------------------------------
(* The items.                                                              *)

CurrentItem == prog[pc]
Live == pc <= Len(prog) /\ pass \in CurrentItem.in
NextItem == pc' = pc + 1 /\ UNCHANGED <<prog, pass>>

\* An item that conditional assembly leaves out in this pass.
SkipItem ==
  /\ pc <= Len(prog) /\ pass \notin CurrentItem.in
  /\ NextItem
  /\ UNCHANGED <<place, symbols, scope, sizeofStack, temps, reads, msgs, sld>>

EmitBytes ==
  /\ Live /\ CurrentItem.op = "bytes"
  /\ adr' = adr + CurrentItem.n
  /\ phys' = phys + CurrentItem.n
  /\ NextItem
  /\ UNCHANGED <<displaced, symbols, scope, sizeofStack, temps, reads, msgs, sld>>

\* ORG is a hard boundary, but only sets the displaced address inside DISP.
dirORG ==
  /\ Live /\ CurrentItem.op = "org"
  /\ IF displaced THEN UNCHANGED <<symbols, sizeofStack, msgs, phys>>
                  ELSE SizeBoundary("all") /\ phys' = CurrentItem.n
  /\ adr' = CurrentItem.n
  /\ NextItem
  /\ UNCHANGED <<displaced, scope, temps, reads, sld>>

dirDISP ==
  /\ Live /\ CurrentItem.op = "disp" /\ ~displaced
  /\ adr' = CurrentItem.n
  /\ displaced' = TRUE
  /\ NextItem
  /\ UNCHANGED <<phys, symbols, scope, sizeofStack, temps, reads, msgs, sld>>

dirENT ==
  /\ Live /\ CurrentItem.op = "ent" /\ displaced
  /\ adr' = phys
  /\ displaced' = FALSE
  /\ NextItem
  /\ UNCHANGED <<phys, symbols, scope, sizeofStack, temps, reads, msgs, sld>>

\* ParseLabel for a label of kind "addr", "smc" (address plus offset), "equ" or "defl".
Label ==
  /\ Live /\ CurrentItem.op \in {"addr", "smc", "equ", "defl"}
  /\ LET w     == CurrentItem.w
         kind  == CurrentItem.op
         val   == IF kind \in {"equ", "defl"} THEN CurrentItem.n ELSE adr + CurrentItem.n
         name  == ValidateLabel(w, TRUE)
         local == IsLocal(w)
         fresh == NeedsUpdate(symbols, name)
         put   == Insert(symbols, name, val, kind, local)
         early == IF fresh THEN put ELSE IF pass = 2 THEN Update(symbols, name, val) ELSE symbols
         reset == IF kind = "defl" /\ fresh THEN put ELSE symbols
         drift == reset[name].value # val
         last  == IF drift THEN Update(reset, name, val) ELSE [reset EXCEPT ![name].updatePass = pass]
     IN IF ~ValidName(w, TRUE)
          THEN msgs' = msgs \cup {"invalid label"} /\ UNCHANGED <<symbols, sizeofStack, vorlab, sld>>
        ELSE /\ vorlab' = NewVorlab(w, TRUE)
             /\ sld' = IF pass = LASTPASS /\ kind # "defl" /\ IsDefined(symbols, name)
                         THEN Exported(w, FALSE, NewVorlab(w, TRUE)) ELSE sld
             /\ IF pass < LASTPASS
                  THEN DefineAndTrack(early, name, local,
                         IF ~fresh /\ pass = 1 THEN {"duplicate label"} ELSE {})
                ELSE IF kind # "defl" /\ ~IsDefined(symbols, name)
                  THEN msgs' = msgs \cup {"label not found"} /\ UNCHANGED <<symbols, sizeofStack>>
                ELSE DefineAndTrack(last, name, local,
                       IF drift THEN {"different value in pass 3"} ELSE {})
  /\ NextItem
  /\ UNCHANGED <<place, modules, macros, macronummer, blocks, level, temps, reads>>

\* An expression that reads the value of a label, or its size.
Read ==
  /\ Live /\ CurrentItem.op \in {"ref", "sizeof"}
  /\ LET w == CurrentItem.w
         e == LabelEntry(symbols, SearchLabel(w))
     IN IF ~ValidName(w, FALSE)
          THEN msgs' = msgs \cup {"invalid label"} /\ UNCHANGED <<symbols, reads>>
        ELSE /\ symbols' = GetLabel(w, CurrentItem.op = "sizeof")
             /\ reads' = reads \cup {[at |-> pc, found |-> Found(w),
                          val |-> IF ~Found(w) THEN 0 ELSE IF CurrentItem.op = "ref" THEN e.value ELSE e.size]}
             /\ msgs' = msgs \cup (IF Found(w) THEN {} ELSE {"label not found"})
  /\ NextItem
  /\ UNCHANGED <<place, scope, sizeofStack, temps, sld>>

\* The tags "::" and ":.:" of ParseLabel.
Tag ==
  /\ Live /\ CurrentItem.op \in {"tag", "localtag"}
  /\ SizeBoundary(IF CurrentItem.op = "tag" THEN "main" ELSE "local")
  /\ NextItem
  /\ UNCHANGED <<place, scope, temps, reads, sld>>

OpenModule ==
  /\ Live /\ CurrentItem.op = "module"
  /\ SizeBoundary("all")
  /\ level' = level + 2
  /\ modules' = Append(modules, CurrentItem.w.id)
  /\ vorlab' = InitVorlab(modules')
  /\ NextItem
  /\ UNCHANGED <<place, macros, macronummer, blocks, temps, reads, sld>>

CloseModule ==
  /\ Live /\ CurrentItem.op = "endmodule"
  /\ IF modules = <<>>
       THEN msgs' = msgs \cup {"ENDMODULE without MODULE"} /\ UNCHANGED <<symbols, sizeofStack, scope>>
     ELSE /\ SizeBoundary("main")
          /\ level' = level - 2
          /\ modules' = Front(modules)
          /\ vorlab' = InitVorlab(modules')
          /\ UNCHANGED <<macros, macronummer, blocks>>
  /\ NextItem
  /\ UNCHANGED <<place, temps, reads, sld>>

\* CMacroTable::Emit and OpenFile, up to the first line of the body ...
Open ==
  /\ Live /\ CurrentItem.op \in {"macro", "include"}
  /\ level' = level + 2
  /\ blocks' = Append(blocks, CurrentItem.op)
  /\ IF CurrentItem.op = "macro"
       THEN macros' = <<macronummer>> \o macros /\ macronummer' = macronummer + 1
       ELSE UNCHANGED <<macros, macronummer>>
  /\ NextItem
  /\ UNCHANGED <<place, modules, vorlab, symbols, sizeofStack, temps, reads, msgs, sld>>

\* ... and after its last line.
Close ==
  /\ Live /\ CurrentItem.op = "close" /\ blocks # <<>>
  /\ SizeBoundary("main")
  /\ level' = level - 2
  /\ blocks' = Front(blocks)
  /\ macros' = IF Last(blocks) = "macro" THEN Tail(macros) ELSE macros
  /\ NextItem
  /\ UNCHANGED <<place, modules, vorlab, macronummer, temps, reads, sld>>

\* The size that CStructure::emitlab stores: it looks the name up as it was written.
StructSize(table, w, n) ==
  LET written == [mac |-> <<>>, path |-> <<w.id>>]
  IN IF w.mod = "" /\ ~w.bang /\ IsDefined(table, written) THEN [table EXCEPT ![written].size = n] ELSE table

\* CStructureTable::Emit with a label: the instance of a structure of n bytes.
\* Its label is no boundary and is not tracked; the last pass looks it up as an
\* expression would, which "@." is not allowed in.
EmitStruct ==
  /\ Live /\ CurrentItem.op = "struct" /\ (ValidName(CurrentItem.w, FALSE) \/ pass < LASTPASS)
  /\ LET w     == CurrentItem.w
         name  == ValidateLabel(w, TRUE)
         fresh == NeedsUpdate(symbols, name)
         table == IF pass = LASTPASS THEN GetLabel(w, FALSE)
                  ELSE IF fresh THEN Insert(symbols, name, adr, "struct", IsLocal(w))
                  ELSE symbols
     IN IF ~ValidName(w, TRUE)
          THEN msgs' = msgs \cup {"invalid label"} /\ UNCHANGED <<symbols, vorlab, sld>>
        ELSE /\ vorlab' = NewVorlab(w, TRUE)
             /\ sld' = IF pass = LASTPASS THEN Exported(w, TRUE, NewVorlab(w, TRUE)) ELSE sld
             /\ symbols' = StructSize(table, w, CurrentItem.n)
             /\ msgs' = msgs \cup
                  (IF pass < LASTPASS THEN IF fresh THEN {} ELSE {"duplicate label"}
                   ELSE IF LabelEntry(symbols, SearchLabel(w)).value = adr THEN {}
                   ELSE {"different value in pass 2"})
  /\ adr' = adr + CurrentItem.n
  /\ phys' = phys + CurrentItem.n
  /\ NextItem
  /\ UNCHANGED <<displaced, modules, macros, macronummer, blocks, level, sizeofStack, temps, reads>>

\* The label was accepted in the earlier passes and ends the assembly in the last.
StructFails ==
  /\ Live /\ CurrentItem.op = "struct" /\ ~ValidName(CurrentItem.w, FALSE) /\ pass = LASTPASS
  /\ msgs' = msgs \cup {"invalid label", "internal error"}
  /\ pc' = Len(prog) + 2
  /\ sizeofStack' = <<>>
  /\ UNCHANGED <<prog, pass, place, symbols, scope, temps, reads, sld>>

-----------------------------------------------------------------------------
(* Temporary labels.                                                       *)

\* InsertRefresh: the label of the same position in the previous pass must
\* have the same number.
Temp ==
  /\ Live /\ CurrentItem.op = "temp"
  /\ LET k    == Len(nextPassLabels) + 1
         same == k <= Len(labels) /\ labels[k].nummer = CurrentItem.n
     IN msgs' = msgs \cup
          (IF pass = LASTPASS /\ ~same THEN {"temporary labels flow differs"} ELSE {})
          \cup (IF pass = LASTPASS /\ same /\ labels[k].value # adr
                  THEN {"temporary label has different address"} ELSE {})
  /\ nextPassLabels' = Append(nextPassLabels, [nummer |-> CurrentItem.n, value |-> adr])
  /\ NextItem
  /\ UNCHANGED <<place, symbols, scope, sizeofStack, labels, reads, sld>>

\* Mutant: the search starts one label too late.
SeekForward_late(n) == {k \in Len(nextPassLabels) + 2 .. Len(labels) : labels[k].nummer = n}

\* seekForward and seekBack: the positions that match; the nearest one is taken.
SeekForward(n) == {k \in Len(nextPassLabels) + 1 .. Len(labels) : labels[k].nummer = n}
SeekBack(n) == {k \in DOMAIN nextPassLabels : nextPassLabels[k].nummer = n}

GetTemporaryLabelValue ==
  /\ Live /\ CurrentItem.op \in {"back", "forward"}
  /\ LET ks  == IF CurrentItem.op = "back" THEN SeekBack(CurrentItem.n) ELSE SeekForward(CurrentItem.n)
         val == IF ks = {} THEN 0
                ELSE IF CurrentItem.op = "back"
                  THEN nextPassLabels[CHOOSE k \in ks : \A j \in ks : j <= k].value
                ELSE labels[CHOOSE k \in ks : \A j \in ks : k <= j].value
     IN /\ reads' = reads \cup {[at |-> pc, val |-> val, found |-> ks # {}]}
        /\ msgs' = msgs \cup
             (IF ks = {} /\ pass = LASTPASS THEN {"temporary label not found"} ELSE {})
  /\ NextItem
  /\ UNCHANGED <<place, symbols, scope, sizeofStack, temps, sld>>

-----------------------------------------------------------------------------
(* Passes.                                                                 *)

SymbolsInit ==
  /\ prog \in SymbolPrograms
  /\ pass = 1 /\ pc = 1
  /\ adr = 0 /\ phys = 0 /\ displaced = FALSE
  /\ symbols = <<>>
  /\ modules = <<>> /\ vorlab = InitVorlab(<<>>)
  /\ macros = <<>> /\ macronummer = 0 /\ blocks = <<>> /\ level = 0
  /\ sizeofStack = <<>>
  /\ labels = <<>> /\ nextPassLabels = <<>> /\ sld = {}
  /\ reads = {} /\ msgs = {}

\* The end of the source file: a boundary for all that is measured.  The bodies
\* of macros and includes have ended before.
EndOfFile ==
  /\ pc = Len(prog) + 1 /\ blocks = <<>>
  /\ SizeBoundary("main")
  /\ level' = level - 2
  /\ pc' = pc + 1
  /\ UNCHANGED <<prog, pass, place, modules, vorlab, macros, macronummer, blocks, temps, reads, sld>>

\* InitPass, and the reset of the SIZEOF state in front of the source file.
SymbolsPass ==
  /\ pc = Len(prog) + 2 /\ pass < LASTPASS
  /\ SizeBoundary("flow")
  /\ pass' = pass + 1
  /\ pc' = 1
  /\ adr' = 0 /\ phys' = 0 /\ displaced' = FALSE
  /\ modules' = <<>> /\ vorlab' = InitVorlab(<<>>)
  /\ macros' = <<>> /\ macronummer' = 0 /\ blocks' = <<>> /\ level' = 0
  /\ labels' = nextPassLabels /\ nextPassLabels' = <<>>
  /\ reads' = {}
  /\ UNCHANGED <<prog, sld>>

AllPassesDone == pass = LASTPASS /\ pc = Len(prog) + 2 /\ UNCHANGED symbolVars

SymbolsNext ==
  \/ SkipItem \/ EmitBytes \/ dirORG \/ dirDISP \/ dirENT
  \/ Label \/ Read \/ Tag \/ OpenModule \/ CloseModule \/ Open \/ Close \/ EmitStruct \/ StructFails
  \/ Temp \/ GetTemporaryLabelValue
  \/ EndOfFile \/ SymbolsPass \/ AllPassesDone

SymbolsSpec == SymbolsInit /\ [][SymbolsNext]_symbolVars

-----------------------------------------------------------------------------
(* Properties.                                                             *)

\* The assembly has run through its last pass.
PassesEnded == pass = LASTPASS /\ pc = Len(prog) + 2

\* Labels are measured innermost last: a boundary that stops at the first
\* outer label has closed all labels it should (the loop of SizeBoundary).
StackOrdered ==
  \A i, j \in DOMAIN sizeofStack : i < j => sizeofStack[i].srcLevel <= sizeofStack[j].srcLevel

\* No label is measured at a deeper level than the source is at, and none at
\* an outer level than the file: whatever MODULE and ENDMODULE did inside of
\* macros and includes, the end of the file closes all.
LevelsBound ==
  \A k \in DOMAIN sizeofStack :
    sizeofStack[k].srcLevel \in level - 2 * Len(blocks) .. level + 1

\* The reset in front of a source file "should NEVER report anything"
\* (the comment in main): nothing is left on the stack there.
NothingLeftTracked ==
  /\ pc = Len(prog) + 2 => sizeofStack = <<>>
  /\ "sizeof across wrap-around" \notin msgs

\* The inductive invariant of the SIZEOF tracking.
SizeofInv == StackOrdered /\ LevelsBound /\ NothingLeftTracked

\* The reads of temporary labels are those of the last pass.
TempsBefore(i) == Cardinality({j \in 1 .. i - 1 : prog[j].op = "temp" /\ LASTPASS \in prog[j].in})
TempReadIsNearest(r) ==
  LET n  == prog[r.at].n
      c  == TempsBefore(r.at)
      ks == {k \in DOMAIN nextPassLabels : nextPassLabels[k].nummer = n /\
               (IF prog[r.at].op = "back" THEN k <= c ELSE k > c)}
  IN \E k \in ks : /\ r.val = nextPassLabels[k].value
                   /\ \A j \in ks : IF prog[r.at].op = "back" THEN j <= k ELSE k <= j

TempMessages == {"temporary labels flow differs", "temporary label has different address",
                 "temporary label not found"}
TempReads == {r \in reads : prog[r.at].op \in {"back", "forward"}}

\* Forward references are looked up in the list of the previous pass.  Unless
\* the last pass reports that the lists differ, every reference is the nearest
\* label of the last pass itself - provided that pass has as many labels.
TempRefsAgree ==
  PassesEnded /\ msgs \cap TempMessages = {} /\ Len(nextPassLabels) >= Len(labels)
    => \A r \in TempReads : TempReadIsNearest(r)

=============================================================================
