----------------------------- MODULE Structures -----------------------------
(***************************************************************************)
(* STRUCT: a definition is read line by line into a table of labels and a  *)
(* table of members, structures nest by copying both, and an instance      *)
(* walks the members along the text of its initialisers (CStructure in     *)
(* tables.cpp, ParseStructLine in parser.cpp, dirSTRUCT, GetStructText).    *)
(*                                                                         *)
(* The text of initialisers is a sequence of tokens [t, v]: a number "n",  *)
(* a comma, braces, and "nl" for the end of a source line.  No device is    *)
(* selected, so a brace never starts the reading of a memory cell, and no   *)
(* relocation block is open (RelocTable has those).                         *)
(***************************************************************************)
EXTENDS Integers, Sequences, FiniteSets, SequencesExt, TLC

CONSTANTS
  StructPrograms,       \* sequences of items: "module", "struct" and "inst" records
  STRUCT_LASTPASS,       \* 3
  TEXT_MAX_SIZE   \* 8192 in the code

ASSUME StructuresAssumption == STRUCT_LASTPASS \in Nat \ {0} /\ TEXT_MAX_SIZE \in Nat \ {0}

VARIABLES
  structProg, structPass, structPc,
  line,           \* lines of the open definition read so far
  module,         \* ModuleName: <<>> or <<"m">>
  cur,            \* full name of the structure being defined, Nothing outside
  structs,        \* CStructureTable: full name -> CStructure
  structLabels,         \* full name -> [value, pass] of the last definition
  structAdr,            \* CurAddress
  emitted,        \* bytes of this pass: [at, byte], Preserved where memory is kept
  errors, warnings

structVars == <<structProg, structPass, structPc, line, module, cur, structs, structLabels, structAdr, emitted, errors, warnings>>

Nothing   == <<>>
Preserved == -1
NoAddress == -1     \* INT_MAX of ParseDesignedAddress

-----------------------------------------------------------------------------
(* Members.                                                                *)

WidthOf == [byte |-> 1, word |-> 2, d24 |-> 3, dword |-> 4]
Scalars == DOMAIN WidthOf

\* CStructureEntry2.
MemberEntry(type, offset, len, def, text) ==
  [type |-> type, offset |-> offset, len |-> len, def |-> def, text |-> text]

\* CStructure: names is the list mnf, membs the list mbf.
NewStructure == [noffset |-> 0, maxAlignment |-> 0, names |-> <<>>, membs |-> <<>>]

AddMember(st, type, len, def, text) ==
  [st EXCEPT !.membs = Append(@, MemberEntry(type, st.noffset, len, def, text)), !.noffset = @ + len]

\* Mutant: a copied label is not moved to where the nested structure begins.
CopyLabel_unmoved(st, naam, offset) ==
  [st EXCEPT !.names = Append(@, [naam |-> naam, offset |-> IF Len(naam) = 1 THEN st.noffset ELSE offset])]

\* AddLabel and CopyLabel.
CopyLabel(st, naam, offset) ==
  [st EXCEPT !.names = Append(@, [naam |-> naam, offset |-> st.noffset + offset])]

\* A nested structure without a label of its own gives no labels.
CopyLabels(st, from, label) ==
  IF label = "" THEN st
  ELSE FoldLeft(LAMBDA s, n : CopyLabel(s, <<label>> \o n.naam, n.offset), st, from.names)

Misalignment(st, at) == IF st.maxAlignment = 0 THEN 0 ELSE (-at) % st.maxAlignment

-----------------------------------------------------------------------------
(* Walking along the text.  A cursor holds what is left of the text, the   *)
(* braces that are open, the members read, and what was reported.          *)

Cursor(toks) == [rest |-> toks, braces |-> 0, out |-> <<>>, err |-> {}, stop |-> FALSE]

At(c, t)      == c.rest # <<>> /\ Head(c.rest).t = t
SkipField(c)       == [c EXCEPT !.rest = Tail(@)]
SkipIf(c, t)  == IF At(c, t) THEN SkipField(c) ELSE c
Report(c, e)  == [c EXCEPT !.err = @ \cup {e}]
PutField(c, entry) == [c EXCEPT !.out = Append(@, entry)]

\* PrepareNonBlankMultiLine: blank ends of lines are passed over.
MultiLine(c) ==
  LET k == SelectInSeq(c.rest, LAMBDA x : x.t # "nl")
  IN [c EXCEPT !.rest = IF k = 0 THEN <<>> ELSE SubSeq(@, k, Len(@))]

\* comma(): a doubled comma is not one.
AtComma(c) == At(c, ",") /\ ~(Len(c.rest) > 1 /\ c.rest[2].t = ",")

\* Reads the values between the braces of a TEXT member, `s' holds them.
TextValue(s, c, len) ==
  LET More(d) == IF AtComma(d.c) THEN [d EXCEPT !.c = SkipField(d.c)] ELSE [d EXCEPT !.done = TRUE]
  IN IF s.done THEN s
     ELSE IF c.rest = <<>> \/ At(c, "}") THEN [s EXCEPT !.c = c, !.done = TRUE]
     ELSE IF Len(s.data) >= len THEN [s EXCEPT !.c = Report(c, "text too long"), !.done = TRUE]
     ELSE IF ~At(c, "n") THEN [s EXCEPT !.c = Report(c, "syntax"), !.done = TRUE]
     ELSE More([s EXCEPT !.data = Append(@, Head(c.rest).v % 256), !.c = SkipField(c)])

TextValues(c0, len) ==
  LET Step(s, i) == TextValue(s, MultiLine(s.c), len)
  IN FoldLeft(Step, [c |-> c0, data |-> <<>>, done |-> FALSE], [i \in 1 .. Len(c0.rest) + 1 |-> i])

Zeros(n) == [i \in 1 .. n |-> 0]

\* Mutant: the rest of a text with a default is filled with its last value.
Filling_last(data, init, i) == IF data # <<>> THEN data[Len(data)] ELSE 0

\* The bytes that are not given come from the default; in a definition, where
\* there is none, from the last one given.
Filling(data, init, i) == IF init # Nothing THEN init[i] ELSE IF data # <<>> THEN data[Len(data)] ELSE 0

\* The closing brace and the bytes after the ones in `data'.
TextEnd(c, data, len, init) ==
  IF ~At(c, "}") THEN [c |-> Report(c, "text needs braces"), data |-> data \o Zeros(len - Len(data))]
  ELSE [c |-> SkipField(c), data |-> [i \in 1 .. len |-> IF i <= Len(data) THEN data[i] ELSE Filling(data, init, i)]]

GetStructText(c0, len, init) ==
  LET Of(s) == TextEnd(MultiLine(s.c), s.data, len, init)
  IN IF At(c0, "{") THEN Of(TextValues(SkipField(c0), len))
     ELSE [c |-> IF init = Nothing THEN Report(c0, "text needs braces") ELSE c0,
           data |-> IF init = Nothing THEN Zeros(len) ELSE init]

\* The comma that separates this member's value from the next one.
Separator(c, membs, i) ==
  IF i < Len(membs) /\ membs[i + 1].type # "close" THEN SkipIf(c, ",") ELSE c

\* One member of CopyMembers (copying) or of emitmembs: read its value, keep
\* the default where there is none, note the braces of nested structures.
WalkMember(c, membs, i, copying) ==
  LET ip == membs[i]
  IN CASE ip.type = "block" -> PutField(c, ip)
       [] ip.type \in Scalars ->
            Separator(IF At(c, "n") THEN PutField(SkipField(c), [ip EXCEPT !.def = Head(c.rest).v]) ELSE PutField(c, ip),
                      membs, i)
       [] ip.type = "text" ->
            LET Put(g) == Separator(PutField(g.c, [ip EXCEPT !.text = g.data]), membs, i)
            IN Put(GetStructText(c, ip.len, ip.text))
       [] ip.type = "open" ->
            PutField(IF At(c, "{") THEN [SkipField(c) EXCEPT !.braces = @ + 1] ELSE c, ip)
       [] ip.type = "close" ->
            LET closes == c.braces > 0 /\ At(c, "}")
                d      == IF closes THEN [SkipField(c) EXCEPT !.braces = @ - 1] ELSE c
            IN PutField(IF closes \/ ~copying THEN Separator(d, membs, i) ELSE d, ip)

\* Inside braces a member may be looked for on the lines that follow.
InBraces(c) ==
  LET Stopping(d) == [d EXCEPT !.stop = d.rest = <<>>]
  IN IF c.braces = 0 \/ c.stop THEN c ELSE Stopping(MultiLine(c))

CloseBrace(c, i) ==
  LET Close(d) == IF d.stop \/ d.braces = 0 THEN d
                  ELSE IF At(d, "}") THEN [SkipField(d) EXCEPT !.braces = @ - 1] ELSE [d EXCEPT !.stop = TRUE]
  IN Close(InBraces(c))

\* The loop that both functions are: an opening brace, the members, and the
\* braces that are still open.
Opened(c) == IF At(c, "{") THEN [SkipField(c) EXCEPT !.braces = 1] ELSE c

WalkMembers(c0, membs, copying) ==
  LET On(c, i)   == IF c.stop THEN c ELSE WalkMember(c, membs, i, copying)
      Step(c, i) == On(InBraces(c), i)
  IN FoldLeft(Step, c0, [i \in 1 .. Len(membs) |-> i])

CloseBraces(c) == FoldLeft(CloseBrace, c, [i \in 1 .. c.braces |-> i])

Unclosed(c) == IF c.braces > 0 THEN Report(c, "closing } missing") ELSE c

Walk(toks, membs, copying) == Unclosed(CloseBraces(WalkMembers(Opened(Cursor(toks)), membs, copying)))

-----------------------------------------------------------------------------
(* Definitions.                                                            *)

\* zoek: the structure of the current module, then the global one.
zoek(naam, gl) ==
  LET here == IF gl THEN <<naam>> ELSE Append(module, naam)
  IN IF here \in DOMAIN structs THEN here
     ELSE IF <<naam>> \in DOMAIN structs THEN <<naam>> ELSE Nothing

\* CopyMembers: the copied members stand between two markers of no length.
CopyMembers(st, from, toks) ==
  LET Copy(s, m) == AddMember(s, m.type, m.len, m.def, m.text)
      Copied(c) == [st |-> AddMember(FoldLeft(Copy, AddMember(st, "open", 0, 0, Nothing), c.out), "close", 0, 0, Nothing),
                    c  |-> c]
  IN Copied(Walk(toks, from.membs, TRUE))

PowersOfTwo == {2 ^ k : k \in 0 .. 15}

\* ParseAlignArguments, with the default of structures; 0 is an illegal alignment.
AlignArgument(toks) ==
  IF toks = <<>> THEN 4 ELSE IF toks[1].v \in PowersOfTwo THEN toks[1].v ELSE 0

HasFill(toks) == Len(toks) = 3 /\ toks[2].t = "," /\ toks[3].t = "n"

\* ParseStructLabel and ParseStructMember on one line [label, op, args].  A
\* label that is a number is refused.
ParseStructLine(st0, l) ==
  LET numeric == l.label \in {"0", "1"}
      label   == IF numeric THEN "" ELSE l.label
      st  == IF label = "" THEN st0 ELSE CopyLabel(st0, <<label>>, 0)
      bad == IF numeric THEN {"number label"} ELSE {}
      c0  == [Cursor(l.args) EXCEPT !.err = bad]
      Result(s, c) == [st |-> s, err |-> c.err \cup (IF c.rest = <<>> \/ At(c, "nl") THEN {} ELSE {"unexpected"}),
                       warn |-> {}]
      number  == At(c0, "n")
      val     == IF number THEN Head(l.args).v ELSE 0
  IN CASE l.op = "none" -> [st |-> st, err |-> bad, warn |-> {}]
       [] l.op \in Scalars ->
            Result(AddMember(st, l.op, WidthOf[l.op], val, Nothing), IF number THEN SkipField(c0) ELSE c0)
       [] l.op = "block" ->
            [st |-> AddMember(st, "block", IF number THEN val ELSE 1,
                              IF HasFill(l.args) THEN l.args[3].v % 256 ELSE Preserved, Nothing),
             err |-> IF number THEN bad ELSE bad \cup {"expression expected"}, warn |-> {}]
       [] l.op = "text" /\ ~(number /\ val \in 1 .. TEXT_MAX_SIZE) ->
            [st |-> st, err |-> bad \cup {"text length"}, warn |-> {}]
       [] l.op = "text" /\ number /\ val \in 1 .. TEXT_MAX_SIZE ->
            LET c == SkipField(c0)
                Given(g) == Result(AddMember(st, "text", val, 0, g.data), g.c)
            IN IF AtComma(c) THEN Given(GetStructText(SkipField(c), val, Nothing))
               ELSE Result(AddMember(st, "text", val, 0, Zeros(val)),
                           IF c.rest = <<>> THEN c ELSE Report(c, "comma expected"))
       [] l.op = "align" ->
            LET a     == AlignArgument(l.args)
                fills == a # 0 /\ HasFill(l.args)
                legal == fills /\ l.args[3].v \in 0 .. 255
                gap   == IF a = 0 THEN 0 ELSE (-st.noffset) % a
                s     == [st EXCEPT !.maxAlignment = IF @ < a THEN a ELSE @]
            IN [st |-> IF gap < 1 THEN s
                       ELSE AddMember(s, "block", gap, IF legal THEN l.args[3].v ELSE Preserved, Nothing),
                err |-> IF a = 0 \/ (fills /\ ~legal) THEN bad \cup {"illegal align"} ELSE bad, warn |-> {}]
       [] l.op = "nest" ->
            LET n == zoek(l.st, l.gl)
            IN IF n = Nothing THEN [st |-> st, err |-> bad \cup {"unexpected"}, warn |-> {}]
               ELSE IF n = cur THEN [st |-> st, err |-> bad \cup {"can't include itself"}, warn |-> {}]
               ELSE LET from == structs[n]
                        Nested(r) == [Result(r.st, [r.c EXCEPT !.err = @ \cup bad]) EXCEPT
                                        !.warn = IF Misalignment(from, st.noffset) # 0 THEN {"misaligned"} ELSE {}]
                    IN Nested(CopyMembers(CopyLabels(st, from, label), from, l.args))

-----------------------------------------------------------------------------
(* Labels.                                                                 *)

\* GetLabelValue: the name in the current module, else the name alone, else 0.
GetLabelValue(labels, name) ==
  LET variants == <<module \o name, name>>
      found    == SelectInSeq(variants, LAMBDA n : n \in DOMAIN labels)
  IN IF found = 0 THEN 0 ELSE labels[variants[found]].value

\* InsertSingleStructLabel: passes before the last define, the last one looks
\* the name up again.  A structure is given by its full name, an instance by
\* the one in the source.
InsertSingleStructLabel(t, name, value, isDefine) ==
  LET full == IF isDefine THEN name ELSE module \o name
  IN IF structPass = STRUCT_LASTPASS
       THEN IF GetLabelValue(t.labels, name) # value THEN [t EXCEPT !.err = @ \cup {"different value"}] ELSE t
     ELSE IF full \in DOMAIN t.labels /\ t.labels[full].pass = structPass
       THEN [t EXCEPT !.err = @ \cup {"duplicate label"}]
     ELSE [t EXCEPT !.labels = (full :> [value |-> value, pass |-> structPass]) @@ @]

InsertStructSubLabels(t, mainName, st, address, isDefine) ==
  FoldLeft(LAMBDA u, n : InsertSingleStructLabel(u, mainName \o n.naam, n.offset + address, isDefine), t, st.names)

Table == [labels |-> structLabels, err |-> {}]

\* The name of a structure is its size, the names of its members their offsets.
deflab(naam, st) ==
  InsertStructSubLabels(InsertSingleStructLabel(Table, naam, st.noffset, TRUE), naam, st, 0, TRUE)

emitlab(iid, st, address) ==
  InsertStructSubLabels(InsertSingleStructLabel(Table, iid, address, FALSE), iid, st, address, FALSE)

-----------------------------------------------------------------------------
(* Bytes.                                                                  *)

\* What EmitByte, EmitWord and EmitBlock make of a member.
BytesOf(m) ==
  CASE m.type \in Scalars -> [i \in 1 .. m.len |-> (m.def \div 256 ^ (i - 1)) % 256]
    [] m.type = "block"   -> [i \in 1 .. m.len |-> m.def]
    [] m.type = "text"    -> m.text
    [] OTHER -> Nothing

\* A block of negative length only moves the address.
EmitMember(e, m) ==
  LET bytes == BytesOf(m)
  IN [at  |-> e.at + m.len,
      out |-> e.out \o [i \in 1 .. Len(bytes) |-> [at |-> e.at + i - 1, byte |-> bytes[i]]]]

\* emitmembs.
emitmembs(st, toks) ==
  LET Checked(c) == IF c.rest # <<>> /\ ~At(c, "nl") THEN Report(c, "too many arguments") ELSE c
  IN Checked(Walk(toks, st.membs, FALSE))

-----------------------------------------------------------------------------
(* The passes.                                                             *)

StructInit ==
  /\ structProg \in StructPrograms
  /\ structPass = 1 /\ structPc = 1 /\ line = 0
  /\ module = <<>> /\ cur = Nothing
  /\ structs = <<>> /\ structLabels = <<>>
  /\ structAdr = 0 /\ emitted = <<>>
  /\ errors = {} /\ warnings = {}

Doing(op) == structPc <= Len(structProg) /\ structProg[structPc].op = op

\* MODULE, and ENDMODULE when there is no name.
dirMODULE ==
  /\ Doing("module")
  /\ module' = structProg[structPc].name
  /\ structPc' = structPc + 1
  /\ UNCHANGED <<structProg, structPass, line, cur, structs, structLabels, structAdr, emitted, errors, warnings>>

\* dirSTRUCT up to its first line.  The lines of a structure that exists
\* already are read and ignored.
dirSTRUCT ==
  /\ Doing("struct") /\ line = 0
  /\ LET full  == IF structProg[structPc].global THEN <<structProg[structPc].name>> ELSE Append(module, structProg[structPc].name)
         start == IF structProg[structPc].offset = 0 THEN NewStructure
                  ELSE AddMember(NewStructure, "block", structProg[structPc].offset, Preserved, Nothing)
     IN IF full \in DOMAIN structs
          THEN /\ errors' = errors \cup {"structure already exists"}
               /\ UNCHANGED <<cur, structs>>
          ELSE /\ structs' = (full :> start) @@ structs
               /\ cur' = full
               /\ UNCHANGED errors
  /\ line' = 1
  /\ UNCHANGED <<structProg, structPass, structPc, module, structLabels, structAdr, emitted, warnings>>

StructLine ==
  /\ Doing("struct") /\ line \in 1 .. Len(structProg[structPc].lines)
  /\ IF cur = Nothing THEN UNCHANGED <<structs, errors, warnings>>
     ELSE \E r \in {ParseStructLine(structs[cur], structProg[structPc].lines[line])} :
             /\ structs' = [structs EXCEPT ![cur] = r.st]
             /\ errors' = errors \cup r.err
             /\ warnings' = warnings \cup r.warn
  /\ line' = line + 1
  /\ UNCHANGED <<structProg, structPass, structPc, module, cur, structLabels, structAdr, emitted>>

\* ENDS, or the end of the source: the labels are made in both cases.
EndStruct ==
  /\ Doing("struct") /\ line = Len(structProg[structPc].lines) + 1
  /\ LET t == IF cur = Nothing THEN Table ELSE deflab(cur, structs[cur])
     IN /\ structLabels' = t.labels
        /\ errors' = errors \cup t.err \cup (IF structProg[structPc].ends THEN {} ELSE {"unexpected end of structure"})
  /\ line' = 0 /\ cur' = Nothing
  /\ structPc' = IF structProg[structPc].ends THEN structPc + 1 ELSE Len(structProg) + 1
  /\ UNCHANGED <<structProg, structPass, module, structs, structAdr, emitted, warnings>>

\* CStructureTable::Emit: an instance at a designed address has labels only.
EmitInstance ==
  /\ Doing("inst")
  /\ LET i == structProg[structPc]
         n == zoek(i.st, i.gl)
         designed == i.adr # NoAddress
         at == IF designed THEN i.adr ELSE structAdr
     IN IF n = Nothing
          THEN /\ errors' = errors \cup {"unrecognized instruction"}
               /\ UNCHANGED <<structLabels, structAdr, emitted, warnings>>
          ELSE \E t \in {IF i.label = "" THEN Table ELSE emitlab(<<i.label>>, structs[n], at)},
                  c \in {IF designed THEN Cursor(<<>>) ELSE emitmembs(structs[n], i.args)} :
               \E e \in {FoldLeft(EmitMember, [at |-> structAdr, out |-> emitted], c.out)} :
                  /\ structLabels' = t.labels
                  /\ errors' = errors \cup t.err \cup c.err
                  /\ warnings' = warnings
                       \cup (IF i.label # "" /\ Misalignment(structs[n], at) # 0 THEN {"misaligned"} ELSE {})
                       \cup (IF i.label = "" /\ designed THEN {"no effect"} ELSE {})
                  /\ structAdr' = e.at /\ emitted' = e.out
  /\ structPc' = structPc + 1
  /\ UNCHANGED <<structProg, structPass, line, module, cur, structs>>

\* Structures are forgotten between passes, labels are not.
StructPassEnd ==
  /\ structPc > Len(structProg) /\ structPass < STRUCT_LASTPASS
  /\ structPass' = structPass + 1 /\ structPc' = 1
  /\ module' = <<>> /\ structs' = <<>> /\ structAdr' = 0 /\ emitted' = <<>>
  /\ UNCHANGED <<structProg, line, cur, structLabels, errors, warnings>>

StructDone == structPc > Len(structProg) /\ structPass = STRUCT_LASTPASS

StructFinished == StructDone /\ UNCHANGED structVars

StructNext == dirMODULE \/ dirSTRUCT \/ StructLine \/ EndStruct \/ EmitInstance \/ StructPassEnd \/ StructFinished

StructSpec == StructInit /\ [][StructNext]_structVars

-----------------------------------------------------------------------------

LengthBefore(membs, i) == FoldLeft(LAMBDA n, m : n + m.len, 0, SubSeq(membs, 1, i - 1))

\* The tables of a structure agree at every moment of its definition: each
\* member begins where the lengths before it end (AddMember is given offsets
\* by seven callers), the size is the sum of all, and every name points at
\* the begin of a member or at the end of what is defined, unless an error
\* kept members of a nested structure from being copied after its names.
StructInv ==
  \A n \in DOMAIN structs :
    LET st == structs[n]
        Starts == {LengthBefore(st.membs, i) : i \in 1 .. Len(st.membs) + 1}
    IN /\ \A i \in DOMAIN st.membs : st.membs[i].offset = LengthBefore(st.membs, i)
       /\ st.noffset = LengthBefore(st.membs, Len(st.membs) + 1)
       /\ errors = {} => \A k \in DOMAIN st.names : st.names[k].offset \in Starts
=============================================================================
