------------------------------- MODULE MCCode -------------------------------
(***************************************************************************)
(* What the lines of a source become: instructions, structures, labels and *)
(* the lists of labels, on small instances.  The four components share no  *)
(* state: a behaviour is about one of them.                                *)
(***************************************************************************)
EXTENDS Z80Encoder, Structures, Symbols, Exports, FiniteSets

-----------------------------------------------------------------------------
(***************************************************************************)
(* The encoder of Z80Encoder against the instruction sets of Z80Reference: *)
(* every mnemonic with every pair of operands, on every processor, and     *)
(* lines of several instructions in both multi-argument syntaxes.          *)
(***************************************************************************)
Ref == INSTANCE Z80Reference WITH Here <- Org

-----------------------------------------------------------------------------
(* Lines and options.                                                      *)

Mode(cpu, next, fakes, double) ==
  [cpu |-> cpu, next |-> next, fakes |-> fakes, double |-> double, mem |-> double, revpop |-> double]

MCModes == {Mode("z80", 0, TRUE, FALSE), Mode("z80", 2, TRUE, FALSE), Mode("z80", 1, FALSE, TRUE),
            Mode("i8080", 0, TRUE, FALSE), Mode("lr35902", 0, TRUE, FALSE)}
MCOrg == 32768

Operands == {"A", "B", "C", "E", "H", "L", "F", "I", "R", "IXH", "IYL", "BC", "DE", "HL", "SP", "AF",
             "IX", "IY", "mHL", "mIX", "mIY", "mBC", "mDE", "mSP", "mC", "n", "m", "NZ", "PO", "P",
             "mHLI", "mHLD", "D"}
OneLine == {<<>>} \cup {<<a>> : a \in Operands}
Two == {<<a, ",", b>> : a \in Operands, b \in Operands}

\* Three operands and more: multi-argument lines and results of (IX+d).
Few == {"A", "BC", "mIX", "n", "E"}
Sep == {<<",">>, <<",", ",">>}
More == {<<a>> \o s \o <<b>> \o t \o <<c>> : a \in Few, b \in Few, c \in Few, s \in Sep, t \in Sep}
Four == {<<a>> \o s \o <<b>> \o t \o <<c>> \o s \o <<a>> : a \in {"A", "n"}, b \in {"BC", "mIX"}, c \in Few, s \in Sep, t \in Sep}
Lists == {"sub", "and", "add", "push", "pop", "inc", "ld", "res", "bit", "rl", "srl", "rst", "call", "ldi", "nextreg", "out", "setbrk", "mul"}

AllMnemonics == SharedMnemonics \cup NotI8080Mnemonics \cup LR35902Mnemonics \cup Z80Mnemonics
                \cup NextMnemonics \cup {"ex", "in", "out"}
Relatives == {"jr", "djnz"}
Small == {"bit", "res", "set", "im", "rst", "out"}
Loads == {"ld", "ldh"}

Bare == DOMAIN Fixed \cup DOMAIN FixedNext \cup DOMAIN FixedCSpect
LineTexts(mns, d, v) == [mn : mns, ts : OneLine \cup Two, d : d, v : v]
MCSources ==
  LineTexts(Relatives, {5}, {Org + 2 - 129, Org + 2 - 128, Org + 2 + 127, Org + 2 + 128})
  \cup LineTexts(Small, {5}, {0, 2, 7, 8, 56})
  \cup LineTexts(Loads, {127, 255}, {65280, 4660})
  \cup LineTexts({"jp"}, {0, 5}, {4660})
  \cup LineTexts({"add"}, {251}, {127, 4660})
  \cup {[mn |-> "ld", ts |-> <<"HL", ",", "SP", "n">>, d |-> 5, v |-> v] : v \in {127, 128}}
  \cup LineTexts(AllMnemonics \ (Bare \cup Relatives \cup Small \cup Loads \cup {"add", "jp"}), {251}, {4660})
  \cup [mn : Bare, ts : OneLine, d : {5}, v : {4660}]
  \cup [mn : Lists, ts : More \cup Four, d : {5}, v : {1, 8}]

-----------------------------------------------------------------------------
(* The instruction a text means.                                           *)

Words(ts) == SelectSeq(ts, LAMBDA t : t # ",")
EightBit(r) == PlainToken(r) \in DOMAIN R8 \cup {"n"}

\* A bracketed number is a number where the instruction has no memory operand.
Number(mn, ops) ==
  LET strict == \/ mn \in {"out", "in", "ldh"}
                \/ mn = "ld" /\ Len(ops) = 2 /\ (ops[1] = "m" \/ ops[1] \in {"A", "IX", "IY"} \cup DOMAIN RP)
  IN IF strict THEN ops ELSE [k \in DOMAIN ops |-> IF ops[k] = "m" THEN "n" ELSE ops[k]]

\* Synonyms and optional operands: the text in the words of the opcode maps.
Canon(mn, of) ==
  LET o == Number(mn, Words(of))
      is(m, ops) == [mn |-> m, ops |-> ops]
  IN CASE mn \in {"add", "adc", "sbc", "mulub"} /\ Len(o) = 1 -> is(mn, <<"A">> \o o)
       [] mn \in {"sub", "and", "xor", "or", "cp"} /\ Len(o) = 2 /\ o[1] = "A" -> is(mn, Tail(o))
       [] mn = "muluw" /\ Len(o) = 1 -> is(mn, <<"HL">> \o o)
       [] (mn = "ex" /\ o = <<"AF">>) \/ mn = "exa" -> is("ex", <<"AF", "AF">>)
       [] (mn = "ex" /\ o = <<"HL", "DE">>) \/ mn = "exd" -> is("ex", <<"DE", "HL">>)
       [] mn = "ex" /\ Len(o) = 2 /\ o[2] = "mSP" -> is("ex", <<"mSP", o[1]>>)
       [] mn = "inf" \/ (mn = "in" /\ o = <<"mC">>) -> is("in", <<"F", "mC">>)
       [] mn = "in" /\ o = <<"A", "n">> -> is(mn, <<"A", "m">>)
       [] mn = "out" /\ o = <<"n", "A">> -> is(mn, <<"m", "A">>)
       [] mn = "out" /\ o = <<"mC", "m">> -> is(mn, <<"mC", "n">>)
       [] mn = "jp" /\ Len(o) = 1 /\ o[1] \in {"HL", "IX", "IY"} ->
            is(mn, <<[HL |-> "mHL", IX |-> "mIX", IY |-> "mIY"][o[1]]>>)
       [] mn = "sli" -> is("sll", o)
       [] mn \in {"mirror", "swapnib", "pixelad", "pixeldn"} -> is(mn, <<>>)
       [] mn = "mul" /\ o \in {<<>>, <<"DE">>} -> is(mn, <<"D", "E">>)
       [] mn = "stop" /\ o = <<>> -> is(mn, <<"n">>)
       [] mn = "ld" /\ o = <<"HL", "SP">> -> is(mn, <<"HL", "SP", "n">>)
       [] opt.cpu = "lr35902" /\ mn = "ld" /\ src.v \in 65280 .. 65535 /\ o \in {<<"A", "m">>, <<"m", "A">>} -> is("ldh", o)
       [] opt.cpu = "lr35902" /\ mn \in {"ldi", "ldd"} ->
            is("ld", [k \in DOMAIN o |-> IF o[k] = "mHL" THEN [ldi |-> "mHLI", ldd |-> "mHLD"][mn] ELSE o[k]])
       [] OTHER -> is(mn, o)

\* The instruction i is what the round wrote: operands, displacement and value.
\* Where the operand was left out its value is zero; at is how far from Org the
\* round was emitted, which a relative jump makes up for.
IsWritten(i, round, at) ==
  LET c == Canon(src.mn, round.of)
      implied == Words(round.of) \in {<<>>, <<"HL", "SP">>} 
  IN /\ i.mn = c.mn /\ i.ops = c.ops
     /\ (\E k \in DOMAIN round.of : round.of[k] \in Indexed) => i.d = src.d
     /\ i.w > 0 => i.v = IF implied THEN 0 ELSE (src.v % i.w) - (IF i.mn \in Relatives THEN at ELSE 0)

RoundsBefore(i) == FoldLeft(LAMBDA n, round : n + RoundSize(round), 0, SubSeq(code, 1, i - 1))

\* Two machines to run the fakes on: the pointers are far apart.
Machine(c, k) ==
  [r |-> [A |-> 17 + k, F |-> 1, B |-> 129 - k, C |-> 254, D |-> 65, E |-> 255 - k, H |-> 192 + k, L |-> 127,
          IXH |-> 33, IXL |-> 200, IYH |-> 90, IYL |-> 3, SPH |-> 250, SPL |-> 10], c |-> c, mem |-> <<>>]
Machines == {Machine(0, 0), Machine(1, 1)}

\* The round emitted a fake and the machine ends up where the text says.  A
\* pointer that is loaded and moved at once (ldi l,(hl)) has no such meaning.
KeepsPromise(round) ==
  LET o == Words(round.of)
      second == IF Len(o) = 2 THEN o[2] ELSE ""
  IN /\ ~NoFakes(opt)
     /\ \/ src.mn \in {"ldi", "ldd"} /\ second = "mHL" /\ o[1] \in {"H", "L"}
        \/ \A m \in Machines :
             Ref!SameMachine(Ref!Run(opt, m, round.e), Ref!Promise(m, Canon(src.mn, round.of).mn, o[1], second, src))

-----------------------------------------------------------------------------
(* Properties.                                                             *)

\* Known exceptions, each described in the README: ldi and ldd skip a register
\* that starts no fake, and "exd" is in the table of the LR35902.
Tolerated(round) ==
  \/ src.mn \in {"ldi", "ldd"} /\ Len(round.of) = 1
  \/ src.mn = "exd" /\ opt.cpu = "lr35902"

\* What the encoder accepts is what it emits: each round of an accepted line
\* decodes to the instruction written in the tokens that the round consumed,
\* with its displacement and value, or it is a fake whose instructions do to
\* the machine what the fake promises (z80.cpp, all OpCode_ functions).
EmitsWhatIsWritten ==
  ~busy /\ ~bad =>
    \A i \in DOMAIN code :
      \/ Tolerated(code[i])
      \/ Len(code[i].e) = 1 /\ IsWritten(Ref!Decode(opt, code[i].e[1]), code[i], RoundsBefore(i))
      \/ KeepsPromise(code[i])

\* The instructions of a processor as texts: each decodable byte sequence.
Valued == {"bit", "res", "set", "im", "rst", "jr", "djnz"}
Key(i) == <<i.mn, i.ops, IF i.mn \in Valued \/ i.ops = <<"mC", "n">> THEN i.v ELSE 0>>
ByteValues == 0 .. 255
Tails == {<<>>, <<5>>, <<5, 0>>, <<127>>, <<128>>}
Codes(o) ==
  {<<a>> \o t : a \in ByteValues, t \in Tails}
  \cup (IF o.cpu = "i8080" THEN {} ELSE {<<203, a>> : a \in ByteValues})
  \cup (IF o.cpu # "z80" THEN {} ELSE
          {<<p, a>> \o t : p \in {221, 253, 237}, a \in ByteValues, t \in {<<>>, <<5>>, <<5, 5>>, <<5, 5, 5, 5, 5>>}}
          \cup {<<p, 203, 5, a>> : p \in {221, 253}, a \in ByteValues})
InstructionSet == [o \in MCModes |-> {Key(Ref!Decode(o, b)) : b \in Codes(o)} \ {Key(Ref!Undefined)}]

\* Every instruction the processor has can be written: a line that spells one
\* instruction of the opcode maps is assembled without an error.
EveryInstructionAssembles ==
  LET o == Words(src.ts)
      key == <<src.mn, o, IF src.mn \in Valued \/ o = <<"mC", "n">> THEN src.v ELSE 0>>
      text == [k \in 1 .. 2 * Len(o) - 1 |-> IF k % 2 = 1 THEN o[(k + 1) \div 2] ELSE ","]
      fits == (src.mn = "jp" => src.d = 0) /\ (o = <<"SP", "n">> => src.v <= 127)
  IN ~busy /\ src.ts = text /\ fits /\ key \in InstructionSet[opt] => ~bad

-----------------------------------------------------------------------------
(***************************************************************************)
(* Instances of Structures, and what structures mean: fields in a tree,    *)
(* and initialisers that are trees too.  Items and lines carry the tree    *)
(* (init) their text (args) is printed from; Structures sees the text only. *)
(***************************************************************************)
-----------------------------------------------------------------------------
(* The text of an initialiser.  An element gives a value "v", the bytes of *)
(* a text "t", a group in braces "g", a group without them "u", or nothing. *)

N(n) == [t |-> "n", v |-> n]
Tok(t) == [t |-> t, v |-> 0]
Comma == <<Tok(",")>>
Newline == <<Tok("nl")>>

Join(parts, sep) ==
  FoldLeft(LAMBDA s, i : IF i = 1 THEN parts[1] ELSE s \o sep \o parts[i], <<>>, [i \in DOMAIN parts |-> i])

RECURSIVE Text(_, _)
Text(elems, sep) ==
  LET One(e) == CASE e.k = "v" -> <<N(e.v[1])>>
                  [] e.k = "t" -> <<Tok("{")>> \o Join([i \in DOMAIN e.v |-> <<N(e.v[i])>>], Comma) \o <<Tok("}")>>
                  [] e.k = "g" -> <<Tok("{")>> \o Text(e.v, sep) \o <<Tok("}")>>
                  [] e.k = "u" -> Text(e.v, sep)
                  [] e.k = "no" -> <<>>
  IN Join([i \in DOMAIN elems |-> One(elems[i])], sep)

\* The braces of a text or of a group that begins an initialiser are taken for
\* the ones of the whole structure, if those are left out.
StartsWithBrace(elems) == elems # <<>> /\ elems[1].k \in {"t", "g"}

\* Layouts of the text of an instance.
Written(elems, layout) ==
  CASE layout = "plain" /\ ~StartsWithBrace(elems) -> Text(elems, Comma)
    [] layout = "braces" \/ (layout = "plain" /\ StartsWithBrace(elems)) -> <<Tok("{")>> \o Text(elems, Comma) \o <<Tok("}")>>
    [] layout = "lines"  -> <<Tok("{")>> \o Newline \o Text(elems, Comma \o Newline) \o Newline \o <<Tok("}")>>
    [] layout = "column" -> <<Tok("{")>> \o Newline \o Text(elems, Newline) \o Newline \o <<Tok("}")>>

-----------------------------------------------------------------------------
(* The reference: fields [label, kind, bytes, sub].                        *)

LittleEndian(n, w) == [i \in 1 .. w |-> (n \div 256 ^ (i - 1)) % 256]
Fill(n, b) == [i \in 1 .. n |-> b]

RECURSIVE Flat(_)
Flat(fields) ==
  FoldLeft(LAMBDA s, f : s \o (IF f.kind = "n" THEN Flat(f.sub) ELSE f.bytes), <<>>, fields)
Size(fields) == Len(Flat(fields))

\* The elements of an initialiser go to the fields that take one, in order.
RECURSIVE Apply(_, _)
Apply(fields, elems) ==
  LET Takes(f) == f.kind # "b"
      Given(f, e) ==
        CASE e.k = "v" -> [f EXCEPT !.bytes = LittleEndian(e.v[1], Len(f.bytes))]
          [] e.k = "t" -> [f EXCEPT !.bytes = [i \in DOMAIN f.bytes |-> IF i <= Len(e.v) THEN e.v[i] ELSE @[i]]]
          [] e.k \in {"g", "u"} -> [f EXCEPT !.sub = Apply(f.sub, e.v)]
          [] e.k = "no" -> f
      Step(s, f) == IF ~Takes(f) \/ s.used = Len(elems) THEN [s EXCEPT !.out = Append(@, f)]
                    ELSE [out |-> Append(s.out, Given(f, elems[s.used + 1])), used |-> s.used + 1]
  IN FoldLeft(Step, [out |-> <<>>, used |-> 0], fields).out

ModuleAt(i) == FoldLeft(LAMBDA m, it : IF it.op = "module" THEN it.name ELSE m, <<>>, SubSeq(structProg, 1, i - 1))
FullName(i) == IF structProg[i].global THEN <<structProg[i].name>> ELSE Append(ModuleAt(i), structProg[i].name)

\* The definition that a name means at item i.
Means(i, name, gl) ==
  LET Of(full) == {d \in 1 .. i - 1 : structProg[d].op = "struct" /\ FullName(d) = full}
      near == IF gl THEN {} ELSE Of(Append(ModuleAt(i), name))
  IN CHOOSE d \in (IF near # {} THEN near ELSE Of(<<name>>)) : TRUE

RECURSIVE Fields(_)
Fields(d) ==
  LET Arg(l, k, default) == IF Len(l.args) >= k THEN l.args[k].v ELSE default
      Add(fs, l) ==
        LET gap == (-Size(fs)) % Arg(l, 1, 4)
            F(kind, bytes, sub) == <<[label |-> l.label, kind |-> kind, bytes |-> bytes, sub |-> sub]>>
        IN fs \o (CASE l.op \in Scalars -> F("s", LittleEndian(Arg(l, 1, 0), WidthOf[l.op]), <<>>)
                    [] l.op = "block" -> F("b", Fill(Arg(l, 1, 0), Arg(l, 3, Preserved)), <<>>)
                    [] l.op = "align" -> F("b", Fill(gap, Arg(l, 3, Preserved)), <<>>)
                    [] l.op = "text" ->
                         LET len == Arg(l, 1, 0)
                             final == IF l.bytes = <<>> THEN 0 ELSE Last(l.bytes)
                         IN F("t", [i \in 1 .. len |-> IF i <= Len(l.bytes) THEN l.bytes[i] ELSE final], <<>>)
                    [] l.op = "nest" -> F("n", <<>>, Apply(Fields(Means(d, l.st, l.gl)), l.init))
                    [] l.op = "none" -> F("b", <<>>, <<>>))
      start == <<[label |-> "", kind |-> "b", bytes |-> Fill(structProg[d].offset, Preserved), sub |-> <<>>]>>
  IN FoldLeft(Add, start, structProg[d].lines)

RECURSIVE Offsets(_)
Offsets(fields) ==
  UNION {LET at == Size(SubSeq(fields, 1, i - 1))
             f  == fields[i]
         IN IF f.label = "" THEN {}
            ELSE {[naam |-> <<f.label>>, offset |-> at]} \cup
                 {[naam |-> <<f.label>> \o o.naam, offset |-> at + o.offset] : o \in Offsets(f.sub)}
         : i \in DOMAIN fields}

Instances == {i \in DOMAIN structProg : structProg[i].op = "inst"}
StructDefined   == {i \in DOMAIN structProg : structProg[i].op = "struct"}
FieldsOf(i) == Fields(Means(i, structProg[i].st, structProg[i].gl))

\* What an assembled program has emitted, and where each instance begins.
Meant(i) == IF structProg[i].adr # NoAddress THEN <<>> ELSE Flat(Apply(FieldsOf(i), structProg[i].init))
MeantBefore(i) ==
  FoldLeft(LAMBDA s, k : s \o (IF k \in Instances THEN Meant(k) ELSE <<>>), <<>>, [k \in 1 .. i - 1 |-> k])

-----------------------------------------------------------------------------
(* Programs.                                                               *)

Line(label, op, args) == [label |-> label, op |-> op, args |-> args, init |-> <<>>, bytes |-> <<>>,
                           st |-> "", gl |-> FALSE]
TextLine(label, len, bytes) ==
  [Line(label, "text", <<N(len)>> \o Comma \o Text(<<[k |-> "t", v |-> bytes]>>, Comma)) EXCEPT !.bytes = bytes]
Nest(label, st, elems) == [Line(label, "nest", Written(elems, "plain")) EXCEPT !.st = st, !.init = elems]

StructText(name, lines) ==
  [op |-> "struct", name |-> name, global |-> FALSE, offset |-> 0, lines |-> lines, ends |-> TRUE,
   good |-> TRUE]
NotMeant(struct) == [struct EXCEPT !.good = FALSE]
Inst(label, st, elems, layout) ==
  [op |-> "inst", label |-> label, st |-> st, gl |-> FALSE, adr |-> NoAddress,
   args |-> Written(elems, layout), init |-> elems]
StructModule(name) == [op |-> "module", name |-> name]

V(n) == [k |-> "v", v |-> <<n>>]
T(bytes) == [k |-> "t", v |-> bytes]
G(elems) == [k |-> "g", v |-> elems]
U(elems) == [k |-> "u", v |-> elems]
No == [k |-> "no", v |-> <<>>]

\* Leaves: a first field that is a byte, a text or three bytes; a second one.
LeafLines == {
  <<Line("x", "byte", <<N(1)>>), Line("y", "word", <<N(515)>>)>>,
  <<TextLine("x", 3, <<7, 8>>), Line("y", "byte", <<>>)>>,
  <<Line("x", "d24", <<N(66051)>>), Line("", "block", <<N(2), Tok(","), N(9)>>), Line("y", "dword", <<N(-2)>>)>>}
Firsts(lines)  == IF lines[1].op = "text" THEN {No, T(<<>>), T(<<4>>), T(<<4, 5, 6>>)} ELSE {No, V(300)}
LeafInits(lines) == {<<>>} \cup {<<e>> : e \in Firsts(lines)}
                    \cup {<<e, f>> : e \in Firsts(lines), f \in {No, V(20)}}
Full(lines) == {s \in LeafInits(lines) : Len(s) = 2}

\* Middles nest a leaf: labelled or not, before or after another field.
MiddleLines(init) == {
  <<Nest("a", "A", init), Line("", "align", <<N(4), Tok(","), N(3)>>), Line("b", "byte", <<N(5)>>)>>,
  <<Line("b", "byte", <<N(5)>>), Line("end", "none", <<>>), Nest("", "A", init)>>,
  <<Line("", "align", <<N(2)>>), Line("b", "byte", <<N(5)>>), Line("", "align", <<N(2)>>), Nest("a", "A", init)>>}
NestFirst(lines) == lines[1].op = "nest"
Plain(leaf) == leaf[1].op # "text"
MiddleInits(leaf, lines) ==
  LET groups == {G(e) : e \in LeafInits(leaf)} \cup {U(e) : e \in IF Plain(leaf) THEN Full(leaf) ELSE {}}
  IN {<<>>} \cup (IF NestFirst(lines) THEN {<<g, f>> : g \in groups, f \in {No, V(30)}}
                  ELSE {<<f, g>> : g \in groups, f \in {No, V(30)}})

OfLeaf ==
  UNION {{<<StructText("A", l), Inst("i", "A", e, w)>> : e \in LeafInits(l), w \in {"plain", "braces", "lines"}}
         \cup {<<StructText("A", l), Inst("i", "A", e, "column")>> : e \in {s \in LeafInits(l) : No \notin Range(s)}}
         : l \in LeafLines}
OfMiddle ==
  UNION {UNION {{<<StructText("A", l), StructText("B", m), Inst("i", "B", e, w)>>
                 : e \in MiddleInits(l, m), w \in {"plain", "lines"}}
                : m \in UNION {MiddleLines(i) : i \in {<<>>} \cup Full(l)}} : l \in LeafLines}
\* Three levels, two instances, the second at an odd address.  The group for
\* the middle structure is given as Groups says.
OuterInits(l, m) == {k \in MiddleInits(l, m) : \A n \in DOMAIN k : k[n].k # "u" \/ n = Len(k)}
OuterWith(Groups(_)) ==
  UNION {UNION {UNION {{<<StructText("A", l), StructText("B", m), StructText("C", <<Nest("b", "B", i), Line("c", "byte", <<N(6)>>)>>),
                          Inst("i", "C", e, w), Inst("j", "C", <<>>, "plain")>>
                        : e \in Groups(i), w \in {"plain", "lines"}}
                       : i \in OuterInits(l, m)}
                : m \in MiddleLines(<<>>)} : l \in LeafLines}
OfOuter == OuterWith(LAMBDA i : {<<G(<<>>), No>>, <<G(i), No>>, <<>>} \cup (IF i = <<>> THEN {} ELSE {<<G(i), V(40)>>}))
\* Structures of the same name in a module and outside, at a designed address,
\* with an initial offset.
Leaf == CHOOSE l \in LeafLines : l[1].op = "byte"
OfModules ==
  {<<[StructText("A", Leaf) EXCEPT !.offset = o], StructModule(<<"m">>),
     [StructText("A", <<Line("z", "word", <<>>)>>) EXCEPT !.name = n], Nested,
     [Inst("i", "A", <<V(1)>>, "plain") EXCEPT !.gl = g], StructModule(<<>>),
     IF d THEN [Inst("k", "A", <<>>, "plain") EXCEPT !.adr = 7] ELSE Inst("k", "A", <<V(2)>>, "braces")>>
   : o \in {0, 2}, n \in {"A", "E"}, g \in BOOLEAN, d \in BOOLEAN,
     Nested \in {StructText("D", <<Nest("a", "A", <<>>)>>), [StructText("D", <<[Nest("a", "A", <<>>) EXCEPT !.gl = TRUE]>>) EXCEPT !.global = TRUE]}}

WellFormed == OfLeaf \cup OfMiddle \cup OfOuter \cup OfModules

\* Arbitrary text, and definitions that are refused.
Marks == {N(1), Tok(","), Tok("{"), Tok("}"), Tok("nl")}
Texts(max) == UNION {[1 .. n -> Marks] : n \in 0 .. max}
Scrambled ==
  UNION {{<<NotMeant(StructText("A", l)), StructText("B", <<Nest("a", "A", <<>>), Line("b", "byte", <<>>)>>),
            [Inst("i", "B", <<>>, "plain") EXCEPT !.args = t]>> : t \in Texts(4)}
         \cup {<<NotMeant(StructText("A", l)), StructText("B", <<[Nest("a", "A", <<>>) EXCEPT !.args = t], Line("b", "byte", <<>>)>>),
                 Inst("i", "B", <<>>, "plain")>> : t \in Texts(3)}
         : l \in {k \in LeafLines : k[1].op # "d24"}}
BadLines == {
  Line("1", "byte", <<>>), Line("x", "text", <<N(0)>>), Line("x", "text", <<N(99)>>), Line("x", "text", <<N(2), N(3)>>),
  Line("x", "align", <<N(3)>>), Line("x", "align", <<N(4), Tok(","), N(256)>>), Line("x", "block", <<>>),
  Line("x", "block", <<N(-1)>>), Line("x", "byte", <<N(1), N(2)>>), Nest("x", "B", <<>>), Nest("x", "none", <<>>),
  Line("b", "byte", <<>>)}
Refused ==
  {<<NotMeant(StructText("A", Leaf)), [StructText(n, <<Line("b", "byte", <<>>), l>>) EXCEPT !.ends = e], Inst(i, n, <<>>, "plain")>>
   : n \in {"A", "B"}, l \in BadLines, e \in BOOLEAN, i \in {"i", ""}}
  \cup {<<NotMeant(StructText("A", Leaf)), Inst("i", "none", <<>>, "plain"), [Inst("", "A", <<>>, "plain") EXCEPT !.adr = 3]>>}

\* A global structure inside of a module that has one of that name.
Namesakes ==
  {<<NotMeant(StructText("B", Leaf)), StructModule(<<"m">>), StructText("A", <<Line("z", "word", <<>>)>>),
     [StructText("A", l) EXCEPT !.global = TRUE], Inst("i", "A", <<>>, "plain")>> : l \in LeafLines}

MCStructPrograms == WellFormed \cup Scrambled \cup Refused \cup Namesakes

-----------------------------------------------------------------------------

\* Each field of an instance has the value its initialiser gives it, or its
\* default: the one of the innermost definition that gives one.  (CopyMembers
\* and emitmembs walk flat tables of members along the text and must agree
\* with the nesting of both.)
InitialisersBind ==
  StructDone /\ structProg[1].good =>
    /\ errors = {}
    /\ [i \in DOMAIN emitted |-> emitted[i].byte] = MeantBefore(Len(structProg) + 1)

\* Labels made for a field point at the bytes of that field, in the definition
\* relative to its begin, in every instance at any depth, and the name of the
\* structure is the number of its bytes.
LabelsMeetFields ==
  StructDone /\ structProg[1].good =>
    /\ \A d \in StructDefined :
         /\ structLabels[FullName(d)].value = Size(Fields(d))
         /\ \A o \in Offsets(Fields(d)) : structLabels[FullName(d) \o o.naam].value = o.offset
    /\ \A i \in Instances :
         LET main == Append(ModuleAt(i), structProg[i].label)
             at   == IF structProg[i].adr # NoAddress THEN structProg[i].adr ELSE Len(MeantBefore(i))
         IN /\ structLabels[main].value = at
            /\ \A o \in Offsets(FieldsOf(i)) : structLabels[main \o o.naam].value = at + o.offset

\* Whatever the text of the initialisers is: an instance without an error
\* occupies the size of its structure, so that what follows it is where the
\* passes and the labels say.
AcceptedHasSize ==
  StructDone /\ errors = {} /\ ~structProg[1].good =>
    structAdr = FoldLeft(LAMBDA n, i : n + structLabels[<<structProg[i].st>>].value, 0,
                   SelectSeq([i \in DOMAIN structProg |-> i], LAMBDA i : structProg[i].op = "inst" /\ structProg[i].adr = NoAddress))

-----------------------------------------------------------------------------
(***************************************************************************)
(* Instances of Symbols, and what names and sizes mean: a definition that  *)
(* looks at the text of a program, not at tables and passes.               *)
(***************************************************************************)

\* What surrounds a position: open modules, the last main label, the enclosing
\* macro instances (by the position that opens them, innermost first), the
\* depth of nesting and the addresses.
Outermost == [k |-> 1, mods |-> <<>>, main |-> <<"_">>, inst |-> <<>>, open |-> <<>>,
              depth |-> 0, adr |-> 0, phys |-> 0, displaced |-> FALSE]

MainPath(s, w) == IF w.mod = "@" THEN <<w.id>> ELSE Append(s.mods, w.id)
SetsMain(it)   == it.op \in {"addr", "smc", "equ", "defl", "struct"} /\ ~IsLocal(it.w) /\ ~it.w.bang

After(s, it) ==
  LET t == [s EXCEPT !.k = @ + 1]
      u == IF SetsMain(it) THEN [t EXCEPT !.main = MainPath(s, it.w)] ELSE t
  IN CASE it.op \in {"bytes", "struct"} -> [u EXCEPT !.adr = @ + it.n, !.phys = @ + it.n]
       [] it.op = "org" -> [t EXCEPT !.adr = it.n, !.phys = IF s.displaced THEN @ ELSE it.n]
       [] it.op = "disp" -> [t EXCEPT !.adr = it.n, !.displaced = TRUE]
       [] it.op = "ent" -> [t EXCEPT !.adr = s.phys, !.displaced = FALSE]
       [] it.op = "module" -> [t EXCEPT !.depth = @ + 2, !.mods = Append(@, it.w.id),
                                        !.main = Append(s.mods, it.w.id) \o <<"_">>]
       [] it.op = "endmodule" /\ s.mods # <<>> ->
            [t EXCEPT !.depth = @ - 2, !.mods = Front(@), !.main = Append(Front(s.mods), "_")]
       [] it.op = "macro"   -> [t EXCEPT !.depth = @ + 2, !.inst = <<s.k>> \o @, !.open = Append(@, "macro")]
       [] it.op = "include" -> [t EXCEPT !.depth = @ + 2, !.open = Append(@, "include")]
       [] it.op = "close" -> [t EXCEPT !.depth = @ - 2, !.open = Front(@),
                                !.inst = IF Last(s.open) = "macro" THEN Tail(@) ELSE @]
       [] OTHER -> u

Around(i) == FoldLeft(After, Outermost, SubSeq(prog, 1, i - 1))

Definitions == {i \in DOMAIN prog : prog[i].op \in {"addr", "smc", "equ", "defl", "struct"}}

\* A macro-local label belongs to the instance it is written in.
InInstance(d, inst) == prog[d].w.mod = "." /\ Around(d).inst = inst
UnderMain(d, main)  == /\ IsLocal(prog[d].w) /\ (prog[d].w.mod = "." => Around(d).inst = <<>>)
                       /\ Around(d).main = main
HasPath(d, path)    == ~IsLocal(prog[d].w) /\ MainPath(Around(d), prog[d].w) = path

Named(i, P(_)) == {d \in Definitions : prog[d].w.id = prog[i].w.id /\ P(d)}

\* The definitions that the name written at i means: the innermost scope that
\* has one.
Meaning(i) ==
  LET s == Around(i)
      w == prog[i].w
      scopes ==
        CASE w.mod = "." ->
               [k \in 1 .. Len(s.inst) |->
                  Named(i, LAMBDA d : InInstance(d, SubSeq(s.inst, k, Len(s.inst))))]
               \o <<Named(i, LAMBDA d : UnderMain(d, s.main))>>
          [] w.mod = "" -> <<Named(i, LAMBDA d : HasPath(d, Append(s.mods, w.id))),
                             Named(i, LAMBDA d : HasPath(d, <<w.id>>))>>
          [] OTHER      -> <<Named(i, LAMBDA d : HasPath(d, <<w.id>>))>>
      some == {k \in DOMAIN scopes : scopes[k] # {}}
  IN IF some = {} THEN {} ELSE scopes[CHOOSE k \in some : \A j \in some : k <= j]

\* Where the size of the label at d ends.
Depth(i) == Around(i).depth
            + (IF prog[i].op = "localtag" \/ (i \in Definitions /\ IsLocal(prog[i].w)) THEN 1 ELSE 0)
Stops(d, j) ==
  \/ prog[j].op = "module" \/ (prog[j].op = "org" /\ ~Around(j).displaced)
  \/ /\ \/ prog[j].op \in {"tag", "localtag", "close"}
        \/ prog[j].op = "endmodule" /\ Around(j).mods # <<>>
        \/ j \in Definitions /\ prog[j].op # "struct"
     /\ Depth(j) <= Depth(d)
EndOf(d) == CHOOSE j \in d + 1 .. Len(prog) + 1 :
              /\ j <= Len(prog) => Stops(d, j)
              /\ \A i \in d + 1 .. j - 1 : ~Stops(d, i)

SizeOf(d) ==
  CASE prog[d].op = "addr" -> Around(EndOf(d)).phys - Around(d).phys
    [] prog[d].op = "struct" -> prog[d].n
    [] OTHER -> 0

ValueAt(d) == CASE prog[d].op \in {"equ", "defl"} -> prog[d].n
                [] OTHER -> Around(d).adr + (IF prog[d].op = "smc" THEN prog[d].n ELSE 0)

-----------------------------------------------------------------------------
(* Properties.                                                             *)

\* All items are live in all passes and no label was refused.
RegularProgram == /\ \A i \in DOMAIN prog : prog[i].in = 1 .. LASTPASS
           /\ msgs \cap {"duplicate label", "invalid label", "internal error"} = {}

\* What SearchLabel finds in the table, which earlier passes filled and which
\* holds placeholders of labels nobody defined, is what the name means in the
\* text: macro instances inside out, the main label, the module, the rest.
NamesAreLexical ==
  PassesEnded /\ RegularProgram =>
    \A r \in reads : prog[r.at].op = "ref" =>
      IF Meaning(r.at) = {} THEN ~r.found
      ELSE r.found /\ r.val = ValueAt(CHOOSE d \in Meaning(r.at) : TRUE)

\* A local label under a global one, inside of a module
UnderGlobal(d) == IsLocal(prog[d].w) /\ ~IsPrefix(Around(d).mods, Around(d).main)

\* The debugging data name a label by its parts, which ExportLabelToSld takes from
\* the line and the scope once more: joined, they are its name in the table.  Not
\* so for locals of a global label inside of a module, which get its name in front.
SldPartsJoin ==
  PassesEnded => \A l \in sld : ~UnderGlobal(l.at) =>
    l.name = [mac |-> l.parts.mac, path |-> l.parts.module \o l.parts.main \o l.parts.local]

\* A structure instance whose name emitlab finds again.
PlainInstance(d) == prog[d].w.mod = "" /\ ~prog[d].w.bang /\ Around(d).mods = <<>>

\* Whatever is nested, opened and closed between, SIZEOF in the last pass is
\* the distance to the first boundary of the same or an outer level; and no
\* label is still measured where a pass ends.
SizeofIsDistance ==
  /\ SizeofInv
  /\ PassesEnded /\ RegularProgram =>
    \A r \in reads : prog[r.at].op = "sizeof" /\ Meaning(r.at) # {} =>
      LET d == CHOOSE d \in Meaning(r.at) : TRUE
      IN (prog[d].op = "struct" => PlainInstance(d)) => r.val = SizeOf(d)

-----------------------------------------------------------------------------
(* Programs.                                                               *)

W(mod, id) == [bang |-> FALSE, mod |-> mod, id |-> id]
NoName == W("", "")
All == 1 .. LASTPASS
Lab(mod, id)   == [op |-> "addr", w |-> W(mod, id), n |-> 0, in |-> All]
Quiet(id)      == [op |-> "addr", w |-> [bang |-> TRUE, mod |-> "", id |-> id], n |-> 0, in |-> All]
Kind(op, id, n) == [op |-> op, w |-> W("", id), n |-> n, in |-> All]
Refers(mod, id)   == [op |-> "ref", w |-> W(mod, id), n |-> 0, in |-> All]
Siz(mod, id)   == [op |-> "sizeof", w |-> W(mod, id), n |-> 0, in |-> All]
It(op, n)      == [op |-> op, w |-> NoName, n |-> n, in |-> All]
Only(it, ps)   == [it EXCEPT !.in = ps]
OneByte == It("bytes", 1)
Mod(id) == [op |-> "module", w |-> W("", id), n |-> 0, in |-> All]

\* A macro in a macro, between labels, in a module or not: who owns ".x" and
\* what "a" means, before and after the definitions.
Single(it) == {it}
Scopes ==
  {Mod("m"), Refers("", "a")} \X {Lab("", "a"), Lab("@", "a")} \X Single(It("macro", 0))
  \X {Lab(".", "x"), Lab("@.", "x"), Quiet("b")} \X {Siz(".", "x"), Siz("", "a")}
  \X Single(It("macro", 0)) \X {Refers(".", "x"), Lab(".", "x"), Siz(".", "x"), Mod("n")}
  \X Single(OneByte) \X Single(It("close", 0)) \X {OneByte, Refers(".", "x")} \X Single(It("close", 0))
  \X {Siz("", "a"), Refers(".", "x")} \X {It("endmodule", 0), It("tag", 0)}
  \X {Lab("", "a"), Lab(".", "x"), Refers("@", "a")}

\* What ends the size of "a" and of "a.x", around and inside of a macro.
Sizes ==
  Single(Lab("", "a")) \X {Lab(".", "x"), OneByte, It("disp", 64)}
  \X {Lab(".", "y"), Kind("struct", "s", 3), It("localtag", 0), Kind("equ", "c", 7)}
  \X {It("macro", 0), It("include", 0)}
  \X {Lab("", "b"), OneByte, Mod("m"), It("endmodule", 0)} \X Single(OneByte) \X Single(It("close", 0))
  \X {Lab("", "d"), It("tag", 0), It("localtag", 0), It("org", 16), It("endmodule", 0), Kind("smc", "v", 1)}
  \X Single(OneByte) \X Single(Siz("@", "a")) \X {Siz("", "s"), Siz(".", "x"), Siz("", "c"), It("ent", 0)}
\* DISP is left only where it was entered.
Balanced(p) == (\E i \in DOMAIN p : p[i].op = "ent") <=> (\E i \in DOMAIN p : p[i].op = "disp")

\* Temporary labels that are not in every pass.
TempItems == {It("temp", 2), It("back", 1), It("forward", 1), It("forward", 2), OneByte, Only(OneByte, {3}),
              Only(Kind("equ", "e", 6), {2, 3})}
             \cup {Only(It("temp", 1), ps) : ps \in {All, {1, 2}, {2, 3}}}
Temporary == TempItems \X TempItems \X TempItems \X TempItems

\* Labels that two lines define, and labels the last pass has not seen before.
Late == Single(It("macro", 0))
        \X {Kind("struct", "s", 3), [Kind("struct", "s", 3) EXCEPT !.w.mod = "@."], Lab("@.", "s")}
        \X Single(It("close", 0))
        \X {Only(Lab("", "s"), {3}), Lab("", "s"), Only(Kind("defl", "s", 1), {3}), Kind("defl", "s", 1)}
        \X {Siz("", "s"), Kind("defl", "s", 2), Only(OneByte, {3}), Kind("struct", "s", 3)}

MCSymbolPrograms == Scopes \cup {p \in Sizes : Balanced(p)} \cup Temporary \cup Late

-----------------------------------------------------------------------------
(***************************************************************************)
(* Instances of Exports, and what the written files have to tell a reader      *)
(* that knows the text of the source only.                                   *)
(***************************************************************************)
-----------------------------------------------------------------------------
(* The reference.                                                          *)

ItemsOf(op) == {i \in DOMAIN xsrc : xsrc[i].op = op}
Before(i, op) == {j \in ItemsOf(op) : j < i}
LastOf(I) == CHOOSE i \in I : \A j \in I : j <= i

\* One directive selects the device for the whole source, else the last one does.
DeviceAt(i) ==
  IF Cardinality(ItemsOf("device")) = 1 THEN xsrc[LastOf(ItemsOf("device"))].x
  ELSE IF Before(i, "device") = {} THEN NoMemory ELSE xsrc[LastOf(Before(i, "device"))].x

\* The page mapped at an address
MappedAt(i, a) ==
  LET d == DeviceAt(i)
      n == Len(Memories[d].slots)
      pages == {j \in Before(i, "page") : DeviceAt(j) = d}
  IN  IF SlotOf(d, a) = n /\ pages # {} THEN xsrc[LastOf(pages)].n ELSE Memories[d].slots[SlotOf(d, a)]

RegularSource == /\ \A i \in DOMAIN xsrc : xsrc[i].in = 1 .. FinalPass
           /\ xs.errors \cap {"duplicate label", "label not found"} = {}
Assembly == xs.ended = "yes" /\ RegularSource
Addressed == {i \in ItemsOf("label") : xsrc[i].x = "addr" /\ xsrc[i].n < 65536 /\ DeviceAt(i) # NoMemory}
OneDevice == \A i, j \in ItemsOf("label") : DeviceAt(i) = DeviceAt(j) /\ xs.device = DeviceAt(i)
Values(name) == {xsrc[i].n : i \in {j \in ItemsOf("label") : xsrc[j].name = name}}

\* Unreal has 128K: 16K banks 5, 2 and 0 are at 4000h, 8000h and C000h, the ROM below.
BankAddress == (PAGE_UNDEFINED :> 0) @@ (5 :> 16384) @@ (2 :> 32768) @@ (0 :> 49152)

UnrealReadsBack ==
  xs.unreal # NoFile /\ OneDevice =>
    \A i \in Addressed : \E l \in DumpForUnreal(xs) :
      /\ l.name = xsrc[i].name
      /\ CASE xs.unreal = "virtual" -> l.page = PAGE_UNDEFINED /\ l.adr = xsrc[i].n
           [] DeviceAt(i) = "ZXSPECTRUM48" -> BankAddress[l.page] + l.adr = xsrc[i].n
           [] OTHER -> l.page = MappedAt(i, xsrc[i].n) /\ l.adr = xsrc[i].n % Memories[DeviceAt(i)].size

\* The label at i is local to another one
HasOwner(i) == \E j \in ItemsOf("label") : xsrc[j].name = Front(xsrc[i].name)

CSpectReadsBack ==
  xs.cspect # 0 =>
    \A i \in Addressed : Memories[DeviceAt(i)].size = xs.cspect =>
      \E l \in DumpForCSpect(xs) :
        /\ l.primary \o l.local = xsrc[i].name
        /\ l.long \div xs.cspect = MappedAt(i, xsrc[i].n)
        /\ l.long % xs.cspect = xsrc[i].n % xs.cspect
        /\ HasOwner(i) => l.primary = Front(xsrc[i].name)

\* Each list of labels leads from a name back to the byte (or the value) of its
\* definition: page and offset are those of the mapping at the label, also when
\* the device was selected further down, and a local label names its main one.
ListsReadBack ==
  Assembly => /\ UnrealReadsBack
              /\ CSpectReadsBack
              /\ \A l \in DumpSymbols(xs) \cup {[name |-> d.name, value |-> d.value] : d \in Dump(xs)} :
                   l.value \in Values(l.name)

\* What the source lists in this order and the file has in the same order
Unconditional(i) == xsrc[i].n >= 0
InOrder(I) == SetToSortSeq(I, <)
Points == IF xs.bp \in Conditional THEN ItemsOf("setbp") ELSE {i \in ItemsOf("setbp") : Unconditional(i)}
Adr(n) == IF n < 0 THEN -n ELSE n

\* The files that one directive opens and others fill, over three passes, have all of
\* it: breakpoints in front of BPLIST, EXPORTs in front of the label, comments in front
\* of the SLDOPT that names their keyword.  What is left out was told.
OpenedInTime ==
  Assembly =>
    /\ \/ xs.bp = NoFile
       \/ "maximum amount of breakpoints" \in xs.errors
       \/ [k \in DOMAIN xs.points |-> xs.points[k].adr] = [k \in 1 .. Cardinality(Points) |-> Adr(xsrc[InOrder(Points)[k]].n)]
    /\ \A j, k \in DOMAIN xs.points : j < k => xs.points[j].n < xs.points[k].n
    /\ Len(xs.exported) = Cardinality(ItemsOf("export"))
    /\ \A k \in DOMAIN xs.exported : xs.exported[k][2] \in Values(xs.exported[k][1])
    /\ LET wanted == {i \in ItemsOf("comment") : DeviceAt(i) # NoMemory /\ \E j \in ItemsOf("keyword") : xsrc[j].x = xsrc[i].x}
       IN  /\ {c.at : c \in Range(xs.comments)} = wanted
           /\ \A c \in Range(xs.comments) : /\ c.page = MappedAt(c.at, c.adr)
                                            /\ Contains(xs.header, xsrc[c.at].x)

\* A debugger that reads the exported files finds every label and breakpoint of
\* the source, each where the source has it (labels, breakpoints, EXPORT and
\* SLD comments of tables.cpp, directives.cpp and sjio.cpp).
ListsTellTheSource == ListsReadBack /\ OpenedInTime

-----------------------------------------------------------------------------
(* Sources.                                                                *)

MCMemories == [ZXSPECTRUM48 |-> [size |-> 16384, slots |-> <<0, 1, 2, 3>>],
               ZXSPECTRUM128 |-> [size |-> 16384, slots |-> <<7, 5, 2, 0>>],
               ZXSPECTRUMNEXT |-> [size |-> 8192, slots |-> <<14, 15, 10, 11, 4, 5, 0, 1>>]]

Do(op, name, n, x) == [op |-> op, name |-> name, n |-> n, x |-> x, in |-> 1 .. FinalPass]
Dir(op, x) == Do(op, <<>>, 0, x)
Adr1(name, n) == Do("label", name, n, "addr")
In(ps, it) == [it EXCEPT !.in = ps]

\* Label lists over devices, mappings and kinds of labels
Just(it) == {it}
LabelSources ==
  LET Device == {Dir("device", d) : d \in DOMAIN Memories \cup {NoMemory}}
  IN  {Dir("device", "ZXSPECTRUM128"), Adr1(<<"m">>, 16384)}
      \X {Dir("labelslist", "pages"), Dir("labelslist", "virtual"), Dir("cspectmap", "")}
      \X {Adr1(<<"a">>, 49155), Adr1(<<"m", "a">>, 4), Do("label", <<"a">>, 70000, "equ")}
      \X Device
      \X {Dir("labelslist", "pages"), Dir("cspectmap", ""), Do("page", <<>>, 3, ""), Do("ref", <<"a">>, 0, "")}
      \X {Adr1(<<"a", "x">>, 57344), Adr1(<<"m", "a", "x">>, 65535), Do("label", <<"d">>, 1, "defl")}
      \X (Device \cup {Adr1(<<"s">>, 65536), Do("label", <<"s">>, 32768, "struct"), Do("label", <<"s">>, 4, "structdef")})

\* Files that are opened and filled in different passes
FileItems ==
  {Dir("device", "ZXSPECTRUM128"), Dir("bplist", "unreal"), Dir("bplist", "zesarux"), Dir("bplist", "mame"),
   Do("setbp", <<>>, 49152, ""), Do("setbp", <<>>, -5, ""), Do("export", <<"a">>, 0, ""), In({3}, Do("export", <<"a">>, 0, "")),
   Adr1(<<"a">>, 32768), Do("label", <<"a">>, 7, "defl"), Dir("keyword", "WPMEM"), Do("comment", <<>>, 49152, "WPMEM"),
   Do("page", <<>>, 4, ""), Dir("device", NoMemory)}
FileSources ==
  FileItems \X {Do("setbp", <<>>, 16384, ""), Do("comment", <<>>, 49152, "WPMEM"), Do("export", <<"a">>, 0, "")}
  \X FileItems \X FileItems \X {Dir("device", "ZXSPECTRUM128"), Adr1(<<"a">>, 32769), Dir("keyword", "WPMEM")}

MCExportSources == LabelSources \cup FileSources

-----------------------------------------------------------------------------
VARIABLE part   \* the component this behaviour is about

mcVars == <<part, z80Vars, structVars, symbolVars, exportVars>>

\* The parts a behaviour is not about have one initial state.
NoLine == src = <<>> /\ opt = <<>> /\ lp = <<>> /\ code = <<>> /\ bad = TRUE /\ busy = TRUE
NoStructs ==
  /\ structProg = <<>> /\ structPass = 0 /\ structPc = 0 /\ line = 0 /\ module = <<>> /\ cur = <<>>
  /\ structs = <<>> /\ structLabels = <<>> /\ structAdr = 0 /\ emitted = <<>> /\ errors = {} /\ warnings = {}
NoSymbols ==
  /\ prog = <<>> /\ pass = 0 /\ pc = 1 /\ adr = 0 /\ phys = 0 /\ displaced = FALSE /\ symbols = <<>>
  /\ modules = <<>> /\ vorlab = <<>> /\ macros = <<>> /\ macronummer = 0 /\ blocks = <<>> /\ level = 0
  /\ sizeofStack = <<>> /\ labels = <<>> /\ nextPassLabels = <<>> /\ sld = {} /\ reads = {} /\ msgs = {}

MCInit ==
  /\ part \in {"z80", "structures", "symbols", "exports"}
  /\ IF part = "z80" THEN Z80Init ELSE NoLine
  /\ IF part = "structures" THEN StructInit ELSE NoStructs
  /\ IF part = "symbols" THEN SymbolsInit ELSE NoSymbols
  /\ IF part = "exports" THEN ExportInit ELSE xsrc = <<>> /\ xs = ExportStart

MCNext ==
  /\ UNCHANGED part
  /\ \/ part = "z80"        /\ Z80Next     /\ UNCHANGED <<structVars, symbolVars, exportVars>>
     \/ part = "structures" /\ StructNext  /\ UNCHANGED <<z80Vars, symbolVars, exportVars>>
     \/ part = "symbols"    /\ SymbolsNext /\ UNCHANGED <<z80Vars, structVars, exportVars>>
     \/ part = "exports"    /\ ExportNext  /\ UNCHANGED <<z80Vars, structVars, symbolVars>>

MCSpec == MCInit /\ [][MCNext]_mcVars

-----------------------------------------------------------------------------

\* The encoder and the processor mean the same by a line: an accepted line emits
\* what it says, and every instruction the processor has can be written (z80.cpp).
InstructionsAreMeant == EmitsWhatIsWritten /\ EveryInstructionAssembles

\* What an accepted instance of a structure is: each initialiser fills the field
\* it was written for, and the bytes have the size that was declared (tables.cpp,
\* CStructure::emitmembs and ParseStructLine).
InstancesAreMeant == part = "structures" => StructInv /\ InitialisersBind /\ AcceptedHasSize

\* A name means the same in the table, in the text and in the debugging data
\* (tables.cpp, ValidateLabel, GetLabelValue and ExportLabelToSld).
NamesAreMeant == NamesAreLexical /\ SldPartsJoin
=============================================================================
