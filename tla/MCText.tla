-------------------------------- MODULE MCText --------------------------------
(***************************************************************************)
(* What a line of text means: expressions, literals and the substitution   *)
(* of defines and macro arguments.  The three share no state, so a         *)
(* behaviour is about one of them.                                         *)
(***************************************************************************)
EXTENDS Expressions, Literals, Substitution

-----------------------------------------------------------------------------
(***************************************************************************)
(* The evaluator of Expressions on the texts of TextReference: every       *)
(* pair of operators in both shapes, chains of three operators of seven    *)
(* groups, every unary operator beside every binary one, every kind of     *)
(* operand, dense and spaced, bare and in brackets.                        *)
(***************************************************************************)
MCAintBits == 9
MCByteBits == 3
L(v, pg, ph, pp, sz, rel) == [value |-> v, page |-> pg, phValue |-> ph, phPage |-> pp, size |-> sz, rel |-> rel]
MCLabels == [x |-> L(21, 2, 30, 4, 6, TRUE), k |-> L(5, 1, 5, 1, 0, FALSE)]
MCNumerals == [t \in {"0", "3", "10"} |->
    CASE t = "0" -> [dec |-> 0, bin |-> 0, hex |-> 0]
      [] t = "3" -> [dec |-> 3, bin |-> NoDigits, hex |-> 3]
      [] t = "10" -> [dec |-> 10, bin |-> 2, hex |-> 16]]
MCKeywords == {"mod", "shl", "shr", "and", "or", "xor", "not", "low", "high", "abs", "u16",
               "norel", "exist", "sizeof", "pair", "u"}

Ref == INSTANCE TextReference
       WITH Alnum <- DOMAIN Labels \cup Keywords \cup DOMAIN Numerals \cup {"b"},
            DigitSeq <- Digits, CodeOf <- Code

MCMemory == [a \in 0 .. 63 |-> (a * 5) % 8]

-----------------------------------------------------------------------------
(* Surroundings. *)

Surroundings == {
    [device |-> v, disp |-> d[1], dispPage |-> d[2], pageNum |-> 7, adrdisp |-> 33, address |-> 20,
     reloc |-> r[1], offset |-> r[2], alt |-> FALSE,
     synerr |-> TRUE, memoryBrackets |-> m]
    : d \in {<<"NONE", -1>>, <<"ACTIVE", -1>>, <<"ACTIVE", 9>>, <<"INSIDE_RELOCATE", -1>>},
      r \in {<<"OFF", 0>>, <<"REGULAR", 17>>, <<"HIGH", 16>>}, m \in {0, 2}, v \in BOOLEAN}

Main == [device |-> TRUE, disp |-> "NONE", dispPage |-> -1, pageNum |-> 7, adrdisp |-> 33, address |-> 20,
         reloc |-> "REGULAR", offset |-> 17, alt |-> FALSE,
         synerr |-> TRUE, memoryBrackets |-> 0]

-----------------------------------------------------------------------------
(* Trees. *)

Leaf(ts) == <<"leaf", ts>>
Two(o, a, b) == <<o, <<a, b>>>>
One(o, a) == <<o, <<a>>>>
n3 == Leaf(<<"3">>)
n10 == Leaf(<<"10">>)
nx == Leaf(<<"x">>)

Leaves == {<<"0">>, <<"3">>, <<"#", "10">>, <<"$", "10">>, <<"%", "10">>, <<"$">>, <<"$", "$">>,
           <<"x">>, <<"k">>, <<"u">>, <<"exist", " ", "x">>, <<"exist", " ", "u">>, <<"sizeof", " ", "x">>}
          \cup {d \o <<l>> : d \in {<<"$", "$">>, <<"$", "$", "$">>, <<"$", "$", "$", "$">>}, l \in {"x", "k"}}
Seven == {"%", "-", ">>>", "<=", "&", "^", "&&"}

Pairs(O) == {Two(o, Two(p, nx, n3), n10) : o \in O, p \in Ref!Binary}
            \cup {Two(o, n10, Two(p, nx, n3)) : o \in O, p \in Ref!Binary}
Chains == UNION {{Two(o, Two(p, nx, n3), Two(q, n10, n3)), Two(o, nx, Two(p, Two(q, n10, n3), n3)),
                  Two(o, Two(p, nx, Two(q, n10, n3)), n3)}
                 : o \in Seven, p \in Seven, q \in Seven}
Signed == UNION {{Two(o, One(u, nx), n3), Two(o, n10, One(u, nx)), One(u, Two(o, nx, n10)),
                  One(u, One(v, Two(o, nx, n10)))}
                 : o \in Seven, u \in Ref!Unary, v \in {"-", "high"}}
OperandTrees == {Two(o, Leaf(a), Leaf(b)) : o \in {"%", "-", "&"}, a \in Leaves,
                                             b \in {<<"x">>, <<"3">>, <<"%", "10">>, <<"$", "$", "k">>}}
           \cup {Two("+", One(u, Two(o, nx, Leaf(a))), One("norel", Leaf(a)))
                 : u \in {"{", "{b", "norel"}, o \in {"-", ">>"}, a \in {<<"k">>, <<"%", "10">>, <<"3">>}}
           \cup {Two(o, Two("pair", One("-", Leaf(a)), Two(o, nx, n3)), Leaf(a))
                 : o \in Ref!Binary, a \in {<<"x">>, <<"3">>, <<"$">>}}
Displaced == {Two(o, Leaf(a), n3) : o \in {"%", "&"}, a \in {<<"$", "$", "$">>, <<"$", "$", "$", "$">>}}

Samples ==
    [tree : Pairs(Ref!Binary) \cup Signed, e : {Main}, wrap : {"none"}, spaced : BOOLEAN]
    \cup [tree : Chains, e : {Main}, wrap : {"none"}, spaced : {FALSE}]
    \cup [tree : Pairs(Seven), e : {s \in Surroundings : s.device /\ s.disp = "NONE" /\ s.reloc = "HIGH"},
          wrap : {"round", "square"}, spaced : {FALSE}]
    \cup [tree : OperandTrees, e : {s \in Surroundings : s.device /\ s.memoryBrackets = 0}, wrap : {"round"}, spaced : {FALSE}]
    \cup [tree : Displaced, e : {s \in Surroundings : s.disp # "NONE"}, wrap : {"none"}, spaced : BOOLEAN]

Wrapped(s) ==
    LET t == Ref!Text(s.tree, TopLevel, s.spaced)
    IN  CASE s.wrap = "none" -> t
          [] s.wrap = "round" -> <<"(">> \o t \o <<")", " ">>
          [] s.wrap = "square" -> <<"[">> \o t \o <<"]">>

VARIABLES sample, parsed
exprVars == <<sample, parsed>>

NotParsed == [kind |-> -1]

ExprInit ==
    /\ sample \in Samples
    /\ parsed = NotParsed
ExprIdle ==
    /\ sample = [tree |-> nx, e |-> Main, wrap |-> "none", spaced |-> FALSE]
    /\ parsed = NotParsed
ExprNext ==
    /\ parsed = NotParsed
    /\ parsed' = ParseExpressionMemAccess([text |-> Wrapped(sample)] @@ sample.e, 1)
    /\ UNCHANGED sample

(* The text of a tree is read to its end and has the value of the tree; it
   is a memory access exactly when all of it stands in brackets; and it is
   marked for the relocation table when the value moves with the labels. *)
ExpressionMeansItsTree ==
    \/ parsed = NotParsed
    \/ \E moved \in BOOLEAN : ~Ref!Defined(sample.e, sample.tree, moved)
    \/ LET e == sample.e
           v == Ref!Value(e, sample.tree, FALSE)
           w == Ref!Value(e, sample.tree, TRUE)
           undefined == \E i \in DOMAIN Wrapped(sample) : /\ Wrapped(sample)[i] = "u"
                                                           /\ (i < 3 \/ Wrapped(sample)[i - 2] # "exist")
       IN  /\ parsed.v = v
           /\ parsed.kind = (IF sample.wrap = "square" \/ (sample.wrap = "round" /\ e.memoryBrackets # 2)
                             THEN 2 ELSE 1)
           /\ parsed.p = Len(Wrapped(sample)) + 1
           /\ ("Division by zero" \in parsed.errs) = Ref!DividesByZero(e, sample.tree, FALSE)
           /\ ("Label not found" \in parsed.errs) = undefined
           /\ parsed.affected = (e.reloc # "OFF" /\ v # w)
           /\ (parsed.affected /\ parsed.delta = "REGULAR") => w = v + e.offset

-----------------------------------------------------------------------------
(***************************************************************************)
(* The readers of Literals on every writing of TextReference: numbers      *)
(* around the width in every style, strings of one and two pieces, lists   *)
(* of up to three arguments and pictures, up to and beyond the BytesMax    *)
(* bytes that one call may return.                                         *)
(***************************************************************************)
MCCode == [c \in {"a", "n", "'", "\"", "\\", "Z"} |->
    CASE c = "a" -> 97 [] c = "n" -> 255 [] c = "'" -> 39 [] c = "\"" -> 34 [] c = "\\" -> 92 [] c = "Z" -> 90]
MCExprs == [E |-> 200, F |-> 5]
NumeralSamples == [v : (0 .. 17) \cup (60 .. 66) \cup (125 .. 130) \cup (250 .. 270) \cup (508 .. 520) \cup (1020 .. 1030), style : DOMAIN Ref!Styles, zeros : {0, 2}, tick : {"", "'", "_"}]

Chars == DOMAIN Code
Seqs(n) == UNION {[1 .. i -> Chars] : i \in 0 .. n}
Pieces(n) == {x \in [chars : Seqs(n), quotes : BOOLEAN, suffix : {"", "Z", "C"}] : x.suffix = "C" => x.chars # <<>>}
StringSamples == [1 .. 1 -> Pieces(3)] \cup [1 .. 2 -> Pieces(1)]
Str1(cs, q, s) == [pieces |-> << [chars |-> cs, quotes |-> q, suffix |-> s] >>, text |-> <<>>, value |-> 0]
Expr(ts, v) == [pieces |-> <<>>, text |-> ts, value |-> v]
ArgumentSamples == {Expr(<<"E">>, 200), Expr(<<"F", " ", "|">>, 133), Expr(<<"'", "a", "'", "|">>, 225),
              Expr(<<"'", "\\", "'", " ", "|">>, 220)}
             \cup {Str1(cs, q, s) : cs \in {<<"a">>, <<"'">>, <<"a", "n">>, <<"\"", "\\">>, <<"a", "Z", "a">>},
                                    q \in BOOLEAN, s \in {"", "Z", "C"}}
Lists == UNION {[1 .. n -> ArgumentSamples] : n \in 1 .. 2}
         \cup [1 .. 3 -> {a \in ArgumentSamples : a.pieces = <<>> \/ a.pieces[1].suffix = "Z"}]
Bytes == UNION {[1 .. n -> {0, 9, 165, 255}] : n \in 1 .. 3} \cup [1 .. 4 -> {9, 165}] \cup [1 .. 5 -> {9, 165}]

VARIABLES literal, read
litVars == <<literal, read>>

NotRead == [done |-> FALSE]
LitInit ==
    /\ read = NotRead
    /\ literal \in [kind : {"num"}, n : NumeralSamples] \cup [kind : {"str"}, n : StringSamples]
                   \cup [kind : {"db"}, n : Lists, add : {0, 3}, dc : BOOLEAN]
                   \cup [kind : {"dg", "dh"}, n : Bytes, blank : {<<>>, <<" ">>}, delimiter : {"", "\"", "'"}]
LitIdle == literal = [kind |-> "str", n |-> <<>>] /\ read = NotRead

-----------------------------------------------------------------------------
UpTo(bytes) == SubSeq(bytes, 1, IF Len(bytes) < BytesMax THEN Len(bytes) ELSE BytesMax)
NumeralIsRead(n, t, r) ==
    /\ r.ok /\ r.p = Len(t) + 1
    /\ r.val = n.v % 2^ValueBits
    /\ "Overflow" \in r.errs => n.v >= 2^ValueBits
    /\ n.v >= 2^ValueBits /\ Ref!Styles[n.style][1] # 10 => "Overflow" \in r.errs
StringIsRead(xs, bytes, t, r) ==
    IF Len(bytes) > BytesMax THEN r.res = -2
    ELSE r.res = (IF xs[Len(xs)].quotes THEN 2 ELSE 1) /\ r.bytes = bytes /\ r.p = Len(t) + 1
ListIsRead(bytes, t, r) ==
    /\ r.errs = (IF Len(bytes) > BytesMax THEN {"Over 128 bytes"} ELSE {})
    /\ Len(bytes) <= BytesMax => r.bytes = bytes /\ r.p = Len(t) + 1
    /\ Len(r.bytes) = Len(UpTo(bytes))
PictureIsRead(bytes, t, r) ==
    /\ r.bytes = UpTo(bytes)
    /\ Len(bytes) <= BytesMax => r.errs = {} /\ r.p = Len(t) + 1
    /\ Len(bytes) > BytesMax => "Over 128 bytes" \in r.errs

LiteralText(l) ==
    CASE l.kind = "num" -> Ref!NumeralText(l.n)
      [] l.kind = "str" -> Ref!StringText(l.n)
      [] l.kind = "db" -> Ref!ListText(l.n)
      [] l.kind = "dg" -> Ref!Within(l.delimiter, Ref!PictureText(l.n, l.blank))
      [] l.kind = "dh" -> Ref!Within(l.delimiter, Ref!HexText(l.n, l.blank))
LiteralRead(l, t) ==
    CASE l.kind = "num" -> GetConstant(t, 1)
      [] l.kind = "str" -> GetCharConstAsString(t, 1, <<>>, BytesMax, 0)
      [] l.kind = "db" -> GetBytes(t, 1, l.add, l.dc, <<>>)
      [] l.kind = "dg" -> GetBits(t, 1)
      [] l.kind = "dh" -> GetBytesHexaText(t, 1, <<>>)
LitNext ==
    /\ read = NotRead
    /\ read' = [done |-> TRUE, result |-> LiteralRead(literal, LiteralText(literal))]
    /\ UNCHANGED literal

IsReadBack(l, t, r) ==
    CASE l.kind = "num" -> NumeralIsRead(l.n, t, r)
      [] l.kind = "str" -> StringIsRead(l.n, Ref!StringBytes(l.n, 0), t, r)
      [] l.kind = "db" -> ListIsRead(Ref!ListBytes(l.n, l.add, l.dc), t, r)
      [] OTHER -> PictureIsRead(l.n, t, r)
(* What is written is what is read, to the last character: numbers modulo
   the width, with a message when they do not fit (decimal ones: no message
   without need, the reader misses some), strings with their escapes and
   suffixes, lists, pictures and digits; more than BytesMax bytes are a
   message and never written past the end. *)
LiteralsReadBack == read.done => IsReadBack(literal, LiteralText(literal), read.result)

-----------------------------------------------------------------------------
(***************************************************************************)
(* The substitution of lines: names that are parts of other names, defines *)
(* that refer to each other and to themselves, an array, two macros that   *)
(* may call each other, with positional, named and wrong arguments, glue,  *)
(* a string, and comments over several lines.                              *)
(***************************************************************************)
MCLabChars == {"A", "B", "x", "_", "define", "define+", "undefine", "defarray", "M", "N", "arr"}
MCDefDirs == {"define", "define+", "undefine", "defarray"}
MCMACROS == [M |-> <<<<"A">>, <<"B">>>>, N |-> <<<<"B">>>>]
MCLINES == {
  <<"define", " ", "A", " ", "B">>,
  <<"define+", " ", "B", " ", "x", "_", "A", ";", "A">>,
  <<"undefine", " ", "A">>,
  <<"defarray", " ", "arr", " ", "A", ",", "<", "1", ",", "x", ">">>,
  <<"M", " ", "x", ",", " ", "A", " ">>,
  <<"M", " ", "B", "=", "A", ",", "A", "=", "1">>,
  <<"N", " ", "A", "'", "1">>,
  <<"N", " ", "A", ",", "x">>,
  <<"A", " ", "_", " ", "B", ",", "'", "B", "'">>,
  <<" ", "x", " ", "B", "/*", "A">>,
  <<"A", "*/", "_", "A", "_">>,
  <<"arr", "[", "A", "]", "arr", "[", "#", "]">> }

-----------------------------------------------------------------------------
(* The places of a text that are inside of a string.  A quote opens one
   unless it follows a letter or digit. *)
RunStart(t, p) == CHOOSE i \in 1 .. p : /\ \A k \in i .. p : t[k] \in LabChars
                                        /\ i = 1 \/ t[i - 1] \notin LabChars
Opener(t, p) ==
    /\ t[p] \in {"\"", "'"}
    /\ p = 1 \/ IF t[p - 1] \in LabChars THEN t[RunStart(t, p - 1)] = "_" ELSE ~IsDigit(t[p - 1])

RECURSIVE StringPlaces(_, _)
StringPlaces(t, p) ==
    IF p > Len(t) THEN {}
    ELSE IF Opener(t, p) THEN LET e == StringEnd(t, p + 1, t[p]) IN (p .. e - 1) \cup StringPlaces(t, e)
    ELSE StringPlaces(t, p + 1)

(* The names a text offers for substitution: the identifiers outside of
   strings, and their parts from a border between underscores and other
   characters to another one, where underscores lead only whole ones. *)
Parts(t) ==
    LET inside == StringPlaces(t, 1)
        Places == {i \in DOMAIN t \ inside : t[i] \in LabChars}
        Begins(i) == i - 1 \notin Places \/ (Subwords /\ t[i] # "_" /\ t[i - 1] = "_")
        Ends(i) == i + 1 \notin Places \/ (Subwords /\ (t[i] = "_") # (t[i + 1] = "_"))
    IN  {SubSeq(t, r[1], r[2]) : r \in {q \in {i \in Places : Begins(i)} \X {i \in Places : Ends(i)} :
                                          q[1] <= q[2] /\ q[1] .. q[2] \subseteq Places}}

(* A line that was substituted without a message has no name left that a
   running macro knows as an argument or, unless it is a directive that
   defines names, that the table of defines knows. *)
SubstitutionIsComplete ==
    line.done /\ line.errs = {} =>
        \A n \in Parts(line.out) :
            /\ callers # <<>> => Find(chain, n) = 0
            /\ ~(line.out # <<>> /\ line.out[1] \in DefDirs) =>
                  Find(defs, n) = 0 \/ defs[Find(defs, n)].nss # <<>>

(* Inside of a macro a name means the argument of the innermost running
   macro that has an argument of this name, also after calls that ended and
   calls that failed half way through their arguments. *)
ArgumentsAreLexical ==
    callers # <<>> =>
        \A n \in UNION {Range(MACROS[m]) : m \in DOMAIN MACROS} :
            LET having == {i \in DOMAIN bound : n \in DOMAIN bound[i]}
            IN  IF having = {} THEN Find(chain, n) = 0
                ELSE Find(chain, n) # 0 /\ chain[Find(chain, n)].value = bound[Min(having)][n]

(* A name of the text means what it meant where it was written, and nothing is
   left unsubstituted (macro_args and defines of ReplaceDefine, CMacros::Emit). *)
NamesAreSubstituted == SubstitutionIsComplete /\ ArgumentsAreLexical

(* A word in front of a comment that no table knows is still there after the
   substitution. *)
CommentKeepsCode ==
    LET word == SubSeq(line.src, 2, 2)
    IN  line.done /\ line.errs = {} /\ line.depth = 0 /\ At(line.src, 1) = " " /\ IsLab(line.src, 2)
        /\ At(line.src, 3) = " " /\ Find(defs, word) = 0 /\ Find(chain, word) = 0
        => word[1] \in Range(line.out)

-----------------------------------------------------------------------------
VARIABLE part   \* the component this behaviour is about

textVars == <<part, exprVars, litVars, svars>>

TextInit ==
  /\ SubstInit
  /\ \/ part = "expression" /\ ExprInit /\ LitIdle
     \/ part = "literal" /\ ExprIdle /\ LitInit
     \/ part = "substitution" /\ ExprIdle /\ LitIdle

TextNext ==
  /\ UNCHANGED part
  /\ \/ part = "expression" /\ ExprNext /\ UNCHANGED <<litVars, svars>>
     \/ part = "literal" /\ LitNext /\ UNCHANGED <<exprVars, svars>>
     \/ part = "substitution" /\ SubstNext /\ UNCHANGED <<exprVars, litVars>>

TextSpec == TextInit /\ [][TextNext]_textVars
=============================================================================
