---------------------------- MODULE TextReference ----------------------------
(***************************************************************************)
(* What a text means (docs/documentation.xml): expressions as trees with    *)
(* their value ("Expressions"), and values with the ways to write them      *)
(* ("Numeric constants", "Character and string constants").                 *)
(***************************************************************************)
EXTENDS Integers, Sequences, SequencesExt, FiniteSets

CONSTANTS AintBits, ByteBits, Labels, Alnum, Memory,   \* expressions
          DigitSeq, CodeOf                             \* literals

-----------------------------------------------------------------------------
(* Expressions.  A tree is <<operator, subtrees>>; a leaf is               *)
(* <<"leaf", <<tokens>>>>.  Its text has no more parentheses than the      *)
(* operator table asks for: the groups of that table from the tightest to  *)
(* the loosest, every group associating to the left.                       *)

(* The table: spelling -> group and meaning. *)
Group == <<{"*", "/", "%", "mod"}, {"+", "-"}, {"<<", ">>", ">>>", "shl", "shr"}, {"<?", ">?"},
           {"<", ">", "<=", ">="}, {"=", "==", "!="}, {"&", "and"}, {"^", "xor"}, {"|", "or"},
           {"&&"}, {"||"}>>
Binary == UNION {Group[i] : i \in DOMAIN Group}
Unary == {"!", "~", "+", "-", "low", "high", "u16", "not", "abs"}
LevelOf(o) == CHOOSE i \in DOMAIN Group : o \in Group[i]

Spelling(o) ==
    CASE o \in {"<<", ">>", "<?", ">?", "<=", ">=", "==", "!=", "&&", "||"} -> <<SubSeq(o, 1, 1), SubSeq(o, 2, 2)>>
      [] o = ">>>" -> <<">", ">", ">">>
      [] OTHER -> <<o>>

-----------------------------------------------------------------------------
(* Values: integers of AintBits bits in two's complement, bit by bit where
   the operator is bitwise. *)

Width == 0 .. AintBits - 1
BitsOf(x) == {i \in Width : (x \div 2^i) % 2 = 1}
OfBits(B) == LET Weight(i) == IF i = AintBits - 1 THEN -(2^i) ELSE 2^i
             IN  FoldLeft(LAMBDA a, i : a + (IF i - 1 \in B THEN Weight(i - 1) ELSE 0), 0,
                          [i \in 1 .. AintBits |-> i])
Moved(B, n) == {i + n : i \in B} \cap Width
Truth(b) == IF b THEN -1 ELSE 0
Abs(x) == IF x < 0 THEN -x ELSE x
Fit(x) == OfBits(BitsOf(x))
TruncatedQuotient(x, y) ==
    CHOOSE q \in -Abs(x) .. Abs(x) : /\ Abs(q * y) <= Abs(x) /\ Abs(x) - Abs(q * y) < Abs(y)
                                     /\ q * y * x >= 0

BinaryValue(o, x, y) ==
    CASE o = "*" -> Fit(x * y)
      [] o = "/" -> IF y = 0 THEN 0 ELSE Fit(TruncatedQuotient(x, y))
      [] o \in {"%", "mod"} -> IF y = 0 THEN 0 ELSE x - y * TruncatedQuotient(x, y)
      [] o = "+" -> Fit(x + y)
      [] o = "-" -> Fit(x - y)
      [] o \in {"<<", "shl"} -> OfBits(Moved(BitsOf(x), y))
      [] o = ">>>" -> OfBits(Moved(BitsOf(x), -y))
      [] o \in {">>", "shr"} -> OfBits(Moved(BitsOf(x), -y)
                                       \cup (IF x < 0 THEN {i \in Width : i >= AintBits - y} ELSE {}))
      [] o = "<?" -> IF x <= y THEN x ELSE y
      [] o = ">?" -> IF x <= y THEN y ELSE x
      [] o = "<" -> Truth(x < y)
      [] o = ">" -> Truth(x > y)
      [] o = "<=" -> Truth(x <= y)
      [] o = ">=" -> Truth(x >= y)
      [] o \in {"=", "=="} -> Truth(x = y)
      [] o = "!=" -> Truth(x # y)
      [] o \in {"&", "and"} -> OfBits(BitsOf(x) \cap BitsOf(y))
      [] o \in {"|", "or"} -> OfBits(BitsOf(x) \cup BitsOf(y))
      [] o \in {"^", "xor"} -> OfBits((BitsOf(x) \cup BitsOf(y)) \ (BitsOf(x) \cap BitsOf(y)))
      [] o = "&&" -> Truth(x # 0 /\ y # 0)
      [] o = "||" -> Truth(x # 0 \/ y # 0)

UnaryValue(o, x) ==
    CASE o \in {"!", "not"} -> Truth(x = 0)
      [] o = "~" -> OfBits(Width \ BitsOf(x))
      [] o = "+" -> x
      [] o = "-" -> Fit(-x)
      [] o = "low" -> OfBits({i \in BitsOf(x) : i < ByteBits})
      [] o = "high" -> OfBits({i - ByteBits : i \in {j \in BitsOf(x) : j \in ByteBits .. 2 * ByteBits - 1}})
      [] o = "u16" -> OfBits({i \in BitsOf(x) : i < 2 * ByteBits})
      [] o = "abs" -> Fit(Abs(x))

(* The leaves, in the surroundings `e'; `moved': the program is loaded at
   an address e.offset higher. *)
LeafValue(e, ts, moved) ==
    LET name == ts[Len(ts)]
        shift == IF moved THEN e.offset ELSE 0
        Of(field) == IF name \in DOMAIN Labels THEN Labels[name][field] ELSE 0
        Named(prefix) == SubSeq(ts, 1, Len(ts) - 1) = prefix /\ name \in Alnum
    IN  CASE ts = <<"3">> -> 3 [] ts = <<"0">> -> 0 [] ts = <<"10">> -> 10
          [] ts \in {<<"#", "10">>, <<"$", "10">>} -> 16
          [] ts = <<"%", "10">> -> 2
          [] ts = <<"$">> -> e.address + (IF e.disp = "INSIDE_RELOCATE" THEN 0 ELSE shift)
          [] ts = <<"$", "$">> -> IF e.disp # "NONE" /\ e.dispPage # -1 THEN e.dispPage ELSE e.pageNum
          [] ts = <<"$", "$", "$">> -> e.adrdisp
          [] ts = <<"$", "$", "$", "$">> -> IF e.device THEN e.pageNum ELSE -1
          [] Named(<<>>) -> Of("value") + (IF name \in DOMAIN Labels /\ Labels[name].rel THEN shift ELSE 0)
          [] Named(<<"$", "$">>) -> Of("page")
          [] Named(<<"$", "$", "$">>) -> Of("phValue")
          [] Named(<<"$", "$", "$", "$">>) -> Of("phPage")
          [] Named(<<"exist", " ">>) -> Truth(name \in DOMAIN Labels)
          [] Named(<<"sizeof", " ">>) -> Of("size")

RECURSIVE Value(_, _, _)
Value(e, t, moved) ==
    LET o == t[1]
        V(i) == Value(e, t[2][i], moved)
        B == 2^ByteBits
    IN  CASE o = "leaf" -> LeafValue(e, t[2], moved)
          [] o = "norel" -> Value(e, t[2][1], FALSE)
          [] o = "{b" -> Memory[Value(e, t[2][1], FALSE)]
          [] o = "{" -> LET a == Value(e, t[2][1], FALSE) IN Memory[a] + B * Memory[a + 1]
          [] o = "pair" -> (V(1) % B) * B + (V(2) % B)
          [] OTHER -> IF Len(t[2]) = 1 THEN UnaryValue(o, V(1)) ELSE BinaryValue(o, V(1), V(2))

(* A tree that divides by zero is reported. *)
RECURSIVE DividesByZero(_, _, _)
DividesByZero(e, t, moved) ==
    /\ t[1] # "leaf"
    /\ \/ t[1] \in {"/", "%", "mod"} /\ Value(e, t[2][2], moved) = 0
       \/ \E i \in DOMAIN t[2] : DividesByZero(e, t[2][i], moved)

(* C++ leaves open what a shift by a negative count or by the width or more
   gives, and the quotient of the lowest integer by -1. *)
RECURSIVE Defined(_, _, _)
Defined(e, t, moved) ==
    t[1] = "leaf" \/
    /\ \A i \in DOMAIN t[2] : Defined(e, t[2][i], moved)
    /\ t[1] \in Group[3] => Value(e, t[2][2], moved) \in 0 .. AintBits - 1
    /\ t[1] \in Group[1] \ {"*"} => ~ /\ Value(e, t[2][1], moved) = -(2^(AintBits - 1))
                                      /\ Value(e, t[2][2], moved) = -1

-----------------------------------------------------------------------------
(* The text. *)

OperatorWords == {"mod", "shl", "shr", "and", "xor", "or", "low", "high", "u16", "not", "abs", "norel"}

(* Two pieces of text, with a blank where they would run together, and
   after an operator that is a word and not followed by a parenthesis. *)
Joined(a, b) ==
    LET tail == a[Len(a)]
        blank == \/ tail \in Alnum \cup {"$"} /\ b[1] \in Alnum
                 \/ tail \in OperatorWords /\ b[1] # "("
    IN  a \o (IF blank THEN <<" ">> ELSE <<>>) \o b

Level(t) == IF t[1] \in Binary /\ Len(t[2]) = 2 THEN LevelOf(t[1]) ELSE 0

RECURSIVE Text(_, _, _)
Text(t, k, spaced) ==
    LET o == t[1]
        gap == IF spaced THEN <<" ">> ELSE <<>>
        Sub(i, l) == Text(t[2][i], l, spaced)
        plain == CASE o = "leaf" -> t[2]
                   [] o = "{" -> <<"{">> \o gap \o Sub(1, Len(Group)) \o <<"}">>
                   [] o = "{b" -> <<"{", "b", " ">> \o Sub(1, Len(Group)) \o gap \o <<"}">>
                   [] o = "pair" -> <<"pair", "(">> \o Sub(1, Len(Group)) \o <<",">> \o gap
                                    \o Sub(2, Len(Group)) \o <<")">>
                   [] o \in Unary \cup {"norel"} /\ Len(t[2]) = 1 -> Joined(<<o>> \o gap, Sub(1, 0))
                   [] OTHER -> Joined(Joined(Sub(1, Level(t)) \o gap, Spelling(o) \o gap),
                                      Sub(2, Level(t) - 1))
    IN  IF Level(t) > k THEN <<"(">> \o gap \o plain \o gap \o <<")">> ELSE plain

-----------------------------------------------------------------------------
(* Numerals: style -> base, prefix and suffix. *)

Styles == [hash |-> <<16, <<"#">>, <<>>>>, dollar |-> <<16, <<"$">>, <<>>>>, ox |-> <<16, <<"0", "x">>, <<>>>>,
           h |-> <<16, <<>>, <<"h">>>>, percent |-> <<2, <<"%">>, <<>>>>, ob |-> <<2, <<"0", "b">>, <<>>>>,
           b |-> <<2, <<>>, <<"b">>>>, oq |-> <<8, <<"0", "q">>, <<>>>>, q |-> <<8, <<>>, <<"q">>>>,
           o |-> <<8, <<>>, <<"o">>>>, plain |-> <<10, <<>>, <<>>>>, d |-> <<10, <<>>, <<"d">>>>]

RECURSIVE DigitsIn(_, _)
DigitsIn(v, base) ==
    (IF v < base THEN <<>> ELSE DigitsIn(v \div base, base)) \o <<DigitSeq[(v % base) + 1]>>

(* A numeral starts with a digit; the digit 0 alone before the suffix b or
   q reads as a prefix, so zero needs two. *)
Padded(ds, style, zeros) ==
    LET least == IF Styles[style][2] # <<>> THEN 0
                 ELSE IF ds[1] \in {"a", "b", "c", "d", "e", "f"} \/ (ds = <<"0">> /\ style \in {"b", "q"}) THEN 1
                 ELSE 0
    IN  [i \in 1 .. (IF zeros > least THEN zeros ELSE least) |-> "0"] \o ds

Grouped(ds, tick) == IF tick = "" \/ Len(ds) < 2 THEN ds
                     ELSE SubSeq(ds, 1, Len(ds) - 1) \o <<tick>> \o <<ds[Len(ds)]>>

NumeralText(n) ==
    LET s == Styles[n.style]
    IN  s[2] \o Grouped(Padded(DigitsIn(n.v, s[1]), n.style, n.zeros), n.tick) \o s[3]

-----------------------------------------------------------------------------
(* Strings: pieces [chars, quotes, suffix] joined by "..". *)

InQuotes(c) == IF c \in {"\"", "\\"} THEN <<"\\", c>> ELSE <<c>>
InApostrophes(c) == IF c = "'" THEN <<"'", "'">> ELSE <<c>>
Suffix(x) == IF x = "" THEN <<>> ELSE <<x>>
PieceText(x) ==
    IF x.quotes THEN <<"\"">> \o FlattenSeq([i \in DOMAIN x.chars |-> InQuotes(x.chars[i])]) \o <<"\"">> \o Suffix(x.suffix)
    ELSE <<"'">> \o FlattenSeq([i \in DOMAIN x.chars |-> InApostrophes(x.chars[i])]) \o <<"'">> \o Suffix(x.suffix)

Marked(bytes) == [bytes EXCEPT ![Len(bytes)] = (@ % 128) + 128]
PieceBytes(x, add) ==
    LET plain == [i \in DOMAIN x.chars |-> (CodeOf[x.chars[i]] + add) % 256]
    IN  CASE x.suffix = "Z" -> Append(plain, 0)
          [] x.suffix = "C" -> Marked(plain)
          [] OTHER -> plain

RECURSIVE Glued(_, _)
Glued(texts, between) ==
    IF Len(texts) = 1 THEN texts[1] ELSE texts[1] \o between \o Glued(Tail(texts), between)

StringText(xs) == Glued([i \in DOMAIN xs |-> PieceText(xs[i])], <<" ", ".", ".", " ">>)
StringBytes(xs, add) == FlattenSeq([i \in DOMAIN xs |-> PieceBytes(xs[i], add)])

-----------------------------------------------------------------------------
(* Arguments of DB and DC: [text, value] for an expression, pieces for a
   string. *)

ArgumentText(a) == IF a.pieces = <<>> THEN a.text ELSE StringText(a.pieces)
ArgumentBytes(a, add, dc) ==
    LET bytes == StringBytes(a.pieces, add)
        single == Len(bytes) = 1 /\ ~a.pieces[Len(a.pieces)].quotes
    IN  IF a.pieces = <<>> THEN <<(a.value + add) % 256>>
        ELSE IF dc /\ ~single THEN Marked(bytes) ELSE bytes

ListText(as) == Glued([i \in DOMAIN as |-> ArgumentText(as[i])], <<",">>)
ListBytes(as, add, dc) == FlattenSeq([i \in DOMAIN as |-> ArgumentBytes(as[i], add, dc)])

-----------------------------------------------------------------------------
(* The pictures of DG and the digits of DH. *)

RECURSIVE BitsOfByte(_, _)
BitsOfByte(v, n) == IF n = 0 THEN <<>> ELSE BitsOfByte(v \div 2, n - 1) \o <<IF v % 2 = 1 THEN "n" ELSE "-">>
PictureText(bytes, blank) ==
    FlattenSeq([i \in DOMAIN bytes |-> BitsOfByte(bytes[i] \div 16, 4) \o blank \o BitsOfByte(bytes[i], 4) \o blank])
HexText(bytes, blank) ==
    FlattenSeq([i \in DOMAIN bytes |-> <<DigitSeq[(bytes[i] \div 16) + 1], DigitSeq[(bytes[i] % 16) + 1]>> \o blank])
Within(delimiter, text) == IF delimiter = "" THEN text ELSE <<delimiter>> \o text \o <<delimiter>>
=============================================================================
