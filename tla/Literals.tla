----------------------------- MODULE Literals -----------------------------
(***************************************************************************)
(* Literals of reader.cpp: numerals (GetConstant), strings and characters  *)
(* (GetCharConstAsString, GetCharConst) and the lists of bytes that DB,    *)
(* DC, DZ, DG and DH read (GetBytes, GetBits, GetBytesHexaText).           *)
(*                                                                         *)
(* A text is a sequence of characters; Code gives a character's byte.      *)
(* Numbers have ValueBits bits (32 in the program).  An expression that is *)
(* no literal is one character of the text, its value is in Exprs.         *)
(***************************************************************************)
EXTENDS Reader

CONSTANTS ValueBits, Code, Exprs, BytesMax

Digits == <<"0", "1", "2", "3", "4", "5", "6", "7", "8", "9", "a", "b", "c", "d", "e", "f">>
DigitChars == {Digits[i] : i \in DOMAIN Digits}
getval(c) == (CHOOSE i \in DOMAIN Digits : Digits[i] = c) - 1
BaseSuffixes == {"h", "q", "o"}          \* "b" and "d" are digits too
isalnum(c) == c \in DigitChars \cup BaseSuffixes \cup {"x", "n", "Z", "C"}
DigitGroup(t, p) == At(t, p) \in {"'", "_"} /\ isalnum(At(t, p + 1))

-----------------------------------------------------------------------------
(* Numerals.  The reader of digits returns the value and the last error:
   "" for none, "Overflow" does not stop it. *)

Number(val, err) == [val |-> val, err |-> err]

(* Mutant: the comparison is used for every base. *)
Accumulate_compare(n, digit, base) ==
    LET val == (n.val * base + digit) % 2^ValueBits
    IN  Number(val, IF val < n.val THEN "Overflow" ELSE n.err)

(* A step over one digit: of a base that is a power of two the bits shifted
   out are looked at; of another base the new value is compared with the
   old one. *)
Accumulate(n, digit, base) ==
    LET full == n.val * base + digit
        val == full % 2^ValueBits
        over == IF base \in {2, 4, 8, 16, 32} THEN n.val * base >= 2^ValueBits ELSE val < n.val
    IN  Number(val, IF over THEN "Overflow" ELSE n.err)

RECURSIVE GetNumericValue(_, _, _, _, _)
GetNumericValue(t, p, pend, base, n) ==
    IF p >= pend THEN n
    ELSE IF DigitGroup(t, p) THEN GetNumericValue(t, p + 1, pend, base, n)
    ELSE IF ~isalnum(At(t, p)) THEN Number(n.val, "Missing next digit")
    ELSE IF At(t, p) \notin DigitChars \/ getval(At(t, p)) >= base THEN Number(n.val, "Digit not in base")
    ELSE GetNumericValue(t, p + 1, pend, base, Accumulate(n, getval(At(t, p)), base))

DigitsValue(t, p, pend, base) ==
    IF pend <= p THEN Number(0, "Syntax error") ELSE GetNumericValue(t, p, pend, base, Number(0, ""))

RECURSIVE NumeralEnd(_, _)
NumeralEnd(t, p) == IF isalnum(At(t, p)) \/ DigitGroup(t, p) THEN NumeralEnd(t, p + 1) ELSE p

(* The base and the first and last digit: a prefix decides, else a suffix;
   0b...h is hexadecimal. *)
Format(t, op, hardEnd) ==
    LET F(base, first, end) == [base |-> base, first |-> first, end |-> end]
        tail == At(t, hardEnd - 1)
        second == IF At(t, op) = "0" THEN At(t, op + 1) ELSE ""
    IN  CASE At(t, op) \in {"#", "$"} -> F(16, op + 1, hardEnd)
          [] At(t, op) = "%" -> F(2, op + 1, hardEnd)
          [] second = "x" -> F(16, op + 2, hardEnd)
          [] second = "b" /\ tail # "h" -> F(2, op + 2, hardEnd)
          [] second = "q" -> F(8, op + 2, hardEnd)
          [] OTHER -> CASE tail = "h" -> F(16, op, hardEnd - 1)
                        [] tail \in {"q", "o"} -> F(8, op, hardEnd - 1)
                        [] tail = "b" -> F(2, op, hardEnd - 1)
                        [] tail = "d" -> F(10, op, hardEnd - 1)
                        [] OTHER -> F(10, op, hardEnd)

Literal(ok, p, val, errs) == [ok |-> ok, p |-> p, val |-> val, errs |-> errs]
Reported(n) == IF n.err = "" THEN {} ELSE {n.err}

Stops(n) == n.err \notin {"", "Overflow"}

(* The decimals of `n' are read for a warning only. *)
WithFraction(op, n, pend, fraction) ==
    IF Stops(fraction) THEN Literal(FALSE, op, n.val, Reported(n) \cup Reported(fraction))
    ELSE Literal(TRUE, pend, n.val,
                 Reported(n) \cup {IF fraction.val # 0 \/ fraction.err = "Overflow"
                                   THEN "W_NON_ZERO_DECIMAL" ELSE "W_ZERO_DECIMAL"})

Formatted(t, op, hardEnd, f) ==
    LET decimal == At(t, hardEnd) = "." /\ isalnum(At(t, hardEnd + 1)) /\ f.end = hardEnd
        Fraction(n, pend) == WithFraction(op, n, pend, DigitsValue(t, hardEnd + 1, pend, f.base))
        Of(n) == IF Stops(n) THEN Literal(FALSE, op, n.val, Reported(n))
                 ELSE IF decimal THEN Fraction(n, NumeralEnd(t, hardEnd + 1))
                 ELSE Literal(TRUE, hardEnd, n.val, Reported(n))
    IN  IF {At(t, f.first), At(t, f.end - 1)} \cap {"'", "_"} # {}
        THEN Literal(FALSE, op, 0, {"Missing next digit"})
        ELSE Of(DigitsValue(t, f.first, f.end, f.base))

GetConstant(t, op) ==
    LET Until(hardEnd) == Formatted(t, op, hardEnd, Format(t, op, hardEnd))
    IN  Until(NumeralEnd(t, IF At(t, op) \in {"#", "$", "%"} THEN op + 1 ELSE op))

-----------------------------------------------------------------------------
(* Characters and strings.  A reader of one character returns its value and
   the place after it, p = 0 when the literal is over. *)

Char(val, p) == [val |-> val, p |-> p]
NoChar == Char(0, 0)

Escaped == [c \in {"\\", "'", "\"", "0", "n"} |-> CASE c = "0" -> 0 [] c = "n" -> 10 [] OTHER -> Code[c]]

GetCharConstInDoubleQuotes(t, p) ==
    CASE At(t, p) \in {"\"", ""} -> NoChar
      [] At(t, p) # "\\" -> Char(Code[At(t, p)], p + 1)
      [] At(t, p + 1) \in DOMAIN Escaped -> Char(Escaped[At(t, p + 1)], p + 2)
      [] OTHER -> Char(Code["\\"], p + 1)

GetCharConstInApostrophes(t, p) ==
    CASE At(t, p) = "'" /\ At(t, p + 1) = "'" -> Char(Code["'"], p + 2)
      [] At(t, p) \in {"'", ""} -> NoChar
      [] OTHER -> Char(Code[At(t, p)], p + 1)

Nothing(c) == c.p = 0

(* The bytes of one quoted piece, as many as there is room for. *)
RECURSIVE Quoted(_, _, _, _, _, _)
Quoted(t, p, quotes, room, add, bytes) ==
    LET After(c) == IF room = 0 \/ Nothing(c) THEN [p |-> p, bytes |-> bytes]
                    ELSE Quoted(t, c.p, quotes, room - 1, add, Append(bytes, (c.val + add) % 256))
    IN  After(IF quotes THEN GetCharConstInDoubleQuotes(t, p) ELSE GetCharConstInApostrophes(t, p))

Suffixed(bytes) == [bytes EXCEPT ![Len(bytes)] = IF @ < 128 THEN @ + 128 ELSE @]

Str(res, p, bytes) == [res |-> res, p |-> p, bytes |-> bytes]

(* res: -2 full, -1 syntax error, 0 no string, 1 the last piece is in
   apostrophes, 2 it is in quotes.  `done' holds the bytes before. *)
RECURSIVE GetCharConstAsString(_, _, _, _, _)

(* A piece in front of `after' has its suffix; ".." asks for another one,
   and another one for ".." *)
NextPiece(t, quotes, dots, next, all, max, add) ==
    IF dots.oper = "" THEN Str(IF quotes THEN 2 ELSE 1, dots.p, all)
    ELSE IF At(t, next) \notin {"\"", "'"} THEN Str(-1, next, all)
    ELSE GetCharConstAsString(t, next, all, max, add)

MorePieces(t, quotes, after, all, max, add) ==
    LET Dots(dots) == NextPiece(t, quotes, dots, SkipBlanks(t, dots.p), all, max, add)
    IN  Dots(need(t, after, << <<".", ".">> >>))

Piece(t, quotes, q, bytes, max, add) ==
    LET mark == At(t, q.p + 1)
    IN  CASE At(t, q.p) # (IF quotes THEN "\"" ELSE "'") -> Str(IF At(t, q.p) = "" THEN -1 ELSE -2, q.p, bytes)
          [] mark = "Z" /\ Len(bytes) >= max -> Str(-2, q.p + 1, bytes)
          [] mark = "C" /\ q.bytes = <<>> -> Str(-1, q.p + 2, bytes)
          [] OTHER -> MorePieces(t, quotes, IF mark \in {"Z", "C"} THEN q.p + 2 ELSE q.p + 1,
                                 CASE mark = "Z" -> Append(bytes, 0)
                                   [] mark = "C" -> Suffixed(bytes)
                                   [] OTHER -> bytes, max, add)

GetCharConstAsString(t, p, done, max, add) ==
    LET quotes == At(t, p) = "\""
        From(q) == Piece(t, quotes, q, done \o q.bytes, max, add)
    IN  IF At(t, p) \notin {"\"", "'"} THEN Str(0, p, done)
        ELSE From(Quoted(t, p + 1, quotes, max - Len(done), add, <<>>))

(* A string as a number: its bytes, the first one the highest. *)
RECURSIVE BigEndian(_)
BigEndian(bytes) ==
    IF bytes = <<>> THEN 0
    ELSE (BigEndian(SubSeq(bytes, 1, Len(bytes) - 1)) * 256 + bytes[Len(bytes)]) % 2^ValueBits

GetCharConst(t, p) ==
    LET Of(s) == IF s.res <= 0 THEN Literal(FALSE, s.p, 0, {}) ELSE Literal(TRUE, s.p, BigEndian(s.bytes), {})
    IN  Of(GetCharConstAsString(t, p, <<>>, BytesMax, 0))

-----------------------------------------------------------------------------
(* Lists of bytes. *)

List(bytes, p, errs) == [bytes |-> bytes, p |-> p, errs |-> errs]

(* An expression: a literal or an opaque operand, then operands glued to it
   with "|" (the only operator these texts use). *)
LiteralOrOperand(t, p) ==
    IF At(t, p) \in DOMAIN Exprs THEN Literal(TRUE, p + 1, Exprs[At(t, p)], {}) ELSE GetCharConst(t, p)

Or128(v) == IF v < 128 THEN v + 128 ELSE v

ParseExpressionNoSyntaxError(t, p) ==
    LET At_tail(x, tail) == IF x.ok /\ At(t, tail) = "|" THEN Literal(TRUE, tail + 1, Or128(x.val), {})
                            ELSE [x EXCEPT !.p = tail]
        Of(x) == At_tail(x, SkipBlanks(t, x.p))
    IN  Of(LiteralOrOperand(t, SkipBlanks(t, p)))

(* One argument of DB (dc: of DC).  A string of one byte followed by more
   text is the start of an expression; a single character in apostrophes
   is no string to DC. *)
ExpressionArgument(x, add) ==
    [ok |-> x.ok, p |-> x.p, errs |-> IF x.ok THEN {} ELSE {"Syntax error"},
     bytes |-> IF x.ok THEN <<(x.val + add) % 256>> ELSE <<>>]

StringArgument(s, dc) ==
    [ok |-> s.res > 0, p |-> s.p, errs |-> IF s.res = -1 THEN {"Syntax error"} ELSE {},
     bytes |-> IF dc /\ s.res > 0 /\ Len(s.bytes) > (IF s.res = 1 THEN 1 ELSE 0) THEN Suffixed(s.bytes) ELSE s.bytes]

Argument(t, p, done, add, dc) ==
    LET StartsExpression(s) == \/ s.res = 0
                               \/ s.res > 0 /\ Len(s.bytes) = 1 /\ At(t, SkipBlanks(t, s.p)) \notin {"", ","}
        Of(s) == IF StartsExpression(s) THEN ExpressionArgument(ParseExpressionNoSyntaxError(t, p), add)
                 ELSE StringArgument(s, dc)
    IN  Of(GetCharConstAsString(t, p, <<>>, BytesMax - Len(done), add))

RECURSIVE GetBytes(_, _, _, _, _)

(* After the argument `a', which ends at `end' with its comma (more). *)
MoreBytes(t, add, dc, a, bytes, more, end) ==
    LET full == IF Len(bytes) = BytesMax /\ At(t, end) # "" THEN {"Over 128 bytes"} ELSE {}
    IN  IF ~a.ok THEN List(bytes, a.p, a.errs \cup full)
        ELSE IF more /\ Len(bytes) < BytesMax THEN GetBytes(t, end, add, dc, bytes)
        ELSE List(bytes, end, full)

GetBytes(t, p0, add, dc, done) ==
    LET After(a, more) == MoreBytes(t, add, dc, a, done \o a.bytes, more, IF more THEN Past(t, a.p) ELSE a.p)
        Of(a) == After(a, comma(t, a.p))
        From(p) == IF At(t, p) = "" THEN List(done, p, {"Expression expected"}) ELSE Of(Argument(t, p, done, add, dc))
    IN  From(SkipBlanks(t, p0))

(* DG: eight characters make a byte; "-", "." and "_" are zeros and blanks
   do not count. *)
Zeros == {"-", ".", "_"}

RECURSIVE Bits(_, _, _)
Bits(t, p, value) ==
    IF value >= 256 \/ At(t, p) = "" THEN [p |-> p, value |-> value]
    ELSE IF At(t, p) = " " THEN Bits(t, p + 1, value)
    ELSE Bits(t, p + 1, 2 * value + (IF At(t, p) \in Zeros THEN 0 ELSE 1))

RECURSIVE GraphicBytes(_, _, _, _, _)
GraphicBytes(t, p, delimiter, done, errs) ==
    LET After(b) == IF b.value >= 256
                    THEN GraphicBytes(t, SkipBlanks(t, b.p), delimiter, Append(done, b.value % 256), errs)
                    ELSE GraphicBytes(t, SkipBlanks(t, b.p), delimiter, done, errs \cup {"eight characters"})
    IN  IF At(t, p) \in {"", delimiter} THEN List(done, p, errs)
        ELSE IF Len(done) = BytesMax THEN List(done, p, errs \cup {"Over 128 bytes"})
        ELSE After(Bits(t, p, 1))

Delimiter(t, p) == IF At(t, p) \in {"\"", "'"} THEN At(t, p) ELSE ""

GetBits(t, p0) ==
    LET Closed(d, b) == IF d = "" THEN b
                        ELSE IF At(t, b.p) = d THEN [b EXCEPT !.p = @ + 1]
                        ELSE [b EXCEPT !.errs = @ \cup {"No closing delimiter"}]
        From(p, d) == Closed(d, GraphicBytes(t, IF d = "" THEN p ELSE p + 1, d, <<>>, {}))
    IN  From(SkipBlanks(t, p0), Delimiter(t, SkipBlanks(t, p0)))

(* DH: two digits make a byte, in arguments that may be quoted.  A bad
   digit leaves nothing of the line. *)
RECURSIVE HexaBytes(_, _, _, _)
HexaBytes(t, p, delimiter, done) ==
    LET To(next, b) == IF delimiter = "" /\ At(t, next) = "," THEN List(b, next, {})
                       ELSE HexaBytes(t, next, delimiter, b)
        Of(n) == IF Stops(n) THEN List(<<>>, p, {n.err})
                 ELSE IF Len(done) >= BytesMax THEN List(done, p + 2, {"Over 128 bytes"})
                 ELSE To(SkipBlanks(t, p + 2), Append(done, n.val % 256))
    IN  IF At(t, p) \in {"", delimiter} THEN List(done, p, {}) ELSE Of(DigitsValue(t, p, p + 2, 16))

RECURSIVE GetBytesHexaText(_, _, _)

MoreHexa(t, b, end, errs) ==
    LET With(r) == [r EXCEPT !.errs = @ \cup errs]
    IN  IF comma(t, end) THEN With(GetBytesHexaText(t, Past(t, end), b.bytes)) ELSE List(b.bytes, end, errs)

HexaArgument(t, first, d, done) ==
    LET Closed(b) == d # "" /\ At(t, b.p) = d
        Errs(b) == b.errs \cup (IF At(t, first) = "" THEN {"no arguments"} ELSE {})
                         \cup (IF d # "" /\ ~Closed(b) THEN {"No closing delimiter"} ELSE {})
        After(b) == IF b.errs \cap {"Missing next digit", "Digit not in base"} # {} THEN b
                    ELSE MoreHexa(t, b, IF Closed(b) THEN SkipBlanks(t, b.p + 1) ELSE b.p, Errs(b))
    IN  After(HexaBytes(t, first, d, done))

GetBytesHexaText(t, p0, done) ==
    LET From(p, d) == HexaArgument(t, IF d = "" THEN p ELSE p + 1, d, done)
    IN  From(SkipBlanks(t, p0), Delimiter(t, SkipBlanks(t, p0)))
=============================================================================
