--------------------------- MODULE Expressions ---------------------------
(***************************************************************************)
(* The expression evaluator of parser.cpp (ParseExpPrim ... ParseExp-      *)
(* ression, ParseExpressionMemAccess) with the token helpers of reader.cpp *)
(* it stands on (OpenBracket, CloseBracket; the others are in Reader).     *)
(*                                                                         *)
(* A line is a sequence of tokens: the characters that operators are made  *)
(* of and the blank are a token each, a word or the digits of a numeral is *)
(* one token.  A parser function takes the line and a position and returns *)
(*   [ok, p, v, errs]                                                      *)
(* what the C++ function returns, where it leaves the pointer, the value   *)
(* and the messages it printed.  Integers have AintBits bits, a byte has   *)
(* ByteBits and an address 2*ByteBits, so that the edges are in reach.     *)
(***************************************************************************)
EXTENDS Reader, Bitwise, TLC

CONSTANTS AintBits, ByteBits,
          Labels,    \* name -> [value, page, phValue, phPage, size, rel]
          Numerals,  \* digits -> [dec, bin, hex]; NoDigits: not in that base
          NoDigits,
          Keywords,
          Memory     \* the device memory the pass sees, address -> byte

ASSUME AintBits \in Nat /\ ByteBits \in Nat /\ 2 * ByteBits < AintBits

-----------------------------------------------------------------------------
(* Machine integers. *)

Wrap(x) ==
    LET m == x % 2^AintBits IN IF m < 2^(AintBits - 1) THEN m ELSE m - 2^AintBits

Unsigned(x) == x % 2^AintBits

MinInt == -(2^(AintBits - 1))

Flag(b) == IF b THEN -1 ELSE 0

(* C's division truncates towards zero; the lowest integer divided by -1
   does not fit and stops the program (SIGFPE on the machines it is built
   for). *)
Quotient(x, y) ==
    LET q == (IF x < 0 THEN -x ELSE x) \div (IF y < 0 THEN -y ELSE y)
    IN  IF (x < 0) = (y < 0) THEN q ELSE -q

(* The count of a shift is taken by the machine modulo the width. *)
ShiftCount(y) == y % AintBits

-----------------------------------------------------------------------------
(* Reading tokens. *)

LABEL_PAGE_UNDEFINED == -1

IsLabelStart(e, p) == At(e.text, p) \in DOMAIN Labels \cup Keywords

-----------------------------------------------------------------------------
(* The levels of the grammar, the tightest first. *)

Levels == <<
    [pairs |-> << <<"*", " ">>, <<"/", " ">>, <<"%", " ">> >>, words |-> [mod |-> "%"]],
    [pairs |-> << <<"+", " ">>, <<"-", " ">> >>,             words |-> <<>>],
    [pairs |-> << <<"<", "<">>, <<">", ">">> >>,             words |-> [shl |-> "<<", shr |-> ">>"]],
    [pairs |-> << <<"<", "?">>, <<">", "?">> >>,             words |-> <<>>],
    [pairs |-> << <<"<", "=">>, <<">", "=">>, <<"<", " ">>, <<">", " ">> >>, words |-> <<>>],
    [pairs |-> << <<"=", "_">>, <<"=", "=">>, <<"!", "=">> >>, words |-> <<>>],
    [pairs |-> << <<"&", "_">> >>,                           words |-> [and |-> "&"]],
    [pairs |-> << <<"^", " ">> >>,                           words |-> [xor |-> "^"]],
    [pairs |-> << <<"|", "_">> >>,                           words |-> [or |-> "|"]],
    [pairs |-> << <<"&", "&">> >>,                           words |-> <<>>],
    [pairs |-> << <<"|", "|">> >>,                           words |-> <<>>] >>

TopLevel == Len(Levels)

(* The value of one operator application and its message. *)
Apply(o, x, y) ==
    LET ux == Unsigned(x)
        uy == Unsigned(y)
        Ok(v) == [v |-> Wrap(v), errs |-> {}]
        Divided(v) == IF y = 0 THEN [v |-> 0, errs |-> {"Division by zero"}]
                      ELSE IF x = MinInt /\ y = -1 THEN [v |-> 0, errs |-> {"SIGFPE"}]
                      ELSE Ok(v)
    IN  CASE o = "*" -> Ok(x * y)
          [] o = "/" -> Divided(IF y = 0 THEN 0 ELSE Quotient(x, y))
          [] o = "%" -> Divided(IF y = 0 THEN 0 ELSE x - y * Quotient(x, y))
          [] o = "+" -> Ok(x + y)
          [] o = "-" -> Ok(x - y)
          [] o = "<<" -> Ok(x * 2^ShiftCount(y))
          [] o = ">>" -> Ok(x \div 2^ShiftCount(y))
          [] o = ">>>" -> Ok(ux \div 2^ShiftCount(y))
          [] o = "<?" -> Ok(IF x < y THEN x ELSE y)
          [] o = ">?" -> Ok(IF x > y THEN x ELSE y)
          [] o = "<" -> Ok(Flag(x < y))
          [] o = ">" -> Ok(Flag(x > y))
          [] o = "<=" -> Ok(Flag(x <= y))
          [] o = ">=" -> Ok(Flag(x >= y))
          [] o \in {"=", "=="} -> Ok(Flag(x = y))
          [] o = "!=" -> Ok(Flag(x # y))
          [] o = "&" -> Ok(ux & uy)
          [] o = "^" -> Ok(ux ^^ uy)
          [] o = "|" -> Ok(ux | uy)
          [] o = "&&" -> Ok(Flag(x # 0 /\ y # 0))
          [] o = "||" -> Ok(Flag(x # 0 \/ y # 0))

ApplyUnary(o, x) ==
    CASE o = "!" -> Flag(x = 0)
      [] o = "~" -> Wrap(-x - 1)
      [] o = "+" -> x
      [] o = "-" -> Wrap(-x)
      [] o = "low" -> x % 2^ByteBits
      [] o = "high" -> (x \div 2^ByteBits) % 2^ByteBits
      [] o = "abs" -> Wrap(IF x < 0 THEN -x ELSE x)
      [] o = "u16" -> x % 2^(2 * ByteBits)

-----------------------------------------------------------------------------
(* The parser.  `e' is the line, the alternative evaluation for relocation
   (areLabelsOffset), and what `$' and `{}' look at. *)

Res(ok, p, v, errs) == [ok |-> ok, p |-> p, v |-> v, errs |-> errs]

(* An unknown label is an error and has the value 0, the parse goes on. *)
LabelRes(e, p, field) ==
    IF At(e.text, p) \in DOMAIN Labels
    THEN LET l == Labels[At(e.text, p)]
             offset == IF field = "value" /\ e.alt /\ l.rel THEN e.offset ELSE 0
         IN  Res(TRUE, p + 1, l[field] + offset, {})
    ELSE Res(TRUE, p + 1, 0, {"Label not found"})

(* The value of digits in the base their prefix selects. *)
Numeral(e, p, base) ==
    LET n == IF At(e.text, p) \in DOMAIN Numerals THEN Numerals[At(e.text, p)][base] ELSE NoDigits
    IN  IF n = NoDigits THEN Res(FALSE, p, 0, {"Digit not in base"})
        ELSE Res(TRUE, p + 1, n, {})

Dollars(e, p, n) == \A i \in 0 .. n - 1 : At(e.text, p + i) = "$"

IsAlnum(e, p) == At(e.text, p) \in DOMAIN Numerals \cup DOMAIN Labels \cup Keywords

SyntaxError(e, p) == Res(FALSE, p, 0, IF e.synerr THEN {"Syntax error"} ELSE {})

RECURSIVE ParseExp(_, _, _)

ParseExpressionEntry(e, p) ==
    LET Zeroed(r) == IF r.ok THEN r ELSE [r EXCEPT !.v = 0] IN Zeroed(ParseExp(e, p, TopLevel))

Parenthesised(e, p) ==
    LET Closed(r) == IF Has(e.text, r.p, ")") THEN [r EXCEPT !.p = Past(e.text, r.p)]
                     ELSE Res(FALSE, r.p, r.v, r.errs \cup {"')' expected"})
    IN  Closed(ParseExpressionEntry(e, p + 1))

(* What stands at the address that `r' gives, one byte or two. *)
MemoryAt(e, r, byteOnly) ==
    IF ~r.ok THEN Res(FALSE, r.p, r.v, r.errs)
    ELSE IF ~Has(e.text, r.p, "}") THEN Res(FALSE, r.p, r.v, r.errs \cup {"'}' expected"})
    ELSE IF r.v \notin 0 .. 2^(2 * ByteBits) - (IF byteOnly THEN 1 ELSE 2)
    THEN Res(TRUE, Past(e.text, r.p), 0, r.errs \cup {"Address in {..}"})
    ELSE Res(TRUE, Past(e.text, r.p),
             Memory[r.v] + (IF byteOnly THEN 0 ELSE Memory[r.v + 1] * 2^ByteBits), r.errs)

ReadMemory(e, p) ==
    LET byteOnly == cmphstr(e.text, p + 1, "b", FALSE)
    IN  MemoryAt(e, ParseExpressionEntry([e EXCEPT !.alt = FALSE], IF byteOnly THEN p + 2 ELSE p + 1), byteOnly)

Operand(e, p, t) ==
    CASE t = "" -> Res(FALSE, p, 0, {})
      [] t = "(" -> Parenthesised(e, p)
      [] e.device /\ t = "{" -> ReadMemory(e, p)
      [] t \in DOMAIN Numerals -> Numeral(e, p, "dec")
      [] t \in {"#", "$"} /\ IsAlnum(e, p + 1) -> Numeral(e, p + 1, "hex")
      [] t = "%" -> Numeral(e, p + 1, "bin")
      [] IsLabelStart(e, p) -> LabelRes(e, p, "value")
      [] t = "?" /\ IsLabelStart(e, p + 1) -> LabelRes(e, p + 1, "value")
      [] Dollars(e, p, 4) /\ IsLabelStart(e, p + 4) -> LabelRes(e, p + 4, "phPage")
      [] Dollars(e, p, 3) /\ IsLabelStart(e, p + 3) -> LabelRes(e, p + 3, "phValue")
      [] e.disp # "NONE" /\ Dollars(e, p, 4) ->
           Res(TRUE, p + 4, IF e.device THEN e.pageNum ELSE LABEL_PAGE_UNDEFINED, {})
      [] e.disp # "NONE" /\ Dollars(e, p, 3) /\ ~Dollars(e, p, 4) -> Res(TRUE, p + 3, e.adrdisp, {})
      [] OTHER ->
         IF e.device /\ Dollars(e, p, 2)
         THEN IF IsLabelStart(e, p + 2) THEN LabelRes(e, p + 2, "page")
              ELSE Res(TRUE, p + 2, IF e.disp # "NONE" /\ e.dispPage # LABEL_PAGE_UNDEFINED
                                    THEN e.dispPage ELSE e.pageNum, {})
         ELSE IF t = "$"
         THEN Res(TRUE, p + 1, e.address + (IF e.alt /\ e.disp # "INSIDE_RELOCATE"
                                            THEN e.offset ELSE 0), {})
         ELSE SyntaxError(e, p)

ParseExpPrim(e, p0) ==
    LET At_p(p) == Operand(e, p, At(e.text, p)) IN At_p(SkipBlanks(e.text, p0))

(* exist and sizeof take a label, in parentheses or not. *)
Exists(name) == Flag(name \in DOMAIN Labels)
SizeOf(name) == IF name \in DOMAIN Labels THEN Labels[name].size ELSE 0

LabelOperator(e, p, oper) ==
    LET open == Has(e.text, p, "(")
        q == IF open THEN SkipBlanks(e.text, Past(e.text, p)) ELSE SkipBlanks(e.text, p)
        ok == IsLabelStart(e, q) /\ (open => Has(e.text, q + 1, ")"))
        name == At(e.text, q)
    IN  Res(ok, IF open THEN Past(e.text, q + 1) ELSE q + 1,
            IF ~ok THEN 0 ELSE IF oper = "exist" THEN Exists(name) ELSE SizeOf(name), {})

(* Two bytes in parentheses; where one is missing the whole is an error. *)
Pair(e, p) ==
    LET Failed(errs) == Res(FALSE, p - 1, 0, errs)
        B == 2^ByteBits
        Both(h, l) == IF l.ok /\ Has(e.text, l.p, ")")
                      THEN Res(TRUE, Past(e.text, l.p), (h.v % B) * B + (l.v % B), h.errs \cup l.errs)
                      ELSE Failed(h.errs \cup l.errs)
        First(h) == IF h.ok /\ Has(e.text, h.p, ",") THEN Both(h, ParseExpressionEntry(e, Past(e.text, h.p)))
                    ELSE Failed(h.errs)
    IN  IF Has(e.text, p, "(") THEN First(ParseExpressionEntry(e, Past(e.text, p))) ELSE Failed({})

UnaryPairs == << <<"!", " ">>, <<"~", " ">>, <<"+", " ">>, <<"-", " ">> >>
UnaryWords == [not |-> "!", low |-> "low", high |-> "high", abs |-> "abs", u16 |-> "u16"]

RECURSIVE ParseExpUnair(_, _)

(* A unary operator `n', or none of them: an operand. *)
Unary(e, p, n) ==
    LET Applied(x) == IF x.ok THEN [x EXCEPT !.v = ApplyUnary(n.oper, x.v)] ELSE x
    IN  IF n.oper = "" THEN ParseExpPrim(e, p) ELSE Applied(ParseExpUnair(e, n.p))

(* A label may have the name of an operator: where the operator's operand
   is missing (`r' is no success), the word is tried as one. *)
OrLabel(e, p, r) ==
    IF r.ok THEN r
    ELSE LET With(x) == [x EXCEPT !.errs = @ \cup r.errs]
         IN  With(Unary(e, p, needOr(e.text, p, UnaryPairs, UnaryWords)))

UnaryAt(e, p) ==
    CASE cmphstr(e.text, p, "norel", TRUE) -> OrLabel(e, p, ParseExpPrim([e EXCEPT !.alt = FALSE], p + 1))
      [] cmphstr(e.text, p, "exist", TRUE) -> OrLabel(e, p, LabelOperator(e, p + 1, "exist"))
      [] cmphstr(e.text, p, "sizeof", TRUE) -> OrLabel(e, p, LabelOperator(e, p + 1, "sizeof"))
      [] cmphstr(e.text, p, "pair", TRUE) -> Pair(e, p + 1)
      [] OTHER -> Unary(e, p, needOr(e.text, p, UnaryPairs, UnaryWords))

ParseExpUnair(e, p) == UnaryAt(e, SkipBlanks(e.text, p))

RECURSIVE Operands(_, _, _)
(* ">>" followed by ">" is the unsigned shift. *)
(* Mutant: the third character of ">>>" is not looked at. *)
LevelOperator_short(e, p, k) == needOr(e.text, p, Levels[k].pairs, Levels[k].words)

LevelOperator(e, p, k) ==
    LET Third(n) == IF n.oper = ">>" /\ At(e.text, n.p) = ">" THEN [oper |-> ">>>", p |-> n.p + 1] ELSE n
    IN  Third(needOr(e.text, p, Levels[k].pairs, Levels[k].words))

(* The while of a level: the operators of level k are applied to `left'
   from left to right. *)
Applied(left, o, right) ==
    LET Result(a) == Res(TRUE, right.p, a.v, left.errs \cup right.errs \cup a.errs)
    IN  Result(Apply(o, left.v, right.v))
Operands(e, k, left) ==
    LET Rest(o, right) == IF ~right.ok THEN [right EXCEPT !.errs = @ \cup left.errs]
                          ELSE Operands(e, k, Applied(left, o, right))
        From(n) == IF n.oper = "" THEN [left EXCEPT !.p = n.p] ELSE Rest(n.oper, ParseExp(e, n.p, k - 1))
    IN  From(LevelOperator(e, left.p, k))

ParseExp(e, p, k) ==
    LET From(left) == IF left.ok THEN Operands(e, k, left) ELSE left
    IN  IF k = 0 THEN ParseExpUnair(e, p) ELSE From(ParseExp(e, p, k - 1))

(* With relocation the line is evaluated twice, the first time silently and
   with moved labels, and the difference of the two values classified. *)
Classified(e, moved, r) ==
    LET both == e.reloc # "OFF" /\ moved.ok /\ r.ok
        d == moved.v - r.v
    IN  r @@ [affected |-> both /\ d # 0,
              delta |-> IF ~both THEN "OFF"
                        ELSE IF d = e.offset THEN "REGULAR"
                        ELSE IF e.reloc = "HIGH" /\ d = e.offset \div 2^ByteBits THEN "HIGH"
                        ELSE "OFF"]

ParseExpression(e, p) ==
    Classified(e, ParseExpressionEntry([e EXCEPT !.alt = TRUE, !.synerr = FALSE], p),
               ParseExpressionEntry([e EXCEPT !.alt = FALSE], p))

-----------------------------------------------------------------------------
(* Memory access. *)

(* 0: syntax error, 1: a value, 2: the whole expression is in brackets. *)
AccessKind(e, p, r) ==
    IF ~r.ok THEN 0
    ELSE IF At(e.text, p) = "(" /\ e.memoryBrackets # 2 THEN IF ParenthesesEnd(e.text, p) = r.p THEN 2 ELSE 1
    ELSE IF At(e.text, p) = "[" THEN IF Has(e.text, r.p, "]") THEN 2 ELSE 0
    ELSE 1

MemAccessAt(e, p) ==
    LET square == At(e.text, p) = "["
        Access(r, kind) == [r EXCEPT !.p = IF square /\ kind = 2 THEN Past(e.text, r.p) ELSE @] @@ [kind |-> kind]
        Of(r) == Access(r, AccessKind(e, p, r))
    IN  Of(ParseExpression(e, IF square THEN p + 1 ELSE p))

ParseExpressionMemAccess(e, p) == MemAccessAt(e, SkipBlanks(e.text, p))
=============================================================================
