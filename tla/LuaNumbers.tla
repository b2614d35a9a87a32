----------------------------- MODULE LuaNumbers -----------------------------
(***************************************************************************)
(* The numbers of the bundled Lua (lvm.c): integers of W bits that wrap,     *)
(* floats of NBM bits of mantissa that round, their comparison with each     *)
(* other, division, shifts, and the numerical for loop, whose integer        *)
(* variant counts its rounds in advance.                                     *)
(*                                                                           *)
(* A value is [t, v]: "int" with the integer v; "flt" with v halves, so that *)
(* fractions exist; "nan"; "str", the numeral of the integer v; and "none",  *)
(* which is no number.                                                       *)
(***************************************************************************)
EXTENDS Integers, Sequences, FiniteSets, FiniteSetsExt

CONSTANTS
  W,              \* 64 in the code: bits of a lua_Integer
  NBM,            \* 53 in the code: bits of the mantissa of a lua_Number
  Exponents,      \* bound: exponents of floats, in halves
  ForValues,      \* bound: values a loop is written with
  NumericOperands \* bound: numbers that are compared and divided

ASSUME NumbersAssumption == W \in Nat /\ NBM \in 1 .. W /\ Exponents \subseteq Nat

VARIABLE num   \* the loop or the operation

numVars == <<num>>

LUA_MININTEGER == -(2 ^ (W - 1))
LUA_MAXINT == 2 ^ (W - 1) - 1
l_castS2U(i) == i % 2 ^ W
l_castU2S(u) == IF u > LUA_MAXINT THEN u - 2 ^ W ELSE u
intop(i) == l_castU2S(l_castS2U(i))

\* Infinity, in halves: above every float and every integer
Inf == 2 ^ (W + 3)
Floats == {m * 2 ^ e : m \in (1 - 2 ^ NBM) .. (2 ^ NBM - 1), e \in Exponents} \cup {Inf, -Inf}
Abs(x) == IF x < 0 THEN -x ELSE x

\* A sum or an integer as a float: the nearest one, the even one of two
Rounded(x) ==
  LET fits == {e \in Exponents : Abs(x) < 2 ^ (NBM + e)}
      unit == 2 ^ Min(fits)
      rest == Abs(x) % unit
      m == Abs(x) \div unit
      up == 2 * rest > unit \/ (2 * rest = unit /\ m % 2 = 1)
      f == (IF up THEN m + 1 ELSE m) * unit
      size == IF fits = {} \/ f >= 2 ^ (NBM + Max(Exponents)) THEN Inf ELSE f
  IN  IF x < 0 THEN -size ELSE size
cast_num(i) == Rounded(2 * i)

I(i) == [t |-> "int", v |-> i]
F(f) == [t |-> "flt", v |-> f]
NaN == [t |-> "nan", v |-> 0]

luai_numlt(a, b) == "nan" \notin {a.t, b.t} /\ a.v < b.v
luai_numle(a, b) == "nan" \notin {a.t, b.t} /\ a.v <= b.v
luai_numadd(a, b) ==
  IF "nan" \in {a.t, b.t} \/ {a.v, b.v} = {Inf, -Inf} THEN NaN
  ELSE F(IF a.v \in {Inf, -Inf} THEN a.v ELSE IF b.v \in {Inf, -Inf} THEN b.v ELSE Rounded(a.v + b.v))
-----------------------------------------------------------------------------
(* Conversions and comparisons                                             *)

Failed == [ok |-> FALSE, v |-> 0]
Converted(i) == [ok |-> TRUE, v |-> i]

luaV_flttointeger(n, mode) ==
  LET floor == IF n.v \in {Inf, -Inf} THEN n.v ELSE 2 * (n.v \div 2)
      f == IF n.v # floor /\ mode = "ceil" THEN floor + 2 ELSE floor
  IN  IF n.t = "nan" \/ (n.v # floor /\ mode = "eq") \/ f < 2 * LUA_MININTEGER \/ f >= -2 * LUA_MININTEGER
      THEN Failed ELSE Converted(f \div 2)

luaV_tointeger(x, mode) ==
  CASE x.t \in {"int", "str"} -> Converted(x.v)
    [] x.t \in {"flt", "nan"} -> luaV_flttointeger(x, mode)
    [] OTHER -> Failed

tonumber(x) == IF x.t \in {"int", "str"} THEN F(cast_num(x.v)) ELSE x
IsNumber(x) == x.t # "none"

l_intfitsf(i) == l_castS2U(2 ^ NBM + i) <= 2 * 2 ^ NBM

LTintfloat(i, f) ==
  LET fi == luaV_flttointeger(f, "ceil")
  IN  IF l_intfitsf(i) THEN luai_numlt(F(cast_num(i)), f)
      ELSE IF fi.ok THEN i < fi.v ELSE luai_numlt(F(0), f)

LEintfloat(i, f) ==
  LET fi == luaV_flttointeger(f, "floor")
  IN  IF l_intfitsf(i) THEN luai_numle(F(cast_num(i)), f)
      ELSE IF fi.ok THEN i <= fi.v ELSE luai_numlt(F(0), f)

LTfloatint(f, i) ==
  LET fi == luaV_flttointeger(f, "floor")
  IN  IF l_intfitsf(i) THEN luai_numlt(f, F(cast_num(i)))
      ELSE IF fi.ok THEN fi.v < i ELSE luai_numlt(f, F(0))

\* A mutant: the integer is compared as a float.
LEfloatint_cast(f, i) == luai_numle(f, F(cast_num(i)))

LEfloatint(f, i) ==
  LET fi == luaV_flttointeger(f, "ceil")
  IN  IF l_intfitsf(i) THEN luai_numle(f, F(cast_num(i)))
      ELSE IF fi.ok THEN fi.v <= i ELSE luai_numlt(f, F(0))

LTnum(l, r) ==
  CASE l.t = "int" /\ r.t = "int" -> l.v < r.v
    [] l.t = "int" /\ r.t # "int" -> LTintfloat(l.v, r)
    [] l.t # "int" /\ r.t = "int" -> LTfloatint(l, r.v)
    [] OTHER -> luai_numlt(l, r)

LEnum(l, r) ==
  CASE l.t = "int" /\ r.t = "int" -> l.v <= r.v
    [] l.t = "int" /\ r.t # "int" -> LEintfloat(l.v, r)
    [] l.t # "int" /\ r.t = "int" -> LEfloatint(l, r.v)
    [] OTHER -> luai_numle(l, r)

luaV_equalobj(l, r) ==
  LET int == IF l.t = "int" THEN l ELSE r
      fi == luaV_flttointeger(IF l.t = "int" THEN r ELSE l, "eq")
  IN  CASE l.t = "int" /\ r.t = "int" -> l.v = r.v
        [] l.t # "int" /\ r.t # "int" -> luai_numle(l, r) /\ luai_numle(r, l)
        [] OTHER -> fi.ok /\ fi.v = int.v
-----------------------------------------------------------------------------
(* Integer arithmetic; C divides towards zero.                             *)

Quotient(m, n) == (IF (m < 0) = (n < 0) THEN 1 ELSE -1) * (Abs(m) \div Abs(n))
Remainder(m, n) == m - n * Quotient(m, n)

luaV_idiv(m, n) ==
  IF l_castS2U(l_castS2U(n) + 1) <= 1 THEN (IF n = 0 THEN Failed ELSE Converted(intop(-m)))
  ELSE Converted(Quotient(m, n) - (IF (m < 0) # (n < 0) /\ Remainder(m, n) # 0 THEN 1 ELSE 0))

luaV_mod(m, n) ==
  LET r == Remainder(m, n)
  IN  IF l_castS2U(l_castS2U(n) + 1) <= 1 THEN (IF n = 0 THEN Failed ELSE Converted(0))
      ELSE Converted(IF r # 0 /\ (r < 0) # (n < 0) THEN r + n ELSE r)

luaV_shiftl(x, y) ==
  IF y < 0 THEN (IF y <= -W THEN 0 ELSE l_castU2S(l_castS2U(x) \div 2 ^ (-y)))
  ELSE IF y >= W THEN 0 ELSE intop(l_castS2U(x) * 2 ^ y)
-----------------------------------------------------------------------------
(* The for loop                                                            *)

\* Answers whether the loop must not run, and the limit as an integer.
forlimit(init, lim, step) ==
  LET c == luaV_tointeger(lim, IF step < 0 THEN "ceil" ELSE "floor")
      positive == luai_numlt(F(0), tonumber(lim))
      p == IF c.ok THEN c.v ELSE IF positive THEN LUA_MAXINT ELSE LUA_MININTEGER
  IN  [skip |-> \/ ~c.ok /\ (IF positive THEN step < 0 ELSE step > 0)
                \/ (IF step > 0 THEN init > p ELSE init < p),
       p |-> p]

\* The rounds after the first one, as an unsigned number
ForCount(init, limit, step) ==
  IF step > 0 THEN l_castS2U(limit - init) \div step
  ELSE l_castS2U(init - limit) \div (l_castS2U(-(step + 1)) + 1)

IntegerLoop(c) == c.init.t = "int" /\ c.step.t = "int"

forprep ==
  /\ num.pc = "prep"
  /\ LET c == num.code
         l == forlimit(c.init.v, c.limit, c.step.v)
         f == [x \in {"init", "limit", "step"} |-> tonumber(c[x])]
     IN  num' =
       IF IntegerLoop(c)
       THEN IF c.step.v = 0 \/ (c.limit.t = "none") THEN [num EXCEPT !.pc = "error"]
            ELSE IF l.skip THEN [num EXCEPT !.pc = "done"]
            ELSE [num EXCEPT !.pc = "body", !.count = ForCount(c.init.v, l.p, c.step.v), !.idx = c.init, !.rounds = 1]
       ELSE IF \E x \in DOMAIN f : ~IsNumber(c[x]) \/ (x = "step" /\ f[x] = F(0)) THEN [num EXCEPT !.pc = "error"]
            ELSE IF (IF luai_numlt(F(0), f.step) THEN luai_numlt(f.limit, f.init) ELSE luai_numlt(f.init, f.limit))
            THEN [num EXCEPT !.pc = "done"]
            ELSE [num EXCEPT !.pc = "body", !.idx = f.init, !.rounds = 1]

IntegerRound ==
  /\ num.pc = "body" /\ IntegerLoop(num.code)
  /\ num' = IF num.count > 0
            THEN [num EXCEPT !.count = @ - 1, !.idx = I(intop(@.v + num.code.step.v)), !.rounds = @ + 1]
            ELSE [num EXCEPT !.pc = "done"]

floatforloop ==
  /\ num.pc = "body" /\ ~IntegerLoop(num.code)
  /\ LET step == tonumber(num.code.step)
         limit == tonumber(num.code.limit)
         idx == luai_numadd(num.idx, step)
     IN  num' = IF IF luai_numlt(F(0), step) THEN luai_numle(idx, limit) ELSE luai_numle(limit, idx)
                THEN [num EXCEPT !.idx = idx] ELSE [num EXCEPT !.pc = "done"]

\* An operation on two numbers
Operation ==
  /\ num.pc = "operation"
  /\ num' = [pc |-> "answered", l |-> num.l, r |-> num.r,
             lt |-> LTnum(num.l, num.r), le |-> LEnum(num.l, num.r), eq |-> luaV_equalobj(num.l, num.r),
             ints |-> IF {num.l.t, num.r.t} = {"int"}
                      THEN [idiv |-> luaV_idiv(num.l.v, num.r.v), mod |-> luaV_mod(num.l.v, num.r.v),
                            shl |-> luaV_shiftl(num.l.v, num.r.v)]
                      ELSE [idiv |-> Failed, mod |-> Failed, shl |-> 0]]

NumInit ==
  \/ num \in [pc : {"prep"}, code : [init : ForValues, limit : ForValues, step : ForValues], count : {0}, idx : {I(0)}, rounds : {0}]
  \/ num \in [pc : {"operation"}, l : NumericOperands, r : NumericOperands]

NumNext == forprep \/ IntegerRound \/ floatforloop \/ Operation
-----------------------------------------------------------------------------
(* What the numbers mean                                                   *)

Twice(x) == IF x.t \in {"int", "str"} THEN 2 * x.v ELSE x.v

\* An integer loop visits init, init + step, ... as far as the limit and no
\* further, without ever wrapping around (forprep counts with unsigned numbers,
\* OP_FORLOOP adds without a check); a float loop never leaves its limit.
LoopsVisitTheirRange ==
  num.pc \in {"body", "done"} /\ num.code.limit.t # "nan" =>
    LET c == num.code
        Inside(x) == IF c.step.v > 0 THEN x <= Twice(c.limit) ELSE x >= Twice(c.limit)
    IN  IF IntegerLoop(c)
        THEN /\ num.pc = "body" =>
                  Inside(2 * num.idx.v) /\ num.idx.v = c.init.v + (num.rounds - 1) * c.step.v
             /\ num.pc = "done" =>
                  LET next == c.init.v + num.rounds * c.step.v
                  IN  ~Inside(2 * next) \/ next \notin LUA_MININTEGER .. LUA_MAXINT
        ELSE num.pc = "body" /\ "nan" \notin {c.init.t, c.step.t} =>
               IF luai_numlt(F(0), tonumber(c.step)) THEN luai_numle(num.idx, tonumber(c.limit))
               ELSE luai_numle(tonumber(c.limit), num.idx)

\* Integers and floats compare as the numbers they are, and division rounds down
\* (LTnum, LEnum, luaV_equalobj, luaV_idiv, luaV_mod, luaV_shiftl).
OperationsAreExact ==
  num.pc = "answered" =>
    LET comparable == "nan" \notin {num.l.t, num.r.t}
        m == num.l.v
        n == num.r.v
        floor == IF n > 0 THEN m \div n ELSE (-m) \div (-n)
    IN  /\ num.lt = (comparable /\ Twice(num.l) < Twice(num.r))
        /\ num.le = (comparable /\ Twice(num.l) <= Twice(num.r))
        /\ num.eq = (comparable /\ Twice(num.l) = Twice(num.r))
        /\ {num.l.t, num.r.t} = {"int"} =>
             /\ num.ints.idiv.ok = (n # 0) /\ num.ints.mod.ok = (n # 0)
             /\ n # 0 => num.ints.idiv.v = intop(floor) /\ num.ints.mod.v = m - n * floor
             /\ num.ints.shl = IF n >= 0 THEN intop(m * 2 ^ n) ELSE l_castU2S(l_castS2U(m) \div 2 ^ (-n))

NumbersAreExact == LoopsVisitTheirRange /\ OperationsAreExact
=============================================================================
