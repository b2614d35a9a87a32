----------------------------- MODULE LuaLibrary -----------------------------
(***************************************************************************)
(* Two functions of the bundled Lua's libraries whose callers can break       *)
(* their assumptions: table.sort, which relies on the order function of the  *)
(* script (ltablib.c), and string.pack with its inverse, which rely on a     *)
(* format and on data (lstrlib.c).                                           *)
(*                                                                           *)
(* sort takes one step per comparison; the answer of the order function is   *)
(* either the order of the values or anything.  pack and unpack take one     *)
(* step per option of the format.                                            *)
(***************************************************************************)
EXTENDS Integers, Sequences, FiniteSets, SequencesExt

CONSTANTS
  Arrays,        \* bound: [a |-> values to sort, order |-> "less" or "any"]
  RANLIMIT,      \* 100 in the code
  Imbalance,     \* 128 in the code
  NB,            \* 8 in the code: bits of a byte
  SZINT,         \* 8 in the code: bytes of a lua_Integer
  MAXINTSIZE,    \* 16 in the code
  SizeOf,        \* sizes of the native types, by option
  NativeAlign,   \* offset of the most aligned type in a structure
  MAX_SIZE,      \* bound: longest string
  Formats,       \* bound: formats, as sequences of [o, n]
  PackInts, PackStrings, PackData   \* bound: arguments of pack and unpack

VARIABLES srt, pk

sortVars == <<srt>>
packVars == <<pk>>
-----------------------------------------------------------------------------
(* table.sort.  frames holds the calls of auxsort, the running one last.     *)

IdxRange == 2 ^ 20   \* indices are unsigned

Nil == -1
geti(a, i) == IF i \in DOMAIN a THEN a[i] ELSE Nil
seti(a, i, v) == [k \in DOMAIN a \cup {i} |-> IF k = i THEN v ELSE a[k]]
set2(a, i, v, j, w) == seti(seti(a, i, v), j, w)
Swap(a, i, j) == set2(a, i, geti(a, j), j, geti(a, i))

\* What the order function may answer to v < w
sort_comp(v, w) == IF srt.order = "any" THEN BOOLEAN ELSE {v < w}

frame == Last(srt.frames)
Returned(s) ==
  IF Len(s.frames) = 1 THEN [s EXCEPT !.pc = "sorted"]
  ELSE [s EXCEPT !.frames = Front(@), !.pc = "balance"]

choosePivot(lo, up) == LET r4 == (up - lo) \div 4 IN {r + lo + r4 : r \in 0 .. (2 * r4 - 1)}

Pivots(f) ==
  IF f.up - f.lo < RANLIMIT \/ f.rnd = 0 THEN {(f.lo + f.up) \div 2} ELSE choosePivot(f.lo, f.up)

\* while (lo < up): the ends are put in order
auxsort ==
  /\ srt.pc = "loop"
  /\ LET lo == frame.lo
         up == frame.up
     IN  IF lo >= up THEN srt' = Returned(srt)
         ELSE \E less \in sort_comp(geti(srt.a, up), geti(srt.a, lo)), p \in Pivots(frame) :
                LET s == [srt EXCEPT !.a = IF less THEN Swap(@, lo, up) ELSE @]
                IN  srt' = IF up - lo = 1 THEN Returned(s) ELSE [s EXCEPT !.pc = "middle", !.p = p]

\* The pivot goes to up - 1 and the partition begins.
Partition(s) ==
  IF frame.up - frame.lo = 2 THEN Returned(s)
  ELSE [s EXCEPT !.pc = "up", !.pivot = geti(s.a, s.p), !.a = Swap(@, s.p, frame.up - 1),
                 !.i = frame.lo, !.j = frame.up - 1]

Middle ==
  /\ srt.pc = "middle"
  /\ \E less \in sort_comp(geti(srt.a, srt.p), geti(srt.a, frame.lo)) :
       srt' = IF less THEN Partition([srt EXCEPT !.a = Swap(@, srt.p, frame.lo)])
              ELSE [srt EXCEPT !.pc = "median"]

Median ==
  /\ srt.pc = "median"
  /\ \E less \in sort_comp(geti(srt.a, frame.up), geti(srt.a, srt.p)) :
       srt' = Partition(IF less THEN [srt EXCEPT !.a = Swap(@, srt.p, frame.up)] ELSE srt)

Ascend ==
  /\ srt.pc = "up"
  /\ LET i == srt.i + 1
     IN  \E less \in sort_comp(geti(srt.a, i), srt.pivot) :
           srt' = [srt EXCEPT !.i = i,
                     !.pc = IF ~less THEN "down" ELSE IF i = frame.up - 1 THEN "invalid order" ELSE "up"]

\* The recursive call takes the smaller part, the loop goes on with the other.
Split(s, p) ==
  LET f == frame
      lower == [lo |-> f.lo, up |-> p - 1, rnd |-> f.rnd, n |-> 0]
      upper == [lo |-> p + 1, up |-> f.up, rnd |-> f.rnd, n |-> 0]
      rest == IF p - f.lo < f.up - p THEN [upper EXCEPT !.n = p - f.lo] ELSE [lower EXCEPT !.n = f.up - p]
      smaller == IF p - f.lo < f.up - p THEN lower ELSE upper
  IN  [s EXCEPT !.pc = "loop", !.frames = Append(Append(Front(@), rest), smaller)]

\* A mutant: the recursive call always takes the lower part.
Split_lower(s, p) ==
  LET f == frame
  IN  [s EXCEPT !.pc = "loop",
         !.frames = Front(@) \o <<[lo |-> p + 1, up |-> f.up, rnd |-> f.rnd, n |-> p - f.lo],
                                  [lo |-> f.lo, up |-> p - 1, rnd |-> f.rnd, n |-> 0]>>]

Descend ==
  /\ srt.pc = "down"
  /\ LET j == srt.j - 1
         i == srt.i
         s == [srt EXCEPT !.j = j]
     IN  \E less \in sort_comp(srt.pivot, geti(srt.a, j)) :
           srt' = IF less THEN (IF j < i THEN [s EXCEPT !.pc = "invalid order"] ELSE s)
                  ELSE IF j < i
                  THEN Split([s EXCEPT !.a = set2(@, frame.up - 1, geti(@, i), i, srt.pivot)], i)
                  ELSE [s EXCEPT !.pc = "up", !.a = Swap(@, i, j)]

\* Back in the caller: a bad partition makes the next pivots random.
Rebalance ==
  /\ srt.pc = "balance"
  /\ \E rnd \in IF ((frame.up - frame.lo) % IdxRange) \div Imbalance > frame.n THEN {0, 1} ELSE {frame.rnd} :
       srt' = [srt EXCEPT !.frames[Len(srt.frames)].rnd = rnd, !.pc = "loop"]

sort(x) ==
  [a |-> x.a, order |-> x.order, given |-> x.a, pc |-> IF Len(x.a) > 1 THEN "loop" ELSE "sorted",
   frames |-> <<[lo |-> 1, up |-> Len(x.a), rnd |-> 0, n |-> 0]>>, p |-> 0, pivot |-> Nil, i |-> 1, j |-> 1]

SortInit == \E x \in Arrays : srt = sort(x)
SortNext == auxsort \/ Middle \/ Median \/ Ascend \/ Descend \/ Rebalance

\* Whatever the order function of the script answers, sort stays inside the part
\* it works on, keeps every value and recurses to a depth of log2 n; with an
\* order that is one, it does sort and never calls the order invalid (ltablib.c).
SortIsSafe ==
  LET n == Len(srt.given)
      Count(a, v) == Cardinality({k \in DOMAIN a : a[k] = v})
      Inside(k) == k \in frame.lo .. frame.up
  IN  /\ DOMAIN srt.a = 1 .. n
      /\ \A k \in 1 .. n : Count(srt.a, srt.given[k]) = Count(srt.given, srt.given[k])
      /\ srt.pc \in {"up", "down", "invalid order"} => Inside(srt.i) /\ Inside(srt.j)
      /\ srt.pc \in {"middle", "median"} => Inside(srt.p)
      /\ 2 ^ (Len(srt.frames) - 1) <= n \/ n = 0
      /\ srt.order = "less" =>
           /\ srt.pc # "invalid order"
           /\ srt.pc = "sorted" => \A k \in 1 .. (n - 1) : srt.a[k] <= srt.a[k + 1]
-----------------------------------------------------------------------------
(* string.pack, string.packsize and string.unpack                          *)

MC == 2 ^ NB - 1
NoNumber == -1
Pow(k) == 2 ^ (NB * k)
islittle == TRUE   \* nativeendian

initheader == [little |-> islittle, maxalign |-> 1]

Refused(h, why) == [k |-> "error", size |-> 0, h |-> h, why |-> why]
Option(h, k, size) == [k |-> k, size |-> size, h |-> h, why |-> ""]

getnumlimit(f, df) == IF f.n = NoNumber THEN df ELSE f.n

getoption(h, f) ==
  LET sized == getnumlimit(f, SizeOf[IF f.o = "s" THEN "T" ELSE "i"])
      limited == sized \in 1 .. MAXINTSIZE
  IN  CASE f.o \in {"b", "h", "l", "j"} -> Option(h, "int", SizeOf[f.o])
        [] f.o \in {"B", "H", "L", "J", "T"} -> Option(h, "uint", SizeOf[f.o])
        [] f.o \in {"f", "n", "d"} -> Option(h, "float", SizeOf[f.o])
        [] f.o \in {"i", "I", "s"} ->
             IF ~limited THEN Refused(h, "format")
             ELSE Option(h, CASE f.o = "i" -> "int" [] f.o = "I" -> "uint" [] OTHER -> "string", sized)
        [] f.o = "c" -> IF f.n = NoNumber THEN Refused(h, "format") ELSE Option(h, "char", f.n)
        [] f.o = "z" -> Option(h, "zstr", 0)
        [] f.o = "x" -> Option(h, "padding", 1)
        [] f.o = "X" -> Option(h, "paddalign", 0)
        [] f.o \in {"<", ">", "="} ->
             Option([h EXCEPT !.little = CASE f.o = "<" -> TRUE [] f.o = ">" -> FALSE [] OTHER -> islittle], "nop", 0)
        [] f.o = "!" ->
             LET a == getnumlimit(f, NativeAlign)
             IN  IF a \in 1 .. MAXINTSIZE THEN Option([h EXCEPT !.maxalign = a], "nop", 0) ELSE Refused(h, "format")
        [] f.o = " " -> Option(h, "nop", 0)
        [] OTHER -> Refused(h, "format")

ispow2(n) == \E e \in 0 .. n : n = 2 ^ e

\* The size by which an option is aligned: "X" takes the one of the option
\* that follows it
Aligned(o, h, size, total, next) ==
  LET align == IF size > o.h.maxalign THEN o.h.maxalign ELSE size
      free == size <= 1 \/ o.k = "char"
      bad == o.k = "error" \/ (~free /\ ~ispow2(align))
  IN  [k |-> IF bad THEN "error" ELSE o.k, size |-> o.size, next |-> next, h |-> h,
       toalign |-> IF free \/ bad THEN 0 ELSE (align - (total % align)) % align]

\* The option `o' at i of the format, the bytes that align it and the next option
detailsof(o, total, fmt, i) ==
  LET Following(next) ==
        IF i = Len(fmt) \/ next.k \in {"char", "error"} \/ next.size = 0
        THEN Aligned([o EXCEPT !.k = "error"], o.h, o.size, total, i + 2)
        ELSE Aligned(o, next.h, next.size, total, i + 2)
  IN  IF o.k = "paddalign" THEN Following(IF i = Len(fmt) THEN o ELSE getoption(o.h, fmt[i + 1]))
      ELSE Aligned(o, o.h, o.size, total, i + 1)

getdetails(h, total, fmt, i) == detailsof(getoption(h, fmt[i]), total, fmt, i)

\* Bytes in the order of the header
Ordered(bytes, little) == IF little THEN bytes ELSE Reverse(bytes)

packint(n, little, size, neg) ==
  Ordered([k \in 1 .. size |-> IF neg /\ k > SZINT THEN MC ELSE ((n % Pow(SZINT)) \div Pow(k - 1)) % 2 ^ NB], little)

\* A mutant: no sign beyond the size of a Lua integer
packint_short(n, little, size, neg) ==
  Ordered([k \in 1 .. size |-> ((n % Pow(SZINT)) \div Pow(k - 1)) % 2 ^ NB], little)

copywithendian(bytes, little) == IF little = islittle THEN bytes ELSE Reverse(bytes)

Zeros(n) == [k \in 1 .. n |-> 0]

\* The checks of a value by its option
Overflows(d, v) ==
  CASE d.k = "int" -> d.size < SZINT /\ ~(-(Pow(d.size) \div 2) <= v /\ v < Pow(d.size) \div 2)
    [] d.k = "uint" -> d.size < SZINT /\ ~(v % Pow(SZINT) < Pow(d.size))
    [] d.k = "char" -> Len(v) > d.size
    [] d.k = "string" -> d.size < SZINT /\ Len(v) >= Pow(d.size)
    [] d.k = "zstr" -> \E j \in DOMAIN v : v[j] = 0
    [] OTHER -> FALSE

\* The bytes an option adds for a value
Packed(d, v) ==
  CASE d.k = "int" -> packint(v, d.h.little, d.size, v < 0)
    [] d.k = "uint" -> packint(v, d.h.little, d.size, FALSE)
    [] d.k = "float" -> copywithendian(v, d.h.little)
    [] d.k = "char" -> v \o Zeros(d.size - Len(v))
    [] d.k = "string" -> packint(Len(v), d.h.little, d.size, FALSE) \o v
    [] d.k = "zstr" -> Append(v, 0)
    [] OTHER -> Zeros(d.size)

Valued == {"int", "uint", "float", "char", "string", "zstr"}
ArgumentsFor(k, size) ==
  CASE k \in {"int", "uint"} -> PackInts
    [] k = "float" -> {[j \in 1 .. size |-> IF j = 1 THEN MC ELSE 0]}
    [] OTHER -> PackStrings

str_pack ==
  /\ pk.pc = "pack" /\ pk.i <= Len(pk.fmt)
  /\ \E d \in {getdetails(pk.h, pk.total, pk.fmt, pk.i)} :
         IF d.k = "error" THEN pk' = [pk EXCEPT !.pc = "refused", !.why = "format"]
         ELSE IF d.size + d.toalign > MAX_SIZE - pk.total THEN pk' = [pk EXCEPT !.pc = "refused", !.why = "too long"]
         ELSE \E v \in IF d.k \notin Valued THEN {0} ELSE IF pk.given # <<>> THEN {pk.given[Len(pk.used) + 1]} ELSE ArgumentsFor(d.k, d.size) :
                LET used == IF d.k \in Valued THEN Append(pk.used, v) ELSE pk.used
                IN  pk' = IF Overflows(d, v)
                          THEN [pk EXCEPT !.pc = "refused", !.why = "value", !.used = used, !.detail = d]
                          ELSE [pk EXCEPT !.i = d.next, !.h = d.h, !.used = used,
                                  !.total = @ + d.toalign + d.size
                                              + (CASE d.k = "string" -> Len(v) [] d.k = "zstr" -> Len(v) + 1 [] OTHER -> 0),
                                  !.out = @ \o Zeros(d.toalign) \o Packed(d, v),
                                  !.wants = IF d.k \in Valued
                                            THEN Append(@, IF d.k = "char" THEN v \o Zeros(d.size - Len(v)) ELSE v) ELSE @]

\* The next function starts at the first option.
Begin(pc) == [pk EXCEPT !.pc = pc, !.i = 1, !.h = initheader, !.total = 0]

EndPack == pk.pc = "pack" /\ pk.i > Len(pk.fmt) /\ pk' = Begin("size")

str_packsize ==
  /\ pk.pc = "size" /\ pk.i <= Len(pk.fmt)
  /\ \E d \in {getdetails(pk.h, pk.total, pk.fmt, pk.i)} :
         pk' = IF d.k \in {"error", "string", "zstr"} \/ pk.total > MAX_SIZE - (d.size + d.toalign)
               THEN [Begin("unpack") EXCEPT !.data = pk.out, !.pos = 0]
               ELSE [pk EXCEPT !.i = d.next, !.h = d.h, !.total = @ + d.size + d.toalign]

EndPacksize ==
  /\ pk.pc = "size" /\ pk.i > Len(pk.fmt)
  /\ pk' = [Begin("unpack") EXCEPT !.size = pk.total, !.data = pk.out, !.pos = 0]

\* The bytes of data behind pos, in the order of a little endian number
Bytes(pos, size, little) == Ordered([k \in 1 .. size |-> pk.data[pos + k]], little)
Number(bytes) == FoldLeft(LAMBDA acc, k : acc + bytes[k] * Pow(k - 1), 0, [k \in 1 .. Len(bytes) |-> k])

unpackint(pos, little, size, signed) ==
  LET bytes == Bytes(pos, size, little)
      limit == IF size <= SZINT THEN size ELSE SZINT
      res == Number(SubSeq(bytes, 1, limit))
      half == Pow(limit) \div 2
      Signed(x) == IF x >= half THEN x - Pow(limit) ELSE x
      mask == IF ~signed \/ res < half THEN 0 ELSE MC
  IN  IF size > SZINT /\ \E k \in (limit + 1) .. size : bytes[k] # mask THEN [ok |-> FALSE, v |-> 0]
      ELSE [ok |-> TRUE, v |-> IF size >= SZINT \/ signed THEN Signed(res) ELSE res]

strlen(pos) == Min({k \in pos .. Len(pk.data) : k = Len(pk.data) \/ pk.data[k + 1] = 0}) - pos

\* The option `d' gives the value v, which ends at `end'
Read(d, v, end) == [pk EXCEPT !.i = d.next, !.h = d.h, !.pos = end, !.res = Append(@, v)]
fail == [pk EXCEPT !.pc = "unreadable"]

str_unpack ==
  /\ pk.pc = "unpack" /\ pk.i <= Len(pk.fmt)
  /\ \E d \in {getdetails(pk.h, pk.pos, pk.fmt, pk.i)} :
     LET ld == Len(pk.data)
         pos == pk.pos + d.toalign
         Numeric(n) == IF n.ok THEN Read(d, n.v, pos + d.size) ELSE fail
         String(n, length) == IF ~n.ok \/ length > ld - pos - d.size THEN fail
                              ELSE Read(d, SubSeq(pk.data, pos + d.size + 1, pos + d.size + length), pos + d.size + length)
         Counted(n) == String(n, n.v % Pow(SZINT))
     IN  pk' =
       IF d.k = "error" \/ d.toalign + d.size > ld - pk.pos THEN fail
       ELSE CASE d.k \in {"int", "uint"} -> Numeric(unpackint(pos, d.h.little, d.size, d.k = "int"))
              [] d.k = "float" -> Read(d, copywithendian(SubSeq(pk.data, pos + 1, pos + d.size), d.h.little), pos + d.size)
              [] d.k = "char" -> Read(d, SubSeq(pk.data, pos + 1, pos + d.size), pos + d.size)
              [] d.k = "string" -> Counted(unpackint(pos, d.h.little, d.size, FALSE))
              [] d.k = "zstr" ->
                   IF pos + strlen(pos) >= ld THEN fail
                   ELSE Read(d, SubSeq(pk.data, pos + 1, pos + strlen(pos)), pos + strlen(pos) + 1)
              [] OTHER -> [pk EXCEPT !.i = d.next, !.h = d.h, !.pos = pos + d.size]

\* Values that were read from any data are packed and read again.
EndUnpack ==
  /\ pk.pc = "unpack" /\ pk.i > Len(pk.fmt)
  /\ pk' = IF pk.from = "data" /\ pk.res # <<>>
           THEN [Begin("pack") EXCEPT !.from = "data again", !.given = pk.res, !.res = <<>>]
           ELSE [pk EXCEPT !.pc = "read"]

PackStart(fmt) ==
  [pc |-> "pack", from |-> "values", fmt |-> fmt, given |-> <<>>, used |-> <<>>, wants |-> <<>>, i |-> 1, h |-> initheader,
   total |-> 0, out |-> <<>>, size |-> NoNumber, data |-> <<>>, pos |-> 0, res |-> <<>>, why |-> "",
   detail |-> [k |-> "", size |-> 0]]

PackInit ==
  \E fmt \in Formats :
    \/ pk = PackStart(fmt)
    \/ \E data \in PackData : \E pos \in 0 .. 1 :
         pos <= Len(data) /\ pk = [PackStart(fmt) EXCEPT !.pc = "unpack", !.from = "data", !.data = data, !.pos = pos]

PackNext == str_pack \/ EndPack \/ str_packsize \/ EndPacksize \/ str_unpack \/ EndUnpack

\* What a format can hold
Holds(k, size, v) ==
  CASE k = "int" -> -Pow(size) <= 2 * v /\ 2 * v < Pow(size)
    [] k = "uint" -> size >= SZINT \/ v \in 0 .. (Pow(size) - 1)
    [] k = "char" -> Len(v) <= size
    [] k = "string" -> Len(v) < Pow(size)
    [] k = "zstr" -> \A j \in DOMAIN v : v[j] # 0
    [] OTHER -> TRUE

\* What pack accepts, unpack reads back with the same format, to the last byte
\* and of the length packsize tells; pack refuses only values its option cannot
\* hold; and values that unpack finds in any data survive the way back
\* (str_pack, str_packsize and str_unpack of lstrlib.c).
PackReadsBack ==
  /\ pk.pc = "read" /\ pk.from # "data" =>
       /\ pk.res = pk.wants
       /\ pk.pos = Len(pk.out)
       /\ pk.size \in {NoNumber, Len(pk.out)}
       /\ pk.from = "data again" => pk.res = pk.given
  /\ pk.pc = "unreadable" => pk.from = "data"
  /\ pk.pc = "refused" =>
       /\ pk.why = "value" => pk.from = "values" /\ ~Holds(pk.detail.k, pk.detail.size, Last(pk.used))
       /\ pk.why = "format" => pk.from = "values"
=============================================================================
