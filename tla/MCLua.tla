------------------------------- MODULE MCLua --------------------------------
(* Instances of the models of the bundled Lua for TLC.                       *)
EXTENDS LuaGC, LuaTable, LuaPattern, LuaNumbers, LuaLibrary

T(m, k, v, a) == [Free EXCEPT !.tt = "table", !.mode = m, !.k = k, !.v = v, !.a = a]
Heap(objects, stack, does, n) ==
  [h |-> [o \in 1..N |-> IF o \in DOMAIN objects THEN objects[o] ELSE Free],
   stack |-> stack, does |-> does, ops |-> n]

\* New objects are stored in a table the collector may have visited.
MCStores ==
  {Heap(<<T(0, 0, 0, -1)>>, <<1, 0>>, {"new", "set", "assign", "GENMINOR"}, 3),
   Heap(<<T(2, 0, 0, 0)>>, <<1, 0>>, {"new", "set", "array", "assign"}, 3)}

\* A coroutine with an open upvalue, a closure over it and a value for it
MCThreads ==
  {Heap(<<[Free EXCEPT !.tt = "thread", !.u = 2, !.v = x], [Free EXCEPT !.tt = "upval", !.u = 1],
          [Free EXCEPT !.tt = "closure", !.v = 2], T(0, 0, 0, -1)>>, <<y, 3>>,
        {"assign", "thread", "close", "upvalue", "closure", "GENMINOR", "INC"}, 2) : x \in {0, 4}, y \in {1, 4}}

\* A table whose mode changes under the collector, with what it refers to
MCModes ==
  {Heap(<<T(m, k, v, IF k = 2 THEN -1 ELSE 2), T(0, -1, 1, -1), [Free EXCEPT !.tt = "string"]>>, <<1, 0>>,
        {"mode", "full", "assign", "GENMINOR"}, 2) : m \in 0..3, k \in {-1, 2}, v \in {2, 3}}

\* Chains of ephemeron entries, found in any order
MCEphemerons ==
  {Heap(<<T(2, 1, v1, -1), T(2, k2, 5, -1), T(2, 5, 6, -1), T(0, 0, 0, -1), T(0, 0, 0, -1), T(0, 0, 0, -1)>>,
        s, {"full", "GENMINOR"}, 1) :
     v1 \in {4, 5}, k2 \in {4, 6}, s \in {<<1, 2, 3>>, <<3, 2, 1>>, <<3, 1, 2>>, <<1, 3, 2>>}}

\* A closure whose upvalue is closed
MCUpvalues ==
  {Heap(<<[Free EXCEPT !.tt = "upval"], [Free EXCEPT !.tt = "closure", !.v = 1]>>, <<2, 0>>,
        {"new", "upvalue", "assign", "GENMINOR"}, 3)}

\* Objects with finalizers that may come back
MCFinalizers ==
  {Heap(<<[T(0, IF x[1] = 0 THEN 0 ELSE -1, x[1], -1) EXCEPT !.fin = TRUE], [T(x[3], -1, 1, -1) EXCEPT !.fin = x[2]]>>,
        <<2, 0>>, {"new", "finalizer", "assign", "GENMINOR"}, 3) :
     x \in {<<0, FALSE, 0>>, <<2, TRUE, 1>>}}

MCHeaps == MCStores \cup MCThreads \cup MCModes \cup MCEphemerons \cup MCFinalizers \cup MCUpvalues

\* Keys for the array part, and keys that collide in a hash part of four nodes
K(ty, n) == [t |-> ty, n |-> n]
MCKeySets == {{IKey(1), IKey(2), IKey(3), K("str", 1), K("flt", 2)}, {IKey(1), IKey(2), K("obj", 4)},
              {K("str", 1), K("str", 5), K("str", 3)}}
MCSizes == {<<0, 0>>, <<1, 1>>}

\* Patterns: two parts of any kind, or up to four that match in several ways
Class(chars, set, suffix) ==
  [kind |-> "class", chars |-> chars \o (IF suffix = "" THEN <<>> ELSE <<suffix>>), set |-> set, suffix |-> suffix]
Part(kind, chars) == [kind |-> kind, chars |-> chars]
MCItems ==
  {Class(<<"a">>, {"a"}, s) : s \in {"", "?", "-"}} \cup {Class(<<".">>, {"a", "b", "1"}, s) : s \in {"", "*", "-", "?"}}
  \cup {Class(<<"[", "^", "b", "]">>, {"a", "1"}, "+"), Class(<<"[", "a", "-", "b", "]">>, {"a", "b"}, "*"), Class(<<"%", "A">>, {"1"}, "")}
  \cup {Part("open", <<"(">>), Part("close", <<")">>), Part("pos", <<"(", ")">>), Part("end", <<"$">>)}
  \cup {[kind |-> "back", chars |-> <<"%", "1">>, n |-> 1], [kind |-> "balance", chars |-> <<"%", "b", "a", "b">>, x |-> "a", y |-> "b"],
        [kind |-> "frontier", chars |-> <<"%", "f", "[", "%", "a", "]">>, set |-> {"a", "b"}]}
MCShort == {Class(<<"a">>, {"a"}, "?"), Class(<<".">>, {"a", "b", "1"}, "-"), Class(<<".">>, {"a", "b", "1"}, "*"), Part("open", <<"(">>), Part("close", <<")">>), [kind |-> "back", chars |-> <<"%", "1">>, n |-> 1]}
MCPool == UNION {[1..n -> MCItems] : n \in 1..2} \cup [1..3 -> MCShort]
          \cup {p \in [1..4 -> MCShort] : Part("open", <<"(">>) \in {p[1], p[2]}}
MCSubjects == BoundedSeq({"a", "b"}, 1) \cup {<<"a", "b">>, <<"a", "b", "a">>, <<"a", "a", "b">>, <<"a", "1", "b">>}
MCRepl == {[tr |-> "string", text |-> <<"x">>, max |-> 9], [tr |-> "string", text |-> <<"%", "1", "%", "0">>, max |-> 1], [tr |-> "table", text |-> <<"a">>, max |-> 9]}

\* Loops whose ends are at the ends of the integers and beyond, fractions, and a
\* numeral; every integer against every float
MCForValues ==
  {I(i) : i \in {-16, -15, -3, -1, 0, 1, 2, 7, 14, 15}} \cup {F(f) : f \in {-Inf, -40, -32, -3, 1, 5, 28, 32, Inf}}
  \cup {NaN, [t |-> "str", v |-> 4], [t |-> "none", v |-> 0]}
MCNumericOperands == {I(i) : i \in LUA_MININTEGER .. LUA_MAXINT} \cup {F(f) : f \in Floats} \cup {NaN}

\* Arrays with equal values, and an order function that answers anything
MCArrays ==
  [a : UNION {[1 .. n -> 1 .. 3] : n \in 0 .. 5}, order : {"less"}]
  \cup [a : [1 .. 7 -> 1 .. 2] \cup {<<5, 3, 1, 7, 2, 6, 4>>, <<7, 6, 5, 4, 3, 2, 1>>}, order : {"less"}]
  \cup [a : {[k \in 1 .. n |-> k] : n \in 2 .. 6}, order : {"any"}]

\* Bytes of one bit, integers of four, up to eight in a format
MCSizeOf == [o \in {"b", "B", "h", "H", "i", "l", "L", "j", "J", "T", "f", "n", "d"} |->
  CASE o \in {"b", "B"} -> 1 [] o \in {"h", "H", "i", "f"} -> 2 [] OTHER -> 4]
Sized(o, n) == [o |-> o, n |-> n]
Plain(o) == Sized(o, NoNumber)
MCOptions ==
  {Plain(o) : o \in {"b", "H", "j", "s", "z", "x", "X", "<", ">", "=", "!", "n", "c", "i", "?"}}
  \cup {Sized("i", 3), Sized("i", 9), Sized("I", 8), Sized("i", 8), Sized("s", 1), Sized("s", 8), Sized("c", 2),
        Sized("!", 2), Sized("!", 3), Sized("!", 0)}
MCFormats ==
  UNION {[1 .. n -> MCOptions] : n \in 1 .. 2}
  \cup {<<a>> \o f : a \in {Plain("!"), Plain(">")}, f \in [1 .. 2 -> {o \in MCOptions : o.n # 0 /\ o.o \notin {"=", "?"}}]}
MCPackInts == {-8, -3, -1, 0, 1, 2, 7}
MCPackStrings == {<<>>, <<1>>, <<0, 1>>, <<1, 1, 1>>}
MCPackData == BoundedSeq({0, 1}, 2) \cup {<<1, 0, 1, 1, 0, 0, 0>>, [k \in 1 .. 9 |-> 1], <<0, 0, 1, 1, 1, 1, 1, 1, 1, 1>>}

VARIABLE part   \* which of the models runs
luaVars == <<gcVars, tabVars, patVars, numVars, sortVars, packVars, part>>

IdleHeap == GCStart(Heap(<<>>, <<0, 0>>, {}, 0))
IdlePattern == [items |-> <<>>, src |-> <<>>, repl |-> CHOOSE r \in MCRepl : TRUE, anchor |-> TRUE]

\* The models a behaviour is not about have one initial state.
MCInit ==
  /\ part \in {"gc", "table", "pattern", "number", "sort", "pack"}
  /\ IF part = "gc" THEN GCInit ELSE g = IdleHeap /\ ops = 0 /\ goal = <<>> /\ finalized = {}
  /\ IF part = "table" THEN TabInit ELSE t = Empty /\ stored = <<>> /\ it = Off
  /\ IF part = "pattern" THEN PatInit ELSE arg = IdlePattern /\ gm = [gmatch(IdlePattern) EXCEPT !.on = FALSE] /\ gs = str_gsub
  /\ IF part = "number" THEN NumInit ELSE num = [pc |-> "idle"]
  /\ IF part = "sort" THEN SortInit ELSE srt = sort([a |-> <<>>, order |-> "less"])
  /\ IF part = "pack" THEN PackInit ELSE pk = PackStart(<<>>)

MCNext ==
  /\ UNCHANGED part
  /\ \/ part = "gc" /\ GCNext /\ UNCHANGED <<tabVars, patVars, numVars, sortVars, packVars>>
     \/ part = "table" /\ TabNext /\ UNCHANGED <<gcVars, patVars, numVars, sortVars, packVars>>
     \/ part = "pattern" /\ PatNext /\ UNCHANGED <<gcVars, tabVars, numVars, sortVars, packVars>>
     \/ part = "number" /\ NumNext /\ UNCHANGED <<gcVars, tabVars, patVars, sortVars, packVars>>
     \/ part = "sort" /\ SortNext /\ UNCHANGED <<gcVars, tabVars, patVars, numVars, packVars>>
     \/ part = "pack" /\ PackNext /\ UNCHANGED <<gcVars, tabVars, patVars, numVars, sortVars>>

MCSpec == MCInit /\ [][MCNext]_luaVars

\* What scripts rely on in the libraries: patterns match what their parts mean,
\* sorting is safe under any order function, and packed data reads back
\* (lstrlib.c, ltablib.c).
LibraryKeepsItsWord == PatternMeansItsParts /\ SortIsSafe /\ PackReadsBack
=============================================================================
