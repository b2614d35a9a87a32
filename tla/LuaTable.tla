------------------------------ MODULE LuaTable ------------------------------
(***************************************************************************)
(* The tables of the bundled Lua (ltable.c): an array part and a hash part   *)
(* with chained scatter of the colliding nodes, both resized when the hash    *)
(* part is full, traversed by next while fields are cleared and the collector  *)
(* turns the keys of empty entries into dead ones.                            *)
(*                                                                         *)
(* A key is [t, n]: an integer n, a float of the value n, a short string of    *)
(* the hash n, or an object at the address n.  A value is a number, 0 is nil.  *)
(* Nodes are numbered from 1; next is an offset, 0 at the end of a chain.      *)
(* Allocations do not fail.                                                  *)
(***************************************************************************)
EXTENDS Integers, Sequences, FiniteSets, SequencesExt

CONSTANTS
  KeySets,      \* bound: sets of keys a script uses
  Values,       \* values it stores, without nil
  LIMFORLAST,   \* log2 of the size from which lastfree is kept, 3 in the code
  MAXABITS,     \* log2 of the largest array part, 31 in the code
  LUA_MAXINTEGER,
  Seeds,        \* random bits of the state
  Sizes         \* sizes a table is created with, <<array, hash>>

ASSUME LuaTableAssumption ==
  /\ LIMFORLAST \in Nat /\ MAXABITS \in Nat /\ LUA_MAXINTEGER \in Nat
  /\ Seeds \subseteq Nat /\ \A k \in UNION KeySets : k.t \in {"int", "flt", "str", "obj"} /\ k.n \in Nat

VARIABLES
  t,     \* the table
  stored,     \* what the script stored: a value for every key
  it     \* a traversal: where it is, the keys it has given, whether next failed

tabVars == <<t, stored, it>>
Keys == DOMAIN stored

-----------------------------------------------------------------------------
(* Positions and look-up.                                                  *)

TNil    == [t |-> "nil", n |-> 0]
TDead   == [t |-> "dead", n |-> 0]
IKey(n)  == [t |-> "int", n |-> n]
NilNode == [key |-> TNil, val |-> 0, next |-> 0]
sizenode(tab) == Len(tab.node)
ceillog2(x) == CHOOSE l \in 0..x : 2^l >= x /\ (l = 0 \/ 2^(l - 1) < x)

\* luaV_flttointeger: a float key of an integral value is that integer.
Normal(key) == IF key.t = "flt" THEN IKey(key.n) ELSE key

\* mainpositionTV: strings by a power of 2, the others by the odd number before it
mainposition(tab, key) ==
  1 + (key.n % (IF key.t = "str" THEN sizenode(tab) ELSE IF sizenode(tab) = 1 THEN 1 ELSE sizenode(tab) - 1))

\* equalkey: a dead key is equal to the object it was, when deadok.
equalkey(key, node, deadok) ==
  node.key = key \/ (deadok /\ node.key.t = "dead" /\ key.t \in {"str", "obj"} /\ node.key.n = key.n)

\* getgeneric, getintfromhash, luaH_Hgetshortstr: the node of the key, 0 for none
RECURSIVE Chain(_, _, _, _)
Chain(tab, key, i, deadok) ==
  IF equalkey(key, tab.node[i], deadok) THEN i
  ELSE IF tab.node[i].next = 0 THEN 0
  ELSE Chain(tab, key, i + tab.node[i].next, deadok)
getgeneric(tab, key, deadok) == Chain(tab, key, mainposition(tab, key), deadok)

keyinarray(tab, key) == IF key.t = "int" /\ key.n \in 1..Len(tab.array) THEN key.n ELSE 0

\* luaH_get, luaH_getint
luaH_get(tab, k) ==
  LET key == Normal(k)
      i   == getgeneric(tab, key, FALSE)
  IN  IF keyinarray(tab, key) > 0 THEN tab.array[key.n]
      ELSE IF i = 0 THEN 0 ELSE tab.node[i].val

-----------------------------------------------------------------------------
(* Insertion.                                                              *)

\* getfreepos: the last free node, [pos, lastfree]; pos is 0 for none
getfreepos(tab) ==
  LET limited == sizenode(tab) >= 2^LIMFORLAST
      free == {i \in 1..sizenode(tab) : tab.node[i].key = TNil /\ (limited => i < tab.lastfree)}
      last == CHOOSE i \in free : \A j \in free : j <= i
      pos  == IF free = {} THEN 0 ELSE last
  IN  [pos |-> pos, lastfree |-> IF ~limited THEN tab.lastfree ELSE IF pos = 0 THEN 1 ELSE pos]

\* The node whose next is mp
RECURSIVE Previous(_, _, _)
Previous(tab, i, mp) ==
  IF i + tab.node[i].next = mp THEN i ELSE Previous(tab, i + tab.node[i].next, mp)

\* mutant: the chain of the node that is moved still leads to mp
MoveColliding_unlinked(tab, mp, f) ==
  LET next == tab.node[mp].next
  IN  [tab EXCEPT !.node[f] = [tab.node[mp] EXCEPT !.next = IF next = 0 THEN 0 ELSE next + (mp - f)],
                  !.node[mp].next = 0]

\* The node at mp, which is not in its main position, goes to f.
MoveColliding(tab, mp, f) ==
  LET prev == Previous(tab, mainposition(tab, tab.node[mp].key), mp)
      next == tab.node[mp].next
  IN  [tab EXCEPT !.node[prev].next = f - prev,
                  !.node[f] = [tab.node[mp] EXCEPT !.next = IF next = 0 THEN 0 ELSE next + (mp - f)],
                  !.node[mp].next = 0]

\* f becomes the second node of the chain of mp.
ChainAfter(tab, mp, f) ==
  LET next == tab.node[mp].next
  IN  [tab EXCEPT !.node[f].next = IF next = 0 THEN @ ELSE (mp + next) - f, !.node[mp].next = f - mp]

\* insertkey: [ok, tab]
insertkey(tab, key, val) ==
  LET mp == mainposition(tab, key)
      f  == getfreepos(tab)
      Store(x, i) == [ok |-> TRUE, tab |-> [x EXCEPT !.node[i].key = key, !.node[i].val = val]]
      taken == tab.node[mp].val # 0 \/ tab.dummy
      tab1 == [tab EXCEPT !.lastfree = f.lastfree]
  IN  CASE ~taken -> Store(tab, mp)
        [] taken /\ f.pos = 0 -> [ok |-> FALSE, tab |-> tab1]
        [] taken /\ f.pos # 0 /\ mainposition(tab, tab.node[mp].key) # mp -> Store(MoveColliding(tab1, mp, f.pos), mp)
        [] OTHER -> Store(ChainAfter(tab1, mp, f.pos), f.pos)

\* newcheckedkey
newcheckedkey(tab, key, val) ==
  IF keyinarray(tab, key) > 0 THEN [tab EXCEPT !.array[key.n] = val]
  ELSE insertkey(tab, key, val).tab

-----------------------------------------------------------------------------
(* Rehash.                                                                 *)

\* The value of s, evaluated once, given to Op
WithValue(s, Op(_)) == CHOOSE y \in {Op(x) : x \in {s}} : TRUE
EachOf(Op(_, _), s, seq) == FoldLeft(LAMBDA r, o : WithValue(r, LAMBDA x : Op(x, o)), s, seq)

\* setnodevector
setnodevector(tab, size) ==
  LET n == 2^ceillog2(size)
  IN  IF size = 0 THEN [tab EXCEPT !.node = <<[NilNode EXCEPT !.key = TDead]>>, !.dummy = TRUE, !.lastfree = 0]
      ELSE [tab EXCEPT !.node = [i \in 1..n |-> NilNode], !.dummy = FALSE,
                       !.lastfree = IF n >= 2^LIMFORLAST THEN n + 1 ELSE 0]

\* luaH_resize: the vanishing slice of the array goes to the new hash part,
\* (reinsertOldSlice), then the old hash part to both new ones (reinserthash).
luaH_resize(tab, newasize, nhsize) ==
  LET old   == Len(tab.array)
      slice == [i \in 1..(IF newasize < old THEN old - newasize ELSE 0) |-> newasize + i]
      Slice(x, i) == IF tab.array[i] = 0 THEN x ELSE insertkey(x, IKey(i), tab.array[i]).tab
      Array(x) == [x EXCEPT !.array = [i \in 1..newasize |-> IF i <= old THEN tab.array[i] ELSE 0],
                            !.hint = IF newasize > 0 THEN newasize \div 2 ELSE 0]
      Reinsert(x, n) == IF n.val = 0 THEN x ELSE newcheckedkey(x, n.key, n.val)
  IN  EachOf(Reinsert, Array(EachOf(Slice, setnodevector(tab, nhsize), slice)), tab.node)

arrayXhash(na, nh) == na <= nh * 3

\* computesizes: [asize, na] from the integer keys that are array indices
computesizes(ints) ==
  LET below(n) == Cardinality({i \in ints : i <= n})
      Slice(r, i) ==
        IF r.stop \/ ~arrayXhash(2^i, Cardinality(ints)) THEN [r EXCEPT !.stop = TRUE]
        ELSE IF (\E k \in ints : ceillog2(k) = i) /\ arrayXhash(2^i, below(2^i))
             THEN [r EXCEPT !.asize = 2^i, !.na = below(2^i)] ELSE r
  IN  FoldLeft(Slice, [stop |-> FALSE, asize |-> 0, na |-> 0], [i \in 1..(MAXABITS + 1) |-> i - 1])

\* countint: the key as a candidate for the array part
countint(key) == key.t = "int" /\ key.n \in 1..(2^MAXABITS)

\* numusearray and numusehash: the slots and the nodes in use
numusearray(tab) == {i \in 1..Len(tab.array) : tab.array[i] # 0}
numusehash(tab)  == {i \in 1..sizenode(tab) : tab.node[i].val # 0}

\* rehash: the array part is only counted when some hash key is a candidate.
rehash(tab, ek) ==
  LET used  == numusehash(tab)
      hashints == {key.n : key \in {k \in {ek} \cup {tab.node[i].key : i \in used} : countint(k)}}
      sizes == computesizes(hashints \cup numusearray(tab))
      total == 1 + Cardinality(used) + (IF hashints = {} THEN 0 ELSE Cardinality(numusearray(tab)))
      deleted == Cardinality(used) < sizenode(tab)
      nsize == total - (IF hashints = {} THEN 0 ELSE sizes.na)
  IN  luaH_resize(tab, IF hashints = {} THEN Len(tab.array) ELSE sizes.asize,
                  nsize + (IF deleted THEN nsize \div 4 ELSE 0))

\* luaH_newkey
luaH_newkey(tab, key, val) ==
  LET r == insertkey(tab, key, val)
  IN  IF val = 0 THEN tab
      ELSE IF r.ok THEN r.tab
      ELSE WithValue(rehash(r.tab, key), LAMBDA x : newcheckedkey(x, key, val))

\* luaH_set: luaH_pset, luaH_finishset
luaH_set(tab, k, val) ==
  LET key == Normal(k)
      i   == getgeneric(tab, key, FALSE)
  IN  IF keyinarray(tab, key) > 0 THEN [tab EXCEPT !.array[key.n] = val]
      ELSE IF i # 0 THEN [tab EXCEPT !.node[i].val = val]
      ELSE luaH_newkey(tab, key, val)

-----------------------------------------------------------------------------
(* Traversal.                                                              *)

\* mutant: a dead key is not found
findindex_live(tab, key) ==
  IF key = TNil THEN 0
  ELSE IF keyinarray(tab, key) > 0 THEN key.n
  ELSE LET i == getgeneric(tab, key, FALSE) IN IF i = 0 THEN -1 ELSE i + Len(tab.array)

\* findindex: the place of the key in a traversal, -1 for "invalid key to 'next'"
findindex(tab, key) ==
  IF key = TNil THEN 0
  ELSE IF keyinarray(tab, key) > 0 THEN key.n
  ELSE LET i == getgeneric(tab, key, TRUE) IN IF i = 0 THEN -1 ELSE i + Len(tab.array)

\* luaH_next: the key after the given one, TNil at the end
luaH_next(tab, key) ==
  LET asize == Len(tab.array)
      at == findindex(tab, key)
      Value(i) == IF i <= asize THEN tab.array[i] ELSE tab.node[i - asize].val
      rest == {i \in (at + 1)..(asize + sizenode(tab)) : Value(i) # 0}
      i == CHOOSE x \in rest : \A y \in rest : x <= y
  IN  IF rest = {} THEN TNil ELSE IF i <= asize THEN IKey(i) ELSE tab.node[i - asize].key

-----------------------------------------------------------------------------
(* Length.                                                                 *)

arraykeyisempty(tab, i) == tab.array[i] = 0
hashkeyisempty(tab, i) ==
  LET n == getgeneric(tab, IKey(i), FALSE) IN n = 0 \/ tab.node[n].val = 0

\* The search between i, which is present, and j, which is absent
RECURSIVE binsearch(_, _, _)
binsearch(empty, i, j) ==
  LET mid == (i + j) \div 2
  IN  IF j - i <= 1 THEN i ELSE IF mid \in empty THEN binsearch(empty, i, mid) ELSE binsearch(empty, mid, j)

\* hash_search: doubling to an absent index, then the search between
RECURSIVE Doubling(_, _, _, _)
Doubling(empty, i, j, rnd) ==
  IF j \in empty THEN binsearch(empty, i, j)
  ELSE IF j <= LUA_MAXINTEGER \div 2 - 1 THEN Doubling(empty, j, j * 2 + (rnd % 2), rnd \div 2)
  ELSE IF LUA_MAXINTEGER \in empty THEN binsearch(empty, j, LUA_MAXINTEGER)
  ELSE LUA_MAXINTEGER
hash_search(tab, asize, rnd) ==
  LET n == IF asize > 0 THEN ceillog2(asize) ELSE 0
      i == asize + 1
      incr == (rnd % (2^n)) + 1
      empty == {j \in 1..LUA_MAXINTEGER : hashkeyisempty(tab, j)}
  IN  Doubling(empty, i, IF incr <= LUA_MAXINTEGER - i THEN i + incr ELSE i + 1, rnd \div 2^n)

maxvicinity == 4

\* luaH_getn: [n, hint]; the hint is kept when the border is in the array part.
luaH_getn(tab, rnd) ==
  LET asize == Len(tab.array)
      limit == IF tab.hint = 0 THEN 1 ELSE tab.hint
      empty == {i \in 1..asize : arraykeyisempty(tab, i)}
      below == {i \in 1..(limit - 1) : i >= limit - maxvicinity /\ i \notin empty}
      above == {i \in (limit + 1)..asize : i <= limit + maxvicinity /\ i \in empty}
      low   == IF limit > maxvicinity THEN limit - maxvicinity ELSE 1
      high  == IF limit + maxvicinity < asize THEN limit + maxvicinity ELSE asize
      Hint(n) == [n |-> n, hint |-> n]
      inhash == [n    |-> IF tab.dummy \/ hashkeyisempty(tab, asize + 1) THEN asize ELSE hash_search(tab, asize, rnd),
                 hint |-> IF asize > 0 THEN asize ELSE tab.hint]
  IN  IF asize = 0 THEN inhash
      ELSE IF limit \in empty
           THEN Hint(IF below # {} THEN CHOOSE i \in below : \A j \in below : j <= i
                     ELSE binsearch(empty, 0, low))
      ELSE IF above # {} THEN Hint((CHOOSE i \in above : \A j \in above : i <= j) - 1)
      ELSE IF asize \in empty THEN Hint(binsearch(empty, high, asize))
      ELSE inhash

-----------------------------------------------------------------------------
(* The script.                                                             *)

Off == [on |-> FALSE, key |-> TNil, seen |-> {}, fail |-> FALSE]
Empty == setnodevector([array |-> <<>>, hint |-> 0, node |-> <<>>, dummy |-> TRUE, lastfree |-> 0], 0)
SameKey(k) == {x \in Keys : Normal(x) = Normal(k)}
Stored(k, v) == [x \in Keys |-> IF x \in SameKey(k) THEN v ELSE stored[x]]

TabInit ==
  /\ \E s \in Sizes : t = luaH_resize(Empty, s[1], s[2])
  /\ \E keys \in KeySets : stored = [k \in keys |-> 0]
  /\ it = Off

\* A traversal may assign to fields that exist, and clear them, but create none.
Set(k, v) ==
  /\ it.on => stored[k] # 0
  /\ t' = luaH_set(t, k, v) /\ stored' = Stored(k, v) /\ UNCHANGED it

\* OP_SETLIST: luaH_resizearray makes room for a list.
SetList(n) ==
  /\ ~it.on /\ n > Len(t.array)
  /\ t' = luaH_resize(t, n, IF t.dummy THEN 0 ELSE sizenode(t)) /\ UNCHANGED <<stored, it>>

Length ==
  /\ \E rnd \in Seeds : t' = [t EXCEPT !.hint = luaH_getn(t, rnd).hint]
  /\ UNCHANGED <<stored, it>>

\* clearkey of the collector
Collect ==
  /\ t' = [t EXCEPT !.node = [i \in DOMAIN @ |->
             IF @[i].val = 0 /\ @[i].key.t \in {"str", "obj"} THEN [@[i] EXCEPT !.key.t = "dead"] ELSE @[i]]]
  /\ UNCHANGED <<stored, it>>

NextKey ==
  /\ ~it.fail
  /\ LET from == IF it.on THEN it.key ELSE TNil
         key  == luaH_next(t, from)
     IN  it' = IF findindex(t, from) = -1 \/ key \in it.seen THEN [it EXCEPT !.fail = TRUE]
               ELSE IF key # TNil THEN [it EXCEPT !.on = TRUE, !.key = key, !.seen = @ \cup {key}]
               ELSE [Off EXCEPT !.fail = \E k \in Keys : stored[k] # 0 /\ Normal(k) \notin it.seen]
  /\ UNCHANGED <<t, stored>>

TabNext ==
  \/ \E k \in Keys, v \in Values \cup {0} : Set(k, v)
  \/ \E n \in {s[1] : s \in Sizes} : SetList(n)
  \/ Length \/ Collect \/ NextKey

TabSpec == TabInit /\ [][TabNext]_tabVars

-----------------------------------------------------------------------------
(* Properties.                                                             *)

\* Whatever was inserted, moved by a collision, resized, cleared and collected:
\* every key reads the value last stored under it, and # gives a border.
TableIsMap ==
  /\ \A k \in Keys : luaH_get(t, k) = stored[k]
  /\ \A rnd \in Seeds :
       LET n == luaH_getn(t, rnd).n
           present(i) == \E k \in Keys : Normal(k) = IKey(i) /\ stored[k] # 0
       IN  (n = 0 \/ present(n)) /\ (n = LUA_MAXINTEGER \/ ~present(n + 1))

\* A traversal that only assigns to or clears fields gives every key that is
\* still there exactly once and never meets an invalid key, even when
\* the collector ran on entries that were just cleared.
TraversalIsComplete == ~it.fail

\* A table is a map for those who read it, ask for its length and traverse it
\* (ltable.c, luaH_get, luaH_getn and luaH_next).
TablesAreMaps == TableIsMap /\ TraversalIsComplete
=============================================================================
