------------------------------- MODULE LuaGC -------------------------------
(***************************************************************************)
(* The garbage collector of the bundled Lua (lgc.c, and the upvalues of      *)
(* lfunc.c): incremental and generational collection of the objects of a     *)
(* script that runs between the steps of the collector.                      *)
(*                                                                         *)
(* Objects are numbers; 0 is nil and -1 a value that is no object.  A table   *)
(* has one node k -> v and, when a # -1, an array of one element; a closure    *)
(* has its upvalue in v; a coroutine has one variable v and the open upvalue   *)
(* of it in u; a closed upvalue has its value in v, an open one its thread     *)
(* in u.  Main is the main thread; its stack holds the variables of the        *)
(* script.  Bytes are not counted: where the code compares amounts of          *)
(* memory, both outcomes are possible.                                       *)
(***************************************************************************)
EXTENDS Integers, Sequences, FiniteSets, SequencesExt

CONSTANTS
  N,           \* bound: objects besides the main thread
  GCSWEEPMAX,  \* elements of one sweep step, 20 in the code
  Heaps        \* heaps to begin with, all objects white and new: [h, stack], and
               \* bounds on the script: the kinds of its steps (does), how many (ops)

ASSUME LuaGCAssumption == N \in Nat \ {0} /\ GCSWEEPMAX \in Nat \ {0}

VARIABLES
  g,         \* global_State
  ops,       \* steps left to the script
  goal,      \* states a full collection still runs to
  finalized  \* objects whose finalizer ran since the full collection began

gcVars == <<g, ops, goal, finalized>>

Main == N + 1
All  == 1..Main
Free == [tt |-> "free", color |-> "w0", age |-> "NEW", fin |-> FALSE, gc |-> FALSE,
         mode |-> 0, k |-> 0, v |-> 0, a |-> -1, u |-> 0]

\* Op applied to the value of s, and to s with every element of seq in turn
Then(s, Op(_)) == CHOOSE y \in {Op(x) : x \in {s}} : TRUE
Each(Op(_, _), s, seq) == FoldLeft(LAMBDA r, o : Then(r, LAMBDA x : Op(x, o)), s, seq)

-----------------------------------------------------------------------------
(* Colours and lists (lgc.h).                                              *)

iswhite(s, o) == s.h[o].color \in {"w0", "w1"}
isblack(s, o) == s.h[o].color = "black"
otherwhite(s) == IF s.white = "w0" THEN "w1" ELSE "w0"
isdead(s, o)  == s.h[o].color = otherwhite(s)
isold(s, o)   == s.h[o].age \notin {"NEW", "SURVIVAL"}
issweepphase(s)  == s.gcstate \in {"swpallgc", "swpfinobj", "swptobefnz", "swpend"}
keepinvariant(s) == s.gcstate \in {"propagate", "enteratomic", "atomic"}

Paint(s, o, c) == [s EXCEPT !.h[o].color = c]
makewhite(s, o) == Paint(s, o, s.white)
setage(s, o, age) == [s EXCEPT !.h[o].age = age]

\* linkgclist; gray, grayagain, weak, allweak and ephemeron are the gray lists.
linkgclist(s, o, list) == Paint([s EXCEPT !.gl[list] = <<o>> \o @], o, "gray")

upisopen(s, o) == s.h[o].u # 0
UpValue(s, o)  == IF upisopen(s, o) THEN s.h[s.h[o].u].v ELSE s.h[o].v

-----------------------------------------------------------------------------
(* Marking.                                                                *)

\* reallymarkobject for everything but an upvalue
MarkNoUpvalue(s, o) ==
  IF s.h[o].tt = "string" THEN Paint(s, o, "black") ELSE linkgclist(s, o, "gray")

markvalue(s, v) ==
  IF v \in All /\ iswhite(s, v) THEN MarkNoUpvalue(s, v) ELSE s

reallymarkobject(s, o) ==
  IF s.h[o].tt # "upval" THEN MarkNoUpvalue(s, o)
  ELSE markvalue(Paint(s, o, IF upisopen(s, o) THEN "gray" ELSE "black"), UpValue(s, o))

markobject(s, o) == IF o \in All /\ iswhite(s, o) THEN reallymarkobject(s, o) ELSE s

\* mutant: no barrier while the collector propagates
luaC_barrier_none(s, o, v) ==
  IF ~keepinvariant(s) /\ v \in All /\ isblack(s, o) /\ iswhite(s, v) /\ s.gckind # "GENMINOR" THEN makewhite(s, o) ELSE s

\* luaC_barrier and luaC_barrier_: forward, behind a store of v in o
luaC_barrier(s, o, v) ==
  IF ~(v \in All /\ isblack(s, o) /\ iswhite(s, v)) THEN s
  ELSE IF keepinvariant(s)
       THEN LET m == reallymarkobject(s, v) IN IF isold(s, o) THEN setage(m, v, "OLD0") ELSE m
  ELSE IF s.gckind # "GENMINOR" THEN makewhite(s, o) ELSE s

\* luaC_barrierback and luaC_barrierback_: back, behind a store of v in table o
luaC_barrierback(s, o, v) ==
  LET m == IF s.h[o].age = "TOUCHED2" THEN Paint(s, o, "gray") ELSE linkgclist(s, o, "grayagain")
  IN  IF ~(v \in All /\ isblack(s, o) /\ iswhite(s, v)) THEN s
      ELSE IF isold(s, o) THEN setage(m, o, "TOUCHED1") ELSE m

\* remarkupvals: the open upvalues of threads that are not marked
remarkupvals(s) ==
  LET keep(t) == ~iswhite(s, t) /\ s.h[t].u # 0
      Visit(r, t) == IF keep(t) THEN r
                     ELSE IF s.h[t].u # 0 /\ ~iswhite(r, s.h[t].u) THEN markvalue(r, s.h[t].v) ELSE r
  IN  [Each(Visit, s, s.twups) EXCEPT !.twups = SelectSeq(@, keep)]

cleargraylists(s) == [s EXCEPT !.gl = [l \in DOMAIN @ |-> <<>>]]

restartcollection(s) ==
  Each(markobject, markobject(cleargraylists(s), Main), s.list["tobefnz"])

-----------------------------------------------------------------------------
(* Traversal of one gray object.                                           *)

genlink(s, o) ==
  CASE s.h[o].age = "TOUCHED1" -> linkgclist(s, o, "grayagain")
    [] s.h[o].age = "TOUCHED2" -> setage(s, o, "OLD")
    [] OTHER                   -> s

\* clearkey: an empty entry keeps a dead key, which is no object any more.
clearkey(s, o) == IF s.h[o].v = 0 /\ s.h[o].k \in All THEN [s EXCEPT !.h[o].k = -1] ELSE s

\* iscleared; strings are values and are marked by the question.
Asked(s, v) == IF v \in All /\ s.h[v].tt = "string" THEN markobject(s, v) ELSE s
iscleared(s, v) == v \in All /\ s.h[v].tt # "string" /\ iswhite(s, v)

traverseweakvalue(s, o) ==
  LET hasarray == s.h[o].a # -1
      Key(x) == IF s.h[o].v = 0 THEN clearkey(x, o) ELSE markvalue(x, s.h[o].k)
      Val(x) == IF hasarray \/ s.h[o].v = 0 THEN x ELSE Asked(x, s.h[o].v)
      Link(x) == IF s.gcstate = "propagate" THEN linkgclist(x, o, "grayagain")
                 ELSE IF hasarray \/ iscleared(x, s.h[o].v) THEN linkgclist(x, o, "weak")
                 ELSE genlink(x, o)
  IN  Link(Val(Key(s)))

\* Whether traverseephemeron marks anything
EphemeronMarks(s, o) ==
  \/ s.h[o].a \in All /\ iswhite(s, s.h[o].a)
  \/ /\ s.h[o].v \in All /\ iswhite(s, s.h[o].v)
     /\ ~iscleared(markvalue(s, s.h[o].a), s.h[o].k)

traverseephemeron(s, o) ==
  LET key == s.h[o].k
      val == s.h[o].v
      Key(x) == IF val = 0 THEN clearkey(x, o) ELSE Asked(x, key)
      Link(x, whitekey) ==
        IF s.gcstate = "propagate" THEN linkgclist(x, o, "grayagain")
        ELSE IF ~whitekey THEN genlink(x, o)
        ELSE linkgclist(x, o, IF val \in All /\ iswhite(x, val) THEN "ephemeron" ELSE "allweak")
      Val(x) == IF val # 0 /\ iscleared(x, key) THEN Link(x, TRUE) ELSE Link(markvalue(x, val), FALSE)
  IN  Val(Key(markvalue(s, s.h[o].a)))

traversestrongtable(s, o) ==
  LET r == markvalue(s, s.h[o].a)
      q == IF s.h[o].v = 0 THEN clearkey(r, o) ELSE markvalue(markvalue(r, s.h[o].k), s.h[o].v)
  IN  genlink(q, o)

traversetable(s, o) ==
  CASE s.h[o].mode = 0 -> traversestrongtable(s, o)
    [] s.h[o].mode = 1 -> traverseweakvalue(s, o)
    [] s.h[o].mode = 2 -> traverseephemeron(s, o)
    [] OTHER -> linkgclist(s, o, IF s.gcstate = "propagate" THEN "grayagain" ELSE "allweak")

\* mutant: a thread is visited once
traversethread_once(s, o) ==
  LET stack == IF o = Main THEN Each(markvalue, s, s.stack) ELSE markvalue(s, s.h[o].v)
  IN  markobject(stack, s.h[o].u)

\* traversethread: the stack and the open upvalue; back to twups in the atomic phase
traversethread(s, o) ==
  LET again == IF isold(s, o) \/ s.gcstate = "propagate" THEN linkgclist(s, o, "grayagain") ELSE s
      stack == IF o = Main THEN Each(markvalue, again, s.stack) ELSE markvalue(again, s.h[o].v)
      m == markobject(stack, s.h[o].u)
  IN  IF s.gcstate = "atomic" /\ s.h[o].u # 0 /\ ~Contains(s.twups, o)
      THEN [m EXCEPT !.twups = <<o>> \o @] ELSE m

propagatemark(s) ==
  LET o == Head(s.gl["gray"])
      r == Paint([s EXCEPT !.gl["gray"] = Tail(@)], o, "black")
  IN  CASE s.h[o].tt = "table"  -> traversetable(r, o)
        [] s.h[o].tt = "thread" -> traversethread(r, o)
        [] OTHER                -> markobject(r, s.h[o].v)   \* a closure

RECURSIVE propagateall(_)
propagateall(s) ==
  Then(s, LAMBDA r : IF r.gl["gray"] = <<>> THEN r ELSE propagateall(propagatemark(r)))

\* One round over the ephemeron tables; changed when one of them marked something
ConvergeRound(s) ==
  Each(LAMBDA r, o :
             Then(Paint(r.s, o, "black"),
                  LAMBDA b : IF EphemeronMarks(b, o)
                             THEN [s |-> propagateall(traverseephemeron(b, o)), changed |-> TRUE]
                             ELSE [r EXCEPT !.s = traverseephemeron(b, o)]),
           [s |-> [s EXCEPT !.gl["ephemeron"] = <<>>], changed |-> FALSE], s.gl["ephemeron"])

RECURSIVE convergeephemerons(_)
convergeephemerons(s) ==
  Then(ConvergeRound(s), LAMBDA r : IF r.changed THEN convergeephemerons(r.s) ELSE r.s)

-----------------------------------------------------------------------------
(* Clearing of weak tables, freeing and sweeping.                          *)

clearbykeys(s, list) ==
  Each(LAMBDA r, o : LET q == Asked(r, r.h[o].k)
                         IN  clearkey(IF iscleared(q, r.h[o].k) THEN [q EXCEPT !.h[o].v = 0] ELSE q, o),
           s, list)

clearbyvalues(s, list) ==
  Each(LAMBDA r, o :
             LET b == Asked(r, r.h[o].a)
                 c == IF iscleared(b, r.h[o].a) THEN [b EXCEPT !.h[o].a = 0] ELSE b
                 d == Asked(c, r.h[o].v)
             IN  clearkey(IF iscleared(d, r.h[o].v) THEN [d EXCEPT !.h[o].v = 0] ELSE d, o),
           s, list)

\* luaF_closeupval for the upvalue of thread o
luaF_closeupval(s, o) ==
  LET uv == s.h[o].u
      closed == [s EXCEPT !.h[uv].v = s.h[o].v, !.h[uv].u = 0, !.h[o].u = 0]
  IN  IF uv = 0 THEN s
      ELSE IF iswhite(s, uv) THEN closed
      ELSE luaC_barrier(Paint(closed, uv, "black"), uv, s.h[o].v)

\* freeobj; a thread closes its upvalues, an open upvalue leaves its thread.
freeobj(s, o) ==
  LET r == CASE s.h[o].tt = "thread" -> luaF_closeupval(s, o)
             [] s.h[o].tt = "upval" /\ upisopen(s, o) -> [s EXCEPT !.h[s.h[o].u].u = 0]
             [] OTHER -> s
  IN  [r EXCEPT !.h[o] = Free]

\* One element of sweeplist; sweep.at is the place in the list, 0 when it is finished.
SweepOne(s) ==
  LET list == s.sweep.list
      at   == s.sweep.at
      o    == s.list[list][at]
      next == IF isdead(s, o)
              THEN freeobj([s EXCEPT !.list[list] = RemoveAt(@, at)], o)
              ELSE [s EXCEPT !.h[o].color = s.white, !.h[o].age = "NEW", !.sweep.at = at + 1]
  IN  IF at = 0 THEN s
      ELSE IF at > Len(s.list[list]) THEN [s EXCEPT !.sweep.at = 0]
      ELSE IF next.sweep.at > Len(next.list[list]) THEN [next EXCEPT !.sweep.at = 0] ELSE next

sweeplist(s, n) == Each(LAMBDA r, k : SweepOne(r), s, [k \in 1..n |-> k])

\* sweeptolive: until an object stays
RECURSIVE sweeptolive(_)
sweeptolive(s) ==
  Then(SweepOne(s), LAMBDA r : IF r.sweep.at = s.sweep.at THEN sweeptolive(r) ELSE r)

entersweep(s) ==
  sweeptolive([s EXCEPT !.gcstate = "swpallgc", !.sweep = [list |-> "allgc", at |-> 1]])

-----------------------------------------------------------------------------
(* Finalizers.                                                             *)

Prepend(s, list, o) ==
  [s EXCEPT !.list[list] = <<o>> \o @,
            !.sweep.at = IF s.sweep.list = list /\ @ > 1 THEN @ + 1 ELSE @]

\* udata2finalize
udata2finalize(s) ==
  LET o == Head(s.list["tobefnz"])
      r == Prepend([s EXCEPT !.list["tobefnz"] = Tail(@),
                             !.sweep.at = IF s.sweep.list = "tobefnz" /\ @ > 1 THEN @ - 1 ELSE @], "allgc", o)
      q == [r EXCEPT !.h[o].fin = FALSE]
  IN  IF issweepphase(s) THEN makewhite(q, o)
      ELSE IF s.h[o].age = "OLD1" THEN [q EXCEPT !.firstold1 = o] ELSE q

\* The elements of a list before the object limit; all of them when it is 0
Before(list, limit) ==
  IF limit = 0 THEN list
  ELSE SubSeq(list, 1, (CHOOSE i \in DOMAIN list : list[i] = limit) - 1)
From(list, o) == IF o = 0 THEN <<>> ELSE SubSeq(list, Len(Before(list, o)) + 1, Len(list))
Next1(list, o) == LET rest == From(list, o) IN IF Len(rest) > 1 THEN rest[2] ELSE 0
First(list) == IF list = <<>> THEN 0 ELSE Head(list)

\* separatetobefnz; the objects that stay keep their order.
separatetobefnz(s, all) ==
  LET list  == s.list["finobj"]
      young == Before(list, s.finobjold1)
      out(o) == all \/ iswhite(s, o)
      stay == SelectSeq(list, LAMBDA o : ~(Contains(young, o) /\ out(o)))
  IN  [s EXCEPT !.list["finobj"] = stay, !.list["tobefnz"] = @ \o SelectSeq(young, out),
                !.finobjsur = First(SelectSeq(From(list, @), LAMBDA o : Contains(stay, o)))]

\* correctpointers, checkpointer
correctpointers(s, o) ==
  LET list == s.list["allgc"]
      fix(p) == IF p = o THEN Next1(list, o) ELSE p
  IN  [s EXCEPT !.survival = fix(@), !.old1 = fix(@), !.reallyold = fix(@), !.firstold1 = fix(@)]

\* luaC_checkfinalizer, for an object that got a metatable with __gc
luaC_checkfinalizer(s, o) ==
  LET Place(x) == CHOOSE j \in DOMAIN x.list["allgc"] : x.list["allgc"][j] = o
      White(x) == IF s.sweep.list = "allgc" /\ s.sweep.at = Place(s) + 1 THEN sweeptolive(x) ELSE x
      Unlinked(x) == [x EXCEPT !.list["allgc"] = RemoveAt(@, Place(x)),
                               !.sweep.at = IF x.sweep.list = "allgc" /\ @ > Place(x) THEN @ - 1 ELSE @]
  IN  IF s.h[o].fin THEN s
      ELSE [Prepend(Unlinked(IF issweepphase(s) THEN White(makewhite(s, o)) ELSE correctpointers(s, o)), "finobj", o)
            EXCEPT !.h[o].fin = TRUE]

-----------------------------------------------------------------------------
(* The atomic phase.                                                       *)

\* The head of the list up to where it was
NewIn(list, orig) == SubSeq(list, 1, Len(list) - Len(orig))

MarkRoots(s) == propagateall(markobject([s EXCEPT !.gl["grayagain"] = <<>>, !.gcstate = "atomic"], Main))
MarkAgain(s, grayagain) == convergeephemerons(propagateall([s EXCEPT !.gl["gray"] = grayagain]))
ClearValues(s) == clearbyvalues(clearbyvalues(s, s.gl["weak"]), s.gl["allweak"])
MarkBeingFnz(s) == convergeephemerons(propagateall(Each(markobject, s, s.list["tobefnz"])))
ClearKeys(s) == clearbykeys(clearbykeys(s, s.gl["ephemeron"]), s.gl["allweak"])
\* Resurrected values: from the tables that came to the lists since e
ClearResurrected(e, s) ==
  clearbyvalues(clearbyvalues(s, NewIn(s.gl["weak"], e.gl["weak"])), NewIn(s.gl["allweak"], e.gl["allweak"]))
Resurrect(e) == ClearResurrected(e, ClearKeys(MarkBeingFnz(separatetobefnz(e, FALSE))))

atomic(s) ==
  LET Flipped(x) == [x EXCEPT !.white = otherwhite(s)]
  IN  Flipped(Resurrect(ClearValues(MarkAgain(propagateall(remarkupvals(MarkRoots(s))), s.gl["grayagain"]))))

-----------------------------------------------------------------------------
(* The generational collector.                                             *)

NextAge(age) ==
  CASE age = "NEW" -> "SURVIVAL" [] age \in {"SURVIVAL", "OLD0"} -> "OLD1"
    [] age = "OLD1" -> "OLD" [] OTHER -> age

\* sweepgen over a part of a list: [s, live, old1]
sweepgen(s, part) ==
  LET One(r, o) ==
        IF iswhite(r.s, o) THEN [r EXCEPT !.s = freeobj(r.s, o)]
        ELSE LET age == NextAge(r.s.h[o].age)
                 q == setage(r.s, o, age)
             IN  [s    |-> IF r.s.h[o].age = "NEW" THEN makewhite(q, o) ELSE q,
                  live |-> Append(r.live, o),
                  old1 |-> IF age = "OLD1" THEN Append(r.old1, o) ELSE r.old1]
  IN  Each(One, [s |-> s, live |-> <<>>, old1 |-> <<>>], part)

\* correctgraylist: one element, and whether it remains
CorrectGray(s, o) ==
  IF iswhite(s, o) THEN s
  ELSE IF s.h[o].age = "TOUCHED1" THEN setage(Paint(s, o, "black"), o, "TOUCHED2")
  ELSE IF s.h[o].tt = "thread" THEN s
  ELSE Paint(IF s.h[o].age = "TOUCHED2" THEN setage(s, o, "OLD") ELSE s, o, "black")

correctgraylists(s) ==
  LET lists == s.gl["grayagain"] \o s.gl["weak"] \o s.gl["allweak"] \o s.gl["ephemeron"]
      remains(o) == ~iswhite(s, o) /\ (s.h[o].age = "TOUCHED1" \/ s.h[o].tt = "thread")
      r == Each(CorrectGray, s, lists)
  IN  [r EXCEPT !.gl["grayagain"] = SelectSeq(lists, remains),
                !.gl["weak"] = <<>>, !.gl["allweak"] = <<>>, !.gl["ephemeron"] = <<>>]

markold(s, part) ==
  Each(LAMBDA r, o : IF r.h[o].age # "OLD1" THEN r
                         ELSE LET q == setage(r, o, "OLD")
                              IN  IF isblack(q, o) THEN reallymarkobject(q, o) ELSE q,
           s, part)

\* finishgencycle without the finalizers, which follow
finishgencycle(s) == [correctgraylists(s) EXCEPT !.gcstate = "propagate", !.callall = TRUE]

minor2inc(s, kind) ==
  entersweep([s EXCEPT !.gckind = kind, !.reallyold = 0, !.old1 = 0, !.survival = 0,
                       !.finobjrold = 0, !.finobjold1 = 0, !.finobjsur = 0])

\* The old objects that a young one may refer to are traversed again.
MarkOldLists(s) ==
  LET a == IF s.firstold1 = 0 THEN s
           ELSE markold([s EXCEPT !.firstold1 = 0],
                        Before(From(s.list["allgc"], s.firstold1), s.reallyold))
  IN  markold(a, Before(s.list["finobj"], s.finobjrold) \o s.list["tobefnz"])

\* sweepgen over the new objects of a list, then over those that survived once
SweepYoung(s, name, survival, old1) ==
  LET list == s.list[name]
      Second(x) == LET y == sweepgen(x.s, Before(From(list, survival), old1))
                   IN  [s    |-> [y.s EXCEPT !.list[name] = x.live \o y.live \o From(list, old1)],
                        old  |-> First(y.live \o From(list, old1)),
                        old1 |-> First(x.old1 \o y.old1)]
  IN  Then(sweepgen(s, Before(list, survival)), Second)

\* youngcollection; major is the answer of checkminormajor.
youngcollection(s, major) ==
  LET All1(b) == Then(SweepYoung([b EXCEPT !.gcstate = "swpallgc"], "allgc", s.survival, s.old1), LAMBDA x :
        [x.s EXCEPT !.firstold1 = IF @ # 0 THEN @ ELSE x.old1,
                    !.reallyold = s.old1, !.old1 = x.old, !.survival = First(x.s.list["allgc"])])
      Fin(b) == Then(SweepYoung(b, "finobj", b.finobjsur, b.finobjold1), LAMBDA x :
        [x.s EXCEPT !.finobjrold = b.finobjold1, !.finobjold1 = x.old, !.finobjsur = First(x.s.list["finobj"])])
      ToBe(b) == Then(sweepgen(b, b.list["tobefnz"]), LAMBDA x : [x.s EXCEPT !.list["tobefnz"] = x.live])
      Finish(r) == IF major THEN minor2inc(r, "GENMAJOR") ELSE finishgencycle(r)
  IN  Then(Then(Then(Then(Then(Then(s, MarkOldLists), atomic), All1), Fin), ToBe), Finish)

\* sweep2old over a list
sweep2old(s, list) ==
  LET One(r, o) ==
        IF iswhite(r, o) THEN freeobj([r EXCEPT !.list[list] = SelectSeq(@, LAMBDA x : x # o)], o)
        ELSE LET q == setage(r, o, "OLD")
             IN  IF q.h[o].tt = "thread" THEN linkgclist(q, o, "grayagain")
                 ELSE Paint(q, o, IF q.h[o].tt = "upval" /\ upisopen(q, o) THEN "gray" ELSE "black")
  IN  Each(One, s, s.list[list])

atomic2gen(s) ==
  LET a == sweep2old([cleargraylists(s) EXCEPT !.gcstate = "swpallgc"], "allgc")
      b == [a EXCEPT !.reallyold = First(a.list["allgc"]), !.old1 = First(a.list["allgc"]),
                     !.survival = First(a.list["allgc"]), !.firstold1 = 0]
      c == sweep2old(b, "finobj")
      d == [c EXCEPT !.finobjrold = First(c.list["finobj"]), !.finobjold1 = First(c.list["finobj"]),
                     !.finobjsur = First(c.list["finobj"]), !.gckind = "GENMINOR"]
  IN  finishgencycle(sweep2old(d, "tobefnz"))

-----------------------------------------------------------------------------
(* One step of the collector.                                              *)

\* sweepstep
sweepstep(s, next, nextlist, fast) ==
  IF s.sweep.at # 0 THEN sweeplist(s, IF fast THEN 3 * Main ELSE GCSWEEPMAX)
  ELSE [s EXCEPT !.gcstate = next, !.sweep = [list |-> nextlist, at |-> IF nextlist = "" THEN 0 ELSE 1]]

\* singlestep up to the call of finalizers; minor is the answer of checkmajorminor.
AfterAtomic(s, minor) == IF minor THEN atomic2gen(s) ELSE entersweep(s)

singlestep(s, fast, minor) ==
  CASE s.gcstate = "pause"       -> [restartcollection(s) EXCEPT !.gcstate = "propagate"]
    [] s.gcstate = "propagate"   -> IF fast \/ s.gl["gray"] = <<>> THEN [s EXCEPT !.gcstate = "enteratomic"]
                                    ELSE propagatemark(s)
    [] s.gcstate = "enteratomic" -> AfterAtomic(atomic(s), minor)
    [] s.gcstate = "swpallgc"    -> sweepstep(s, "swpfinobj", "finobj", fast)
    [] s.gcstate = "swpfinobj"   -> sweepstep(s, "swptobefnz", "tobefnz", fast)
    [] s.gcstate = "swptobefnz"  -> sweepstep(s, "swpend", "", fast)
    [] s.gcstate = "swpend"      -> [s EXCEPT !.gcstate = "callfin"]
    [] OTHER                     -> [s EXCEPT !.gcstate = "pause"]

\* Whether a finalizer comes next: GCScallfin, or callallpendingfinalizers
Finalizing == (g.gcstate = "callfin" \/ g.callall) /\ g.list["tobefnz"] # <<>>

\* GCTM: the finalizer runs with its object, which it may keep in a variable that
\* holds nothing.
GCTM ==
  /\ Finalizing
  /\ LET o == Head(g.list["tobefnz"])
         s == udata2finalize(g)
     IN  /\ \E keep \in {0} \cup {i \in DOMAIN g.stack : g.stack[i] = 0} :
              g' = IF keep = 0 THEN s ELSE [s EXCEPT !.stack[keep] = o]
         /\ finalized' = finalized \cup {o}
  /\ UNCHANGED <<ops, goal>>

\* incstep, a part of it as small as one step
IncStep ==
  /\ g.gckind # "GENMINOR" /\ goal = <<>> /\ ~Finalizing /\ ~g.callall
  /\ \E minor \in BOOLEAN :
       /\ minor => g.gckind = "GENMAJOR" /\ g.gcstate = "enteratomic"
       /\ g' = singlestep(g, FALSE, minor)
  /\ UNCHANGED <<ops, goal, finalized>>

\* luaC_step in generational mode
YoungCollection ==
  /\ g.gckind = "GENMINOR" /\ goal = <<>> /\ ~g.callall
  /\ \E major \in BOOLEAN : g' = youngcollection(g, major)
  /\ UNCHANGED <<ops, goal, finalized>>

\* The end of callallpendingfinalizers
AllCalled ==
  /\ g.callall /\ ~Finalizing
  /\ g' = [g EXCEPT !.callall = FALSE] /\ UNCHANGED <<ops, goal, finalized>>

\* mutant: a full collection goes on with the cycle that is under way
FullGC_continue ==
  /\ goal = <<>> /\ ops > 0 /\ ~g.callall /\ "full" \in g.does
  /\ g' = [g EXCEPT !.gckind = "INC"] /\ goal' = <<"callfin", "end">>
  /\ finalized' = {} /\ ops' = ops - 1

\* luaC_fullgc: fullinc, or fullgen which ends with entergen
FullGC ==
  /\ goal = <<>> /\ ops > 0 /\ ~g.callall /\ "full" \in g.does
  /\ LET s == [g EXCEPT !.gckind = "INC"]
     IN  IF g.gckind = "GENMINOR"
         THEN g' = minor2inc(g, "INC") /\ goal' = <<"pause", "propagate", "gen", "swept">>
         ELSE /\ g' = IF keepinvariant(g) THEN entersweep(s) ELSE s
              /\ goal' = <<"pause", "callfin", IF g.gckind = "GENMAJOR" THEN "major" ELSE "end">>
  /\ finalized' = {} /\ ops' = ops - 1

\* luaC_changemode
ChangeMode(kind) ==
  /\ goal = <<>> /\ ops > 0 /\ ~g.callall /\ kind \in g.does /\ g.gckind # kind
  /\ IF kind = "INC"
     THEN g' = (IF g.gckind = "GENMAJOR" THEN [g EXCEPT !.gckind = "INC"] ELSE minor2inc(g, "INC")) /\ goal' = <<>>
     ELSE g' = [g EXCEPT !.gckind = "INC"] /\ goal' = <<"pause", "propagate", "gen", "swept">>
  /\ ops' = ops - 1 /\ finalized' = {}

\* luaC_runtilstate: the script waits until the collector has come there.
RunTil ==
  /\ goal # <<>> /\ ~Finalizing /\ ~g.callall
  /\ LET there == g.gcstate = IF Head(goal) \in {"end", "major"} THEN "pause" ELSE Head(goal)
     IN  CASE Head(goal) = "gen" -> g' = atomic2gen(atomic(g)) /\ goal' = Tail(goal)
           [] Head(goal) = "swept" -> goal' = <<>> /\ UNCHANGED g
           [] Head(goal) \notin {"gen", "swept"} /\ ~there -> g' = singlestep(g, TRUE, FALSE) /\ UNCHANGED goal
           [] OTHER -> /\ g' = CASE Head(goal) = "end" -> [g EXCEPT !.gckind = "INC"]
                                 [] Head(goal) = "major" -> [g EXCEPT !.gckind = "GENMAJOR"]
                                 [] OTHER -> g
                       /\ goal' = Tail(goal)
  /\ UNCHANGED <<ops, finalized>>

-----------------------------------------------------------------------------
(* The script: every store comes with its barrier.                         *)

Script(step) ==
  /\ step \in g.does /\ goal = <<>> /\ ops > 0 /\ ~g.callall
  /\ ops' = ops - 1 /\ UNCHANGED <<goal, finalized>>
Held == {g.stack[i] : i \in DOMAIN g.stack} \cap All
Tables == {o \in Held : g.h[o].tt = "table"}
Room == {o \in 1..N : g.h[o].tt = "free"}
Put(s, i, v) == [s EXCEPT !.stack[i] = v]

\* luaC_newobj
luaC_newobj(s, o, fields) ==
  Prepend([s EXCEPT !.h[o] = [fields EXCEPT !.color = s.white]], "allgc", o)

NewTable(i) ==
  /\ Script("new") /\ Room # {}
  /\ LET o == CHOOSE x \in Room : \A y \in Room : x <= y
     IN  g' = Put(luaC_newobj(g, o, [Free EXCEPT !.tt = "table"]), i, o)

\* A new closure in coroutine th: luaF_findupval, newupval
NewClosure(i, th) ==
  /\ Script("closure") /\ th \in Held /\ th # Main /\ g.h[th].tt = "thread"
  /\ LET uv == g.h[th].u
         c  == CHOOSE x \in Room : \A y \in Room : x <= y
         w  == CHOOSE x \in Room \ {c} : \A y \in Room \ {c} : x <= y
         s  == IF uv # 0 THEN g
               ELSE [luaC_newobj(g, w, [Free EXCEPT !.tt = "upval", !.u = th])
                       EXCEPT !.h[th].u = w,
                              !.twups = IF Contains(@, th) THEN @ ELSE <<th>> \o @]
     IN  /\ Cardinality(Room) >= IF uv = 0 THEN 2 ELSE 1
         /\ g' = Put(luaC_newobj(s, c, [Free EXCEPT !.tt = "closure", !.v = s.h[th].u]), i, c)

\* A variable takes what another one, or an object held in one, refers to.
Readable(o) ==
  CASE g.h[o].tt = "closure" -> {UpValue(g, g.h[o].v)}
    [] g.h[o].tt = "thread" /\ o # Main -> {g.h[o].v}
    [] g.h[o].tt = "table" -> {g.h[o].v, g.h[o].a} \cup (IF g.h[o].v # 0 THEN {g.h[o].k} ELSE {})
    [] OTHER -> {}
Assign(i) ==
  /\ Script("assign")
  /\ \E v \in ({0} \cup Held \cup UNION {Readable(o) : o \in Held}) \ {-1, g.stack[i]} : g' = Put(g, i, v)

\* luaH_newkey with its barrier for the key, then the value with its own
SetTable(o) ==
  /\ Script("set")
  /\ \E k \in {g.h[o].k, -1} \cup Held, v \in {0} \cup Held :
       /\ k # 0 /\ (k # g.h[o].k \/ v # g.h[o].v) /\ (k # g.h[o].k => v # 0)
       /\ LET s == luaC_barrierback([g EXCEPT !.h[o].v = v, !.h[o].k = k], o, IF k = g.h[o].k THEN 0 ELSE k)
          IN  g' = luaC_barrierback(s, o, v)

SetArray(o) ==
  /\ Script("array") /\ g.h[o].a # -1
  /\ \E v \in ({0} \cup Held) \ {g.h[o].a} : g' = luaC_barrierback([g EXCEPT !.h[o].a = v], o, v)

\* OP_SETUPVAL
SetUpvalue(c) ==
  /\ Script("upvalue") /\ g.h[c].tt = "closure"
  /\ LET uv == g.h[c].v
     IN  \E v \in ({0} \cup Held) \ {UpValue(g, uv)} :
           g' = IF upisopen(g, uv) THEN [g EXCEPT !.h[g.h[uv].u].v = v]
                ELSE luaC_barrier([g EXCEPT !.h[uv].v = v], uv, v)

\* The coroutine assigns to its variable: stacks have no barrier.
ThreadAssign(th) ==
  /\ Script("thread") /\ g.h[th].tt = "thread" /\ th # Main
  /\ \E v \in ({0} \cup Held) \ {g.h[th].v} : g' = [g EXCEPT !.h[th].v = v]

\* The variable of the coroutine goes out of scope.
CloseUpvalue(th) ==
  /\ Script("close") /\ g.h[th].tt = "thread" /\ g.h[th].u # 0
  /\ g' = [luaF_closeupval(g, th) EXCEPT !.h[th].v = 0]

\* lua_setmetatable with another __mode, or with __gc
SetMode(o) == Script("mode") /\ \E m \in (0..3) \ {g.h[o].mode} : g' = [g EXCEPT !.h[o].mode = m]
SetFinalizer(o) ==
  /\ Script("finalizer") /\ ~g.h[o].fin
  /\ g' = luaC_checkfinalizer(g, o)

-----------------------------------------------------------------------------
GCStart(heap) ==
  [h |-> [o \in All |-> IF o = Main THEN [Free EXCEPT !.tt = "thread"] ELSE heap.h[o]],
   stack |-> heap.stack,
   list |-> [allgc |-> SelectSeq([o \in 1..Main |-> o], LAMBDA o : o = Main \/ (heap.h[o].tt # "free" /\ ~heap.h[o].fin)),
             finobj |-> SelectSeq([o \in 1..N |-> o], LAMBDA o : heap.h[o].fin), tobefnz |-> <<>>],
   gl |-> [gray |-> <<>>, grayagain |-> <<>>, weak |-> <<>>, allweak |-> <<>>, ephemeron |-> <<>>],
   gcstate |-> "pause", gckind |-> "INC", white |-> "w0", sweep |-> [list |-> "", at |-> 0],
   survival |-> 0, old1 |-> 0, reallyold |-> 0, firstold1 |-> 0,
   finobjsur |-> 0, finobjold1 |-> 0, finobjrold |-> 0,
   twups |-> SelectSeq([o \in 1..N |-> o], LAMBDA o : heap.h[o].tt = "thread" /\ heap.h[o].u # 0),
   callall |-> FALSE, does |-> heap.does]

GCInit ==
  /\ \E heap \in Heaps : g = GCStart(heap) /\ ops = heap.ops
  /\ goal = <<>> /\ finalized = {}

GCNext ==
  \/ GCTM \/ IncStep \/ YoungCollection \/ AllCalled \/ FullGC \/ RunTil
  \/ \E kind \in {"INC", "GENMINOR"} : ChangeMode(kind)
  \/ \E i \in DOMAIN g.stack : NewTable(i) \/ Assign(i) \/ \E th \in Held : NewClosure(i, th)
  \/ \E o \in Tables : SetTable(o) \/ SetArray(o) \/ SetMode(o) \/ SetFinalizer(o)
  \/ \E o \in Held : SetUpvalue(o) \/ ThreadAssign(o) \/ CloseUpvalue(o)

GCSpec == GCInit /\ [][GCNext]_gcVars

-----------------------------------------------------------------------------
(* Properties.                                                             *)

\* What the script can read from object o, weak or not
Refs(s, o) ==
  {x \in All :
     \/ o = Main /\ \E i \in DOMAIN s.stack : s.stack[i] = x
     \/ s.h[o].tt = "table" /\ (x = s.h[o].v \/ x = s.h[o].a \/ (x = s.h[o].k /\ s.h[o].v # 0))
     \/ s.h[o].tt \in {"closure", "thread"} /\ x = s.h[o].v
     \/ s.h[o].tt = "thread" /\ x = s.h[o].u
     \/ s.h[o].tt = "upval" /\ x = UpValue(s, o)}

\* What keeps alive: not the weak values, nor a value whose weak key is not in set
StrongRefs(s, set, o) ==
  IF s.h[o].tt # "table" \/ s.h[o].mode = 0 THEN Refs(s, o)
  ELSE {x \in Refs(s, o) :
          \/ s.h[o].mode = 1 /\ x = s.h[o].k
          \/ s.h[o].mode = 2 /\ x = s.h[o].a
          \/ s.h[o].mode = 2 /\ x = s.h[o].v /\ (s.h[o].k \in All => (s.h[o].k \in set \/ s.h[s.h[o].k].tt = "string"))}

RECURSIVE Closure(_, _)
Closure(s, roots) ==
  LET more == roots \cup UNION {StrongRefs(s, roots, o) : o \in roots}
  IN  IF more = roots THEN roots ELSE Closure(s, more)
Alive(s) == Closure(s, {Main})

\* Whatever the collector did between the steps of the script: no object the
\* script can get at, be it through a weak table, an upvalue of a dead coroutine or
\* a finalizer still to run, has been freed; and none is freed before its finalizer.
NoDangling ==
  LET kept == Closure(g, {Main} \cup ToSet(g.list["tobefnz"]) \cup ToSet(g.list["finobj"]))
  IN  \A o \in kept : g.h[o].tt # "free" /\ \A x \in Refs(g, o) : g.h[x].tt # "free"

\* A full collection leaves no garbage: what exists when it ends is reachable,
\* or belongs to an object whose finalizer just ran or is due.  (Strings are values
\* and no garbage in a weak table.)
FullCollectionIsExact ==
  goal # <<>> /\ (goal[1] = "swept" \/ (goal[1] \in {"end", "major"} /\ g.gcstate = "pause")) =>
     LET due == finalized \cup ToSet(g.list["tobefnz"])
     IN  \A o \in All : g.h[o].tt \notin {"free", "string"} => o \in Closure(g, {Main} \cup due)

\* The atomic phase hands an object to its finalizer only when the script
\* cannot reach it any more.
OnlyGarbageIsFinalized ==
  [][\A o \in All : Contains(g'.list["tobefnz"], o) /\ ~Contains(g.list["tobefnz"], o) => o \notin Alive(g)]_gcVars
=============================================================================
