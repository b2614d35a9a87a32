----------------------------- MODULE LuaPattern -----------------------------
(***************************************************************************)
(* Pattern matching of the bundled Lua (lstrlib.c): find, match, gmatch and    *)
(* gsub, by a recursive matcher that goes back over repetitions and captures.   *)
(* A subject and a pattern are sequences of characters; places in them are      *)
(* counted from 1, and 0 is NULL.                                             *)
(***************************************************************************)
EXTENDS Integers, Sequences, FiniteSets, SequencesExt

CONSTANTS
  Pool,             \* bound: patterns, as sequences of parts (see below)
  Subjects,         \* bound: subjects
  Replacements,     \* bound: replacements of gsub, and the number of them: [tr, text, max]
  LUA_MAXCAPTURES,  \* 32 in the code
  MAXCCALLS         \* 200 in the code

ASSUME LuaPatternAssumption == LUA_MAXCAPTURES \in Nat /\ MAXCCALLS \in Nat

VARIABLES
  arg,   \* the arguments: [items, src, repl]
  gm,    \* GMatchState: where the search goes on, the end of the last match, what was given
  gs     \* the loop of str_gsub: place, last match, count, text so far, changed, whether it ended

patVars == <<arg, gm, gs>>

-----------------------------------------------------------------------------
(* Classes.                                                                *)

NUL == "NUL"
Decimal == <<"1", "2", "3", "4", "5", "6", "7", "8", "9">>
At(s, i) == IF i \in DOMAIN s THEN s[i] ELSE NUL
Letters == {"a", "b"}
Digits  == {"1", "2"}
Ord(c) == CASE c = "a" -> 97 [] c = "b" -> 98 [] c = "1" -> 49 [] c = "2" -> 50 [] c = "-" -> 45
            [] c = "^" -> 94 [] c = "]" -> 93 [] OTHER -> 0

\* match_class, for the classes of letters and of digits
match_class(c, cl) ==
  CASE cl = "a" -> c \in Letters [] cl = "A" -> c \notin Letters
    [] cl = "d" -> c \in Digits  [] cl = "D" -> c \notin Digits
    [] OTHER -> cl = c

\* classend: 0 for a malformed pattern
RECURSIVE SetEnd(_, _)
SetEnd(pat, p) ==
  IF p > Len(pat) THEN 0
  ELSE LET q == IF pat[p] = "%" /\ p < Len(pat) THEN p + 2 ELSE p + 1
       IN  IF At(pat, q) = "]" THEN q + 1 ELSE SetEnd(pat, q)
classend(pat, p) ==
  CASE pat[p] = "%" -> IF p = Len(pat) THEN 0 ELSE p + 2
    [] pat[p] = "[" -> SetEnd(pat, IF At(pat, p + 1) = "^" THEN p + 2 ELSE p + 1)
    [] OTHER -> p + 1

\* matchbracketclass, with p at a member and ec at the ]
RECURSIVE InSet(_, _, _, _)
InSet(c, pat, p, ec) ==
  CASE p >= ec -> FALSE
    [] p < ec /\ pat[p] = "%" -> match_class(c, pat[p + 1]) \/ InSet(c, pat, p + 2, ec)
    [] p < ec /\ pat[p] # "%" /\ pat[p + 1] = "-" /\ p + 2 < ec ->
         (Ord(pat[p]) <= Ord(c) /\ Ord(c) <= Ord(pat[p + 2])) \/ InSet(c, pat, p + 3, ec)
    [] OTHER -> pat[p] = c \/ InSet(c, pat, p + 1, ec)
matchbracketclass(c, pat, p, ec) ==
  IF pat[p + 1] = "^" THEN ~InSet(c, pat, p + 2, ec) ELSE InSet(c, pat, p + 1, ec)

singlematch(src, pat, s, p, ep) ==
  /\ s <= Len(src)
  /\ CASE pat[p] = "." -> TRUE
       [] pat[p] = "%" -> match_class(src[s], pat[p + 1])
       [] pat[p] = "[" -> matchbracketclass(src[s], pat, p, ep - 1)
       [] OTHER -> pat[p] = src[s]

\* matchbalance from s + 1 on, with cont to close
RECURSIVE Balance(_, _, _, _, _)
Balance(src, b, e, s, cont) ==
  CASE s > Len(src) -> 0
    [] s <= Len(src) /\ src[s] = e -> IF cont = 1 THEN s + 1 ELSE Balance(src, b, e, s + 1, cont - 1)
    [] s <= Len(src) /\ src[s] # e /\ src[s] = b -> Balance(src, b, e, s + 1, cont + 1)
    [] OTHER -> Balance(src, b, e, s + 1, cont)
matchbalance(src, pat, s, p) ==
  IF At(src, s) # pat[p] THEN 0 ELSE Balance(src, pat[p], pat[p + 1], s + 1, 1)

-----------------------------------------------------------------------------
(* The matcher.  A state is [src, pat, s, cap, depth, err]: s is the result,    *)
(* cap the captures, with a len of CAP_UNFINISHED or CAP_POSITION while that    *)
(* is all there is to say.                                                   *)

CAP_UNFINISHED == -1
CAP_POSITION   == -2
With(s, Op(_)) == CHOOSE y \in {Op(x) : x \in {s}} : TRUE
Fail(ms)    == [ms EXCEPT !.s = 0]
Raise(ms)   == [ms EXCEPT !.s = 0, !.err = TRUE]

\* capture_to_close; 0 for an invalid pattern capture
capture_to_close(ms) ==
  LET open == {l \in DOMAIN ms.cap : ms.cap[l].len = CAP_UNFINISHED}
  IN  IF open = {} THEN 0 ELSE CHOOSE l \in open : \A k \in open : k <= l

\* mutant: a capture stays closed when the rest does not match
end_capture_closed(ms, l, r) == r

\* What end_capture and start_capture do behind the match of the rest r
end_capture(ms, l, r) ==
  IF r.s = 0 /\ ~r.err THEN [r EXCEPT !.cap[l].len = CAP_UNFINISHED] ELSE r
start_capture(ms, r) == IF r.s = 0 /\ ~r.err THEN [r EXCEPT !.cap = ms.cap] ELSE r

\* match_capture; CAP_POSITION, unsigned, is longer than any subject.
match_capture(ms, s, l) ==
  LET c == ms.cap[l]
  IN  IF c.len # CAP_POSITION /\ Len(ms.src) + 1 - s >= c.len /\ SubSeq(ms.src, s, s + c.len - 1) = SubSeq(ms.src, c.init, c.init + c.len - 1)
      THEN s + c.len ELSE 0

RECURSIVE match(_, _, _), Init0(_, _, _), max_expand(_, _, _, _), min_expand(_, _, _, _)

\* match: a call costs one of matchdepth until it returns.
match(m, s, p) ==
  With(m, LAMBDA ms :
    IF ms.depth = 0 THEN Raise(ms)
    ELSE With(Init0([ms EXCEPT !.depth = @ - 1], s, p), LAMBDA r : [r EXCEPT !.depth = @ + 1]))

\* max_expand with i repetitions, or fewer
max_expand(ms, s, ep, i) ==
  IF i < 0 THEN Fail(ms)
  ELSE With(match(ms, s + i, ep + 1),
            LAMBDA r : IF r.s # 0 \/ r.err THEN r ELSE max_expand(r, s, ep, i - 1))

min_expand(ms, s, p, ep) ==
  With(match(ms, s, ep + 1),
       LAMBDA r : IF r.s # 0 \/ r.err THEN r
                  ELSE IF singlematch(ms.src, ms.pat, s, p, ep) THEN min_expand(r, s + 1, p, ep)
                  ELSE Fail(r))

\* How often the class at p matches from s on
Most(ms, s, p, ep) ==
  LET stops == {i \in 0..(Len(ms.src) + 1 - s) : ~singlematch(ms.src, ms.pat, s + i, p, ep)}
  IN  CHOOSE i \in stops : \A j \in stops : i <= j

\* default: a class and its suffix
Default(ms, s, p) ==
  LET pat == ms.pat
      ep  == classend(pat, p)
      suffix == At(pat, ep)
  IN  CASE ep = 0 -> Raise(ms)
        [] ep # 0 /\ ~singlematch(ms.src, pat, s, p, ep) ->
             IF suffix \in {"*", "?", "-"} THEN Init0(ms, s, ep + 1) ELSE Fail(ms)
        [] OTHER ->
             CASE suffix = "?" -> With(match(ms, s + 1, ep + 1),
                                       LAMBDA r : IF r.s # 0 \/ r.err THEN r ELSE Init0(r, s, ep + 1))
               [] suffix = "+" -> max_expand(ms, s + 1, ep, Most(ms, s + 1, p, ep))
               [] suffix = "*" -> max_expand(ms, s, ep, Most(ms, s, p, ep))
               [] suffix = "-" -> min_expand(ms, s, p, ep)
               [] OTHER -> Init0(ms, s + 1, ep)

\* The escapes that are no class: %b, %f and %0 to %9 (there is no capture 0)
Escape(ms, s, p) ==
  LET pat == ms.pat
      cl  == At(pat, p + 1)
      ep  == IF At(pat, p + 2) = "[" THEN classend(pat, p + 2) ELSE 0
      previous == At(ms.src, s - 1)
      l   == CHOOSE n \in 1..9 : Decimal[n] = cl
  IN  CASE cl = "b" ->
             IF p + 3 > Len(pat) THEN Raise(ms)
             ELSE With(matchbalance(ms.src, pat, s, p + 2),
                       LAMBDA e : IF e = 0 THEN Fail(ms) ELSE Init0(ms, e, p + 4))
        [] cl = "f" ->
             IF ep = 0 THEN Raise(ms)
             ELSE IF /\ ~matchbracketclass(previous, pat, p + 2, ep - 1)
                     /\ matchbracketclass(At(ms.src, s), pat, p + 2, ep - 1)
                  THEN Init0(ms, s, ep) ELSE Fail(ms)
        [] OTHER ->
             IF cl = "0" \/ l > Len(ms.cap) \/ ms.cap[l].len = CAP_UNFINISHED THEN Raise(ms)
             ELSE With(match_capture(ms, s, l), LAMBDA e : IF e = 0 THEN Fail(ms) ELSE Init0(ms, e, p + 2))

Start(ms, s, p, what) ==
  IF Len(ms.cap) >= LUA_MAXCAPTURES THEN Raise(ms)
  ELSE start_capture(ms, match([ms EXCEPT !.cap = Append(@, [init |-> s, len |-> what])], s, p))

\* From the label init on
Init0(ms, s, p) ==
  LET pat == ms.pat
      c   == At(pat, p)
  IN  CASE p > Len(pat) -> [ms EXCEPT !.s = s]
        [] p <= Len(pat) /\ c = "(" -> IF At(pat, p + 1) = ")" THEN Start(ms, s, p + 2, CAP_POSITION)
                      ELSE Start(ms, s, p + 1, CAP_UNFINISHED)
        [] c = ")" -> With(capture_to_close(ms), LAMBDA l :
                        IF l = 0 THEN Raise(ms)
                        ELSE With(match([ms EXCEPT !.cap[l].len = s - ms.cap[l].init], s, p + 1),
                                  LAMBDA r : end_capture(ms, l, r)))
        [] c = "$" /\ p = Len(pat) -> IF s = Len(ms.src) + 1 THEN [ms EXCEPT !.s = s] ELSE Fail(ms)
        [] c = "%" /\ At(pat, p + 1) \in {"b", "f", "0"} \cup ToSet(Decimal) -> Escape(ms, s, p)
        [] OTHER -> Default(ms, s, p)

-----------------------------------------------------------------------------
(* find, match, gmatch and gsub.                                           *)

prepstate(src, pat) == [src |-> src, pat |-> pat, s |-> 0, cap |-> <<>>, depth |-> MAXCCALLS, err |-> FALSE]

\* posrelatI
posrelatI(pos, len) ==
  IF pos > 0 THEN pos ELSE IF pos = 0 \/ pos < -len THEN 1 ELSE len + pos + 1

\* get_onecapture: the text of a capture, a position in decimal
Capture(ms, c) == IF c.len = CAP_POSITION THEN <<Decimal[c.init]>> ELSE SubSeq(ms.src, c.init, c.init + c.len - 1)

\* push_captures: all of them, or the whole match when there are none
push_captures(ms, s) ==
  IF ms.cap = <<>> THEN <<SubSeq(ms.src, s, ms.s - 1)>> ELSE [i \in DOMAIN ms.cap |-> Capture(ms, ms.cap[i])]
Unfinished(ms) == \E i \in DOMAIN ms.cap : ms.cap[i].len = CAP_UNFINISHED

\* str_find_aux: [start, ms] of the first match at s1 or behind it; ms.s is 0 for none
RECURSIVE FindFrom(_, _, _, _)
FindFrom(src, pat, anchor, s1) ==
  With(match(prepstate(src, pat), s1, 1),
       LAMBDA r : IF r.s # 0 \/ r.err \/ s1 > Len(src) \/ anchor THEN [start |-> s1, ms |-> r]
                  ELSE FindFrom(src, pat, anchor, s1 + 1))
str_find_aux(src, pattern, init) ==
  LET anchor == At(pattern, 1) = "^"
      pat == IF anchor THEN Tail(pattern) ELSE pattern
      at  == posrelatI(init, Len(src))
  IN  IF at > Len(src) + 1 THEN [start |-> at, ms |-> prepstate(src, pat)] ELSE FindFrom(src, pat, anchor, at)

\* gmatch_aux: one call of the iterator; a match may not end where the last one did.
RECURSIVE gmatch_aux(_, _, _)
gmatch_aux(state, src, s) ==
  IF s > Len(src) + 1 THEN [state EXCEPT !.on = FALSE]
  ELSE With(match(prepstate(src, state.p), s, 1), LAMBDA r :
         IF r.err \/ (r.s # 0 /\ Unfinished(r)) THEN [state EXCEPT !.on = FALSE, !.err = TRUE]
         ELSE IF r.s # 0 /\ r.s # state.lastmatch
              THEN [state EXCEPT !.src = r.s, !.lastmatch = r.s, !.given = Append(@, push_captures(r, s))]
         ELSE gmatch_aux(state, src, s + 1))

\* add_s: the text of a replacement, %0 to %9 in it replaced
RECURSIVE add_s(_, _, _)
add_s(news, whole, caps) ==
  IF news = <<>> THEN <<>>
  ELSE IF Head(news) # "%" THEN <<Head(news)>> \o add_s(Tail(news), whole, caps)
  ELSE LET d == At(news, 2)
       IN  (CASE d = "0" -> whole
              [] d \in ToSet(Decimal) -> caps[CHOOSE n \in 1..9 : Decimal[n] = d]
              [] OTHER -> <<d>>) \o add_s(SubSeq(news, 3, Len(news)), whole, caps)

\* add_value, for a text or a table with one key: [text, changed]
add_value(repl, whole, caps) ==
  IF repl.tr = "string" THEN [text |-> add_s(repl.text, whole, caps), changed |-> TRUE]
  ELSE IF caps[1] = repl.text THEN [text |-> <<"y">>, changed |-> TRUE]
  ELSE [text |-> whole, changed |-> FALSE]

GsubMatches(r, lastmatch) == r.s # 0 /\ r.s # lastmatch

\* One round of the loop of str_gsub
GsubRound(state, repl, src, pattern) ==
  LET anchor == At(pattern, 1) = "^"
      pat == IF anchor THEN Tail(pattern) ELSE pattern
  IN  IF state.n >= repl.max THEN [state EXCEPT !.on = FALSE]
      ELSE With(match(prepstate(src, pat), state.src, 1), LAMBDA r :
             LET whole == SubSeq(src, state.src, r.s - 1)
                 value == add_value(repl, whole, push_captures(r, state.src))
             IN  IF r.err \/ (r.s # 0 /\ Unfinished(r)) THEN [state EXCEPT !.on = FALSE, !.err = TRUE]
                 ELSE IF GsubMatches(r, state.lastmatch)
                      THEN [state EXCEPT !.n = @ + 1, !.src = r.s, !.lastmatch = r.s, !.out = @ \o value.text,
                                         !.changed = @ \/ value.changed, !.on = ~anchor]
                 ELSE IF state.src <= Len(src)
                      THEN [state EXCEPT !.out = Append(@, src[state.src]), !.src = @ + 1, !.on = ~anchor]
                 ELSE [state EXCEPT !.on = FALSE])

\* What str_gsub returns at the end of the loop
GsubResult(state, src) ==
  IF state.changed THEN state.out \o SubSeq(src, state.src, Len(src)) ELSE src

-----------------------------------------------------------------------------
(* A pattern is a sequence of parts.  Its kind says what a part stands for:    *)
(* class (characters of a set, as often as suffix says), open, close, pos,      *)
(* back (n), balance (x, y), frontier (set), end.                            *)

\* Captures are closed, in their order, and referred to when closed.
RECURSIVE Nested(_, _, _)
Nested(items, open, closed) ==
  IF items = <<>> THEN open = <<>>
  ELSE LET k == Head(items).kind
           next == Len(open) + Cardinality(closed) + 1
       IN  CASE k = "open"  -> /\ Len(items) > 1 /\ items[2].kind # "close"
                               /\ Nested(Tail(items), Append(open, next), closed)
             [] k = "close" -> /\ open # <<>>
                               /\ Nested(Tail(items), Front(open), closed \cup {open[Len(open)]})
             [] k = "pos"   -> Nested(Tail(items), open, closed \cup {next})
             [] k = "back"  -> Head(items).n \in closed /\ Nested(Tail(items), open, closed)
             [] k = "end"   -> Len(items) = 1 /\ open = <<>>
             [] OTHER       -> Nested(Tail(items), open, closed)
Patterns == {items \in Pool : Nested(items, <<>>, {})}

Text(a) == (IF a.anchor THEN <<"^">> ELSE <<>>) \o FlattenSeq([i \in DOMAIN a.items |-> a.items[i].chars])

\* gmatch: the state of the iterator; str_gsub: its locals before the loop
gmatch(a) == [p |-> Text(a), src |-> 1, lastmatch |-> 0, given |-> <<>>, on |-> TRUE, err |-> FALSE]
str_gsub  == [src |-> 1, lastmatch |-> 0, n |-> 0, out |-> <<>>, changed |-> FALSE, on |-> TRUE, err |-> FALSE]

PatInit ==
  /\ \E items \in Patterns, src \in Subjects, repl \in Replacements, anchor \in BOOLEAN :
       arg = [items |-> items, src |-> src, repl |-> repl, anchor |-> anchor]
  /\ gm = gmatch(arg) /\ gs = str_gsub

GmatchStep == gm.on /\ gm' = gmatch_aux(gm, arg.src, gm.src) /\ UNCHANGED <<arg, gs>>
GsubStep   == ~gm.on /\ gs.on /\ gs' = GsubRound(gs, arg.repl, arg.src, Text(arg)) /\ UNCHANGED <<arg, gm>>

PatNext == GmatchStep \/ GsubStep
PatSpec == PatInit /\ [][PatNext]_patVars

-----------------------------------------------------------------------------
(* The meaning of a pattern: of all the ways to give every part a stretch of    *)
(* the subject, the first part that has a choice takes the longest one, or      *)
(* the shortest for -, then the next part, and so on.                         *)

Slice(src, pos, n) == SubSeq(src, pos, pos + n - 1)
Suffixed(suffix, n) ==
  CASE suffix = "" -> n = 1 [] suffix = "?" -> n <= 1 [] suffix = "+" -> n >= 1 [] OTHER -> TRUE
Balanced(x, y, w) ==
  LET count(c, n) == Cardinality({i \in 1..n : w[i] = c})
  IN  /\ Len(w) >= 2 /\ w[1] = x /\ count(x, Len(w)) = count(y, Len(w))
      /\ \A n \in 1..(Len(w) - 1) : count(x, n) > count(y, n)

\* The lengths part i may have behind the way w = [pos, lens, caps, open]
Lengths(src, i, w) ==
  LET room == 0..(Len(src) + 1 - w.pos)
  IN  CASE i.kind = "class" ->
             {n \in room : Suffixed(i.suffix, n) /\ \A j \in 0..(n - 1) : src[w.pos + j] \in i.set}
        [] i.kind = "back" ->
             LET c == w.caps[i.n] IN {n \in room : n = c.len /\ Slice(src, w.pos, n) = Slice(src, c.init, n)}
        [] i.kind = "balance" -> {n \in room : Balanced(i.x, i.y, Slice(src, w.pos, n))}
        [] i.kind = "frontier" -> {n \in {0} : At(src, w.pos - 1) \notin i.set /\ At(src, w.pos) \in i.set}
        [] i.kind = "end" -> {n \in {0} : w.pos = Len(src) + 1}
        [] OTHER -> {0}
Extended(w, i, n) ==
  LET last == w.open[Len(w.open)]
      v == [w EXCEPT !.pos = @ + n, !.lens = Append(@, n)]
  IN  CASE i.kind = "open" -> [v EXCEPT !.caps = Append(@, [init |-> w.pos, len |-> 0]), !.open = Append(@, Len(w.caps) + 1)]
        [] i.kind = "close" -> [v EXCEPT !.caps[last].len = w.pos - w.caps[last].init, !.open = Front(@)]
        [] i.kind = "pos" -> [v EXCEPT !.caps = Append(@, [init |-> w.pos, len |-> CAP_POSITION])]
        [] OTHER -> v
Ways(src, items, start) ==
  FoldLeft(LAMBDA ways, i : UNION {{Extended(w, i, n) : n \in Lengths(src, i, w)} : w \in ways},
           {[pos |-> start, lens |-> <<>>, caps |-> <<>>, open |-> <<>>]}, items)
Better(items, a, b) ==
  \E i \in DOMAIN items :
    /\ \A j \in 1..(i - 1) : a.lens[j] = b.lens[j]
    /\ IF items[i].kind = "class" /\ items[i].suffix = "-" THEN a.lens[i] < b.lens[i] ELSE a.lens[i] > b.lens[i]
Best(src, items, start) ==
  LET ways == Ways(src, items, start) IN {w \in ways : \A v \in ways : v = w \/ Better(items, w, v)}

RefCaptures(src, start, w) ==
  IF w.caps = <<>> THEN <<SubSeq(src, start, w.pos - 1)>> ELSE [i \in DOMAIN w.caps |-> Capture([src |-> src], w.caps[i])]

\* The matches one after the other, no two of which end at the same place
RECURSIVE RefMatches(_, _, _, _)
RefMatches(a, s, last, anchored) ==
  LET best == IF s > Len(a.src) + 1 THEN {} ELSE Best(a.src, a.items, s)
      w == CHOOSE x \in best : TRUE
  IN  IF s > Len(a.src) + 1 THEN <<>>
      ELSE IF best # {} /\ w.pos # last
           THEN <<[from |-> s, to |-> w.pos, caps |-> RefCaptures(a.src, s, w)]>>
                \o (IF anchored THEN <<>> ELSE RefMatches(a, w.pos, w.pos, FALSE))
      ELSE IF anchored THEN <<>> ELSE RefMatches(a, s + 1, last, FALSE)

\* The subject with the matches replaced
RECURSIVE RefReplaced(_, _, _)
RefReplaced(a, s, matches) ==
  IF matches = <<>> THEN SubSeq(a.src, s, Len(a.src))
  ELSE LET x == Head(matches)
       IN  SubSeq(a.src, s, x.from - 1) \o add_value(a.repl, SubSeq(a.src, x.from, x.to - 1), x.caps).text
           \o RefReplaced(a, x.to, Tail(matches))

\* find gives the leftmost match the pattern describes, with its captures, from
\* every start; gmatch all of them in turn; gsub replaces exactly these and
\* keeps the rest, whatever the matcher tried and undid before.
PatternMeansItsParts ==
  LET all == RefMatches(arg, 1, 0, arg.anchor)
      some == SubSeq(all, 1, IF arg.repl.max < Len(all) THEN arg.repl.max ELSE Len(all))
  IN  /\ gm.src = 1 /\ gm.on /\ gm.given = <<>> =>
           \A init \in 1..(Len(arg.src) + 1) :
             LET f == str_find_aux(arg.src, Text(arg), init)
                 ref == RefMatches(arg, init, 0, arg.anchor)
             IN  /\ ~f.ms.err /\ (f.ms.s # 0 <=> ref # <<>>)
                 /\ f.ms.s # 0 => /\ f.start = ref[1].from /\ f.ms.s = ref[1].to
                                  /\ push_captures(f.ms, f.start) = ref[1].caps
      /\ ~gm.on /\ ~arg.anchor => gm.given = [i \in DOMAIN all |-> all[i].caps]
      /\ ~gs.on => gs.n = Len(some) /\ GsubResult(gs, arg.src) = RefReplaced(arg, 1, some)
=============================================================================
