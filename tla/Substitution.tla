--------------------------- MODULE Substitution ---------------------------
(***************************************************************************)
(* Defines, arrays of defines and macro arguments (CDefineTable, CMacro-   *)
(* DefineTable, CMacroTable::Emit of tables.cpp; DEFINE, UNDEFINE and      *)
(* DEFARRAY of directives.cpp) and the substitution of a line              *)
(* (ReplaceDefine of parser.cpp).                                          *)
(*                                                                         *)
(* A line is a sequence of tokens.  The tokens of LabChars are pieces of   *)
(* identifiers; "_" stands for a run of underscores, so that the sub-words *)
(* of an identifier are its runs of other pieces and of underscores.  A    *)
(* name and the text that replaces it are sequences of tokens.             *)
(***************************************************************************)
EXTENDS Reader, SequencesExt

CONSTANTS LabChars,   \* pieces of identifiers, "_" among them
          DefDirs,    \* the keywords after which defines are left alone
          Subwords,   \* --syntax=s is off
          LINES,      \* the lines of the program
          MACROS,     \* macro -> the names of its arguments
          MaxIter,    \* 31 in the program
          LINEMAX,    \* the room for a line
          MaxDefs, MaxDepth, MaxComment   \* bounds of the instance

VARIABLES defs,       \* CDefineTable, the newest first: [name, value, nss]
          chain,      \* CMacroDefineTable, the newest first: [name, value]
          callers,    \* the running macros, the innermost first: odefs
          comlin,     \* depth of open block comments
          line,       \* the line that is being substituted, see Start
          bound       \* ghost: the arguments of every running macro

svars == <<defs, chain, callers, comlin, line, bound>>

-----------------------------------------------------------------------------
(* The tables. *)

Find(table, name) == SelectInSeq(table, LAMBDA d : d.name = name)

Entry(name, value, nss) == [name |-> name, value |-> value, nss |-> nss]

(* Add pushes a second entry for a name it has; Replace changes the first
   one it finds; Undefine takes the first one out. *)
Add(table, name, value, nss) == <<Entry(name, value, nss)>> \o table
Replace(table, name, value) ==
    IF Find(table, name) = 0 THEN Add(table, name, value, <<>>)
    ELSE [table EXCEPT ![Find(table, name)].value = value]
Undefine(table, name) == RemoveAt(table, Find(table, name))

(* Mutant: only an empty chain is restored. *)
setdefs_kept(table, kept) == IF kept = 0 THEN <<>> ELSE table

(* setdefs: the entries in front of the kept chain are released. *)
setdefs(table, kept) == SubSeq(table, Len(table) - kept + 1, Len(table))

-----------------------------------------------------------------------------
(* ReplaceDefineInternal. *)

White(c) == c \in {" ", "glue"}
IsLab(t, p) == At(t, p) \in LabChars
IsDigit(c) == c \in {"0", "1", "2"}
LetterOrDigit(c) == c \in (LabChars \ {"_"}) \cup {"0", "1", "2"}

RECURSIVE IdEnd(_, _)
IdEnd(t, p) == IF IsLab(t, p) THEN IdEnd(t, p + 1) ELSE p

(* GrowSubId: to the next border between underscores and other pieces. *)
RECURSIVE GrowSubId(_, _)
GrowSubId(t, p) ==
    IF ~Subwords THEN IdEnd(t, p)
    ELSE IF IsLab(t, p + 1) /\ (At(t, p + 1) = "_") = (At(t, p) = "_") THEN GrowSubId(t, p + 1)
    ELSE p + 1

RECURSIVE SkipWhite(_, _)
SkipWhite(t, p) == IF At(t, p) = " " THEN SkipWhite(t, p + 1) ELSE p

(* "_" between blanks next to a replaced word becomes the glue tag: in the
   output before the word, and in the input after it. *)
GlueBefore(out) ==
    LET solid == {i \in DOMAIN out : out[i] # " "}
        g == IF solid = {} THEN 0 ELSE CHOOSE i \in solid : \A j \in solid : j <= i
    IN  IF g > 1 /\ g < Len(out) /\ out[g] = "_" /\ White(out[g - 1])
        THEN [out EXCEPT ![g] = "glue"] ELSE out

GlueAfter(t, p) ==
    LET g == SkipWhite(t, p)
    IN  IF g > p /\ At(t, g) = "_" /\ White(At(t, g + 1)) THEN [t EXCEPT ![g] = "glue"] ELSE t

(* The element of an array of defines an index selects.  The index is known
   when it is a numeral; any other expression waits for a later iteration. *)
ArrayElement(t, p, nss) ==
    LET q == SkipWhite(t, p)
        R(ver, end, dr, errs) == [ver |-> ver, p |-> end, dr |-> dr, errs |-> errs]
        index == IF At(t, q + 1) = "0" THEN 0 ELSE IF At(t, q + 1) = "1" THEN 1 ELSE 2
    IN  IF At(t, q) # "[" THEN R(SubSeq(t, p, q - 1), q, -1, {"[ARRAY] Expression error"})
        ELSE IF At(t, q + 1) = "#" /\ At(t, q + 2) = "]" THEN R(<<ToString(Len(nss))>>, q + 3, 1, {})
        ELSE IF ~(IsDigit(At(t, q + 1)) /\ At(t, q + 2) = "]") THEN R(SubSeq(t, p, q), q + 1, -1, {})
        ELSE IF index >= Len(nss) THEN R(<<>>, q + 3, 1, {"[ARRAY] index"})
        ELSE R(nss[index + 1], q + 3, 1, {})

(* A line in work: its source, the comment depth it began with, the text t
   of this iteration, the place p, what is written (out), and how many
   iterations are left; `after' says that the scan did not come from a letter
   or digit. *)
Start(src, depth, t, left, glue, errs) ==
    [src |-> src, depth |-> depth, t |-> t, p |-> 1, out |-> <<>>, left |-> left, after |-> TRUE,
     isDef |-> FALSE, replaced |-> FALSE, glue |-> glue, errs |-> errs, done |-> FALSE]

NoLine == [Start(<<>>, 0, <<>>, 0, FALSE, {}) EXCEPT !.done = TRUE]

Copy(s, n) == [s EXCEPT !.out = @ \o SubSeq(s.t, s.p, s.p + n - 1), !.p = @ + n]

Room(out) == SubSeq(out, 1, Min({Len(out), LINEMAX}))

(* Mutant: only the replacement of a macro argument counts. *)
Write_arguments(s, ver, next, dr) ==
    [s EXCEPT !.out = Room(@ \o ver), !.p = next, !.replaced = @ \/ dr = 2]

(* dr > 0 counts as a replacement, dr < 0 only copies. *)
Write(s, ver, next, dr) ==
    IF dr < 0 THEN [s EXCEPT !.out = Room(@ \o ver), !.p = next]
    ELSE LET before == GlueBefore(s.out)
             after == GlueAfter(s.t, next)
         IN  [s EXCEPT !.t = after, !.p = next, !.out = Room(before \o ver), !.replaced = TRUE,
                       !.glue = @ \/ before # s.out \/ after # s.t]

(* The loop over the sub-words of an identifier that starts at `whole': the
   pieces from `first' on are joined to longer and longer names. *)
RECURSIVE Identifier(_, _, _, _)
Identifier(s, whole, first, p) ==
    LET end == GrowSubId(s.t, p)
        nid == SubSeq(s.t, first, end - 1)
        inside == nid[1] # "_" \/ first = whole
        arg == IF callers # <<>> /\ inside THEN Find(chain, nid) ELSE 0
        def == IF ~s.isDef /\ inside THEN Find(defs, nid) ELSE 0
        element == ArrayElement(s.t, end, defs[def].nss)
        eaten == GrowSubId(s.t, first)
        Done(r) == IF IsLab(r.t, r.p) THEN Identifier(r, whole, r.p, r.p) ELSE r
    IN  IF arg # 0 THEN Done(Write(s, chain[arg].value, end, 2))
        ELSE IF def # 0 /\ defs[def].nss = <<>> THEN Done(Write(s, defs[def].value, end, 1))
        ELSE IF def # 0
        THEN Done(Write([s EXCEPT !.errs = @ \cup element.errs],
                        (IF element.dr < 0 THEN nid ELSE <<>>) \o element.ver, element.p, element.dr))
        ELSE IF IsLab(s.t, end) THEN Identifier(s, whole, first, end)
        ELSE Done(Write(s, SubSeq(s.t, first, eaten - 1), eaten, -1))

(* A string is copied to its end; a backslash escapes inside quotes. *)
RECURSIVE StringEnd(_, _, _)
StringEnd(t, p, c) ==
    IF At(t, p) = "" THEN p
    ELSE IF At(t, p) = c THEN p + 1
    ELSE StringEnd(t, IF c = "\"" /\ At(t, p) = "\\" /\ At(t, p + 1) # "" THEN p + 2 ELSE p + 1, c)

(* The token at p, outside of comments. *)
ScanCode(s0) ==
    LET c == At(s0.t, s0.p)
        s == [s0 EXCEPT !.after = ~LetterOrDigit(c)]
        keyword == s0.after /\ c \in DefDirs /\ At(s0.t, s0.p + 1) \in {"", " ", ";", "/*"}
    IN  IF s0.after /\ c \in {"\"", "'"} THEN Copy(s, StringEnd(s.t, s.p + 1, c) - s.p)
        ELSE IF IsLab(s.t, s.p) THEN Identifier([s EXCEPT !.isDef = @ \/ keyword], s.p, s.p, s.p)
        ELSE Copy(s, 1)

(* The glue tags take the blanks around them away; at an end of the line
   there is nothing to glue, they are underscores again. *)
RECURSIVE Glue(_, _)
Glue(left, right) ==
    LET solid == {i \in DOMAIN left : ~White(left[i])}
        l == IF solid = {} THEN 0 ELSE CHOOSE i \in solid : \A j \in solid : j <= i
        next == {i \in DOMAIN right : ~White(right[i])}
        r == IF next = {} THEN 0 ELSE CHOOSE i \in next : \A j \in next : i <= j
    IN  IF right = <<>> THEN left
        ELSE IF right[1] # "glue" THEN Glue(Append(left, right[1]), Tail(right))
        ELSE IF l = 0 \/ r = 0 THEN Glue(Append(left, "_"), Tail(right))
        ELSE Glue(Append(SubSeq(left, 1, l), right[r]), SubSeq(right, r + 1, Len(right)))

(* After the last token: the next iteration, or the line is finished.  A
   line of blanks is empty. *)
Finished(s) ==
    LET errs == s.errs \cup (IF Len(s.out) >= LINEMAX THEN {"line too long"} ELSE {})
        blank == ~s.glue /\ \A i \in DOMAIN s.out : White(s.out[i])
        Again(t, glue) ==
            IF s.left = 1 THEN [s EXCEPT !.out = t, !.done = TRUE, !.errs = errs \cup {"Unable to finish substitutions"}]
            ELSE Start(s.src, s.depth, t, s.left - 1, glue, errs)
    IN  IF ~s.replaced /\ s.glue THEN Again(Glue(<<>>, s.out), FALSE)
        ELSE IF s.replaced THEN Again(IF blank THEN <<>> ELSE s.out, s.glue)
        ELSE [s EXCEPT !.out = IF blank THEN <<>> ELSE @, !.done = TRUE, !.errs = errs]

-----------------------------------------------------------------------------
(* Macro arguments. *)

GetID(t, p) == SubSeq(t, SkipBlanks(t, p), IdEnd(t, SkipBlanks(t, p)) - 1)
PastID(t, p) == IdEnd(t, SkipBlanks(t, p))

IsNamedMacroArg(t, p) ==
    GetID(t, p) # <<>> /\ Has(t, PastID(t, p), "=") /\ At(t, Past(t, PastID(t, p))) # "="

(* The text of a delimited part, the delimiter at `p': its end and what is
   copied.  Quotes stay in the value, angle brackets do not. *)
RECURSIVE Delimited(_, _, _, _)
Delimited(t, p, d, copied) ==
    LET c == At(t, p)
        pair == \/ d = "<" /\ c = "!" /\ At(t, p + 1) \in {"!", ">"}
                \/ d = "\"" /\ c = "\\" /\ At(t, p + 1) # ""
                \/ d = "'" /\ c = "'" /\ At(t, p + 1) = "'"
    IN  IF c = "" THEN [p |-> 0, copied |-> copied]
        ELSE IF pair THEN Delimited(t, p + 2, d, copied \o (IF d = "<" THEN <<>> ELSE <<c>>) \o <<At(t, p + 1)>>)
        ELSE IF c = (IF d = "<" THEN ">" ELSE d) THEN [p |-> p + 1, copied |-> copied]
        ELSE Delimited(t, p + 1, d, Append(copied, c))

(* An apostrophe between digits of any base up to 16 groups them, it does not
   start a string. *)
HexDigit(c) == IsDigit(c) \/ c \in {"A", "B", "C", "D", "E", "F", "a", "b", "c", "d", "e", "f"}

Opens(t, p, first) ==
    CASE At(t, p) = "\"" -> TRUE
      [] At(t, p) = "'" -> ~(p > first /\ HexDigit(t[p - 1]) /\ HexDigit(At(t, p + 1)))
      [] OTHER -> At(t, p) = "<" /\ p = first

RECURSIVE ArgumentFrom(_, _, _, _, _)
ArgumentFrom(t, p, first, value, keep) ==
    LET d == Delimited(t, p + 1, At(t, p), <<>>)
        quote == IF At(t, p) = "<" THEN <<>> ELSE <<At(t, p)>>
        longer == value \o quote \o d.copied \o quote
        solid == {i \in DOMAIN value : i <= keep \/ value[i] # " "}
    IN  IF At(t, p) \in {"", ","}
        THEN [ok |-> TRUE, p |-> p, value |-> SubSeq(value, 1, Max(solid \cup {0}))]
        ELSE IF ~Opens(t, p, first) THEN ArgumentFrom(t, p + 1, first, Append(value, At(t, p)), keep)
        ELSE IF d.p = 0 THEN [ok |-> FALSE, p |-> p, value |-> value]
        ELSE ArgumentFrom(t, d.p, first, longer, Len(longer))

GetMacroArgumentValue(t, p) == ArgumentFrom(t, SkipBlanks(t, p), SkipBlanks(t, p), <<>>, 0)

(* The arguments of a call, `args' the names still to come: what is added
   to the table, or the error that ends the call. *)
RECURSIVE Arguments(_, _, _, _, _, _)
Arguments(t, p, names, k, named, added) ==
    LET id == GetID(t, p)
        isArg == IsNamedMacroArg(t, p)
        name == IF named THEN id ELSE names[k]
        v == GetMacroArgumentValue(t, IF named THEN Past(t, PastID(t, p)) ELSE p)
        isLast == k = Len(names)
        Failed(e) == [added |-> added, err |-> e]
    IN  IF k > Len(names)
        THEN [added |-> added, err |-> IF At(t, SkipBlanks(t, p)) = "" THEN "" ELSE "Too many arguments"]
        ELSE IF named # isArg THEN Failed("Named arguments must be used for all parameters or none")
        ELSE IF named /\ id \notin Range(names) THEN Failed("Invalid named argument")
        ELSE IF named /\ \E i \in DOMAIN added : added[i].name = id THEN Failed("Duplicate named argument")
        ELSE IF ~v.ok \/ (~isLast /\ ~comma(t, v.p)) THEN Failed("Not enough arguments")
        ELSE Arguments(t, IF isLast THEN v.p ELSE Past(t, v.p), names, k + 1, named,
                       <<[name |-> name, value |-> v.value]>> \o added)

(* The items of an array. *)
RECURSIVE Items(_, _, _)
Items(t, p, items) ==
    LET v == GetMacroArgumentValue(t, p)
    IN  IF ~v.ok THEN [items |-> items, ok |-> FALSE]
        ELSE IF At(t, v.p) = "," THEN Items(t, v.p + 1, Append(items, v.value))
        ELSE [items |-> Append(items, v.value), ok |-> TRUE]

-----------------------------------------------------------------------------
(* A line is substituted token by token (ReadLine, Scan, EndIteration), then
   its first word decides what is done with it (the other actions).  The
   messages of the directives are left out. *)

AtEnd == \/ At(line.t, line.p) = "" \/ Len(line.out) >= LINEMAX
         \/ At(line.t, line.p) = ";" /\ comlin = 0
Taken == line.done /\ line # NoLine /\ line' = NoLine
Word == At(line.out, 1)
Id == GetID(line.out, 2)

SubstInit ==
    /\ defs = <<>>
    /\ chain = <<>>
    /\ callers = <<>>
    /\ comlin = 0
    /\ line = NoLine
    /\ bound = <<>>

ReadLine(l) ==
    /\ line = NoLine
    /\ line' = Start(l, comlin, l, MaxIter, FALSE, {})
    /\ UNCHANGED <<defs, chain, callers, comlin, bound>>

(* The depth of the comments lives on from iteration to iteration and from
   line to line. *)
Scan ==
    LET c == At(line.t, line.p)
        past == [line EXCEPT !.p = @ + 1, !.after = ~LetterOrDigit(c)]
    IN  /\ ~line.done /\ ~AtEnd
        /\ \/ /\ c = "/*"
              /\ comlin < MaxComment
              /\ comlin' = comlin + 1 /\ line' = past
           \/ /\ c = "*/" /\ comlin > 0
              /\ comlin' = comlin - 1
              /\ line' = IF comlin = 1 THEN [past EXCEPT !.out = Append(@, " ")] ELSE past
           \/ /\ c \notin {"/*", "*/"} /\ comlin > 0
              /\ line' = past /\ UNCHANGED comlin
           \/ /\ c # "/*" /\ comlin = 0
              /\ line' = ScanCode(line) /\ UNCHANGED comlin
        /\ UNCHANGED <<defs, chain, callers, bound>>

EndIteration ==
    /\ ~line.done /\ AtEnd
    /\ line' = Finished(line)
    /\ UNCHANGED <<defs, chain, callers, comlin, bound>>

(* One blank is skipped, the others belong to the value, but not those in
   front of a comment. *)
RECURSIVE Trimmed(_)
Trimmed(t) == IF t # <<>> /\ t[Len(t)] = " " THEN Trimmed(SubSeq(t, 1, Len(t) - 1)) ELSE t

DefineValue(l, t, p) ==
    LET rest == SubSeq(t, IF At(t, p) = " " THEN p + 1 ELSE p, Len(t))
    IN  IF \E i \in DOMAIN l : l[i] = ";" THEN Trimmed(rest) ELSE rest

(* A name that is known gets a second entry, with a warning; DEFINE+
   changes the entry it finds. *)
dirDEFINE ==
    LET value == DefineValue(line.src, line.out, PastID(line.out, 2))
    IN  /\ Word \in {"define", "define+"}
        /\ Taken
        /\ Len(defs) < MaxDefs
        /\ defs' = IF Id = <<>> THEN defs
                   ELSE IF Word = "define+" THEN Replace(defs, Id, value)
                   ELSE Add(defs, Id, value, <<>>)
        /\ UNCHANGED <<chain, callers, comlin, bound>>

dirUNDEFINE ==
    /\ Word = "undefine"
    /\ Taken
    /\ defs' = IF Id = <<>> /\ Has(line.out, 2, "*") THEN <<>>
               ELSE IF Id # <<>> /\ Find(defs, Id) # 0 THEN Undefine(defs, Id) ELSE defs
    /\ UNCHANGED <<chain, callers, comlin, bound>>

dirDEFARRAY ==
    LET p == PastID(line.out, 2)
        known == Find(defs, Id)
        plus == Word = "defarray+"
        new == Items(line.out, p, <<>>)
        bad == \/ Id = <<>> \/ At(line.out, p) # " "
               \/ At(line.out, SkipBlanks(line.out, p)) = ""
               \/ plus /\ (known = 0 \/ defs[known].nss = <<>>)
               \/ ~plus /\ ~new.ok
    IN  /\ Word \in {"defarray", "defarray+"}
        /\ Taken
        /\ Len(defs) < MaxDefs
        /\ defs' = IF bad THEN defs
                   ELSE IF plus THEN [defs EXCEPT ![known].nss = @ \o new.items]
                   ELSE Add(defs, Id, <<>>, new.items)
        /\ UNCHANGED <<chain, callers, comlin, bound>>

(* CMacroTable::Emit: a call that fails puts the arguments back. *)
Emit ==
    LET kept == IF callers = <<>> THEN <<>> ELSE chain
        a == Arguments(line.out, 2, MACROS[Word], 1, IsNamedMacroArg(line.out, 2), <<>>)
        all == a.added \o kept
    IN  /\ Word \in DOMAIN MACROS
        /\ Taken
        /\ IF a.err = ""
           THEN /\ Len(callers) < MaxDepth
                /\ chain' = all
                /\ callers' = <<Len(kept)>> \o callers
                /\ bound' = << [n \in {x.name : x \in Range(a.added)} |->
                                 (CHOOSE x \in Range(a.added) : x.name = n).value] >> \o bound
           ELSE /\ chain' = setdefs(all, Len(kept))
                /\ UNCHANGED <<callers, bound>>
        /\ UNCHANGED <<defs, comlin>>

OtherLine ==
    /\ Word \notin {"define", "define+", "undefine", "defarray", "defarray+"} \cup DOMAIN MACROS
    /\ Taken
    /\ UNCHANGED <<defs, chain, callers, comlin, bound>>

(* The end of a macro. *)
EndMacro ==
    /\ line = NoLine
    /\ callers # <<>>
    /\ chain' = setdefs(chain, callers[1])
    /\ callers' = Tail(callers)
    /\ bound' = Tail(bound)
    /\ UNCHANGED <<defs, comlin, line>>

SubstNext ==
    \/ \E l \in LINES : ReadLine(l)
    \/ Scan \/ EndIteration
    \/ dirDEFINE \/ dirUNDEFINE \/ dirDEFARRAY
    \/ Emit \/ OtherLine \/ EndMacro

SubstSpec == SubstInit /\ [][SubstNext]_svars
=============================================================================
