--------------------------- MODULE SessionProofs ---------------------------
(***************************************************************************)
(* Errors are told and OPT is lexical, for every command line and source.    *)
(*                                                                         *)
(* The globals are a record without a type: IsState names the fields that a    *)
(* proof reads, all other fields may hold anything.                          *)
(***************************************************************************)
EXTENDS Session, WellFoundedInduction, TLAPS

-----------------------------------------------------------------------------
(* Steps of a loop.                                                        *)

LEMMA Least ==
  ASSUME NEW S \in SUBSET Nat, S # {}
  PROVE  \E n \in S : \A k \in S : n <= k
<1>1. PICK n \in S : \A k \in S : ~(<<k, n>> \in OpToRel(<, Nat))
  BY NatLessThanWellFounded, WFMin
<1>2. \A k \in S : ~(k < n)
  BY <1>1 DEF OpToRel
<1> QED
  BY <1>2

\* A set with 0 and with k whenever it has k - 1 holds the last number too.
LEMMA Upwards ==
  ASSUME NEW n \in Nat, NEW S, 0 \in S, \A k \in 1 .. n : k - 1 \in S => k \in S
  PROVE  n \in S
<1> DEFINE Out == {k \in 0 .. n : k \notin S}
<1> SUFFICES ASSUME Out # {} PROVE FALSE
  OBVIOUS
<1>1. PICK k \in Out : \A j \in Out : k <= j
  <2>1. Out \in SUBSET Nat
    OBVIOUS
  <2> HIDE DEF Out
  <2> QED
    BY <2>1, Least
<1>2. k \in 1 .. n /\ k - 1 \in 0 .. n /\ k - 1 \notin Out
  BY <1>1
<1> QED
  BY <1>1, <1>2

\* The syntax, the saved syntaxes and the open DUP behind an event: x in front of it
After(x, e, i, l) ==
  LET here == [Start EXCEPT !.syx = x[1], !.stack = x[2], !.IsI8080 = i, !.IsLR35902 = l]
      opt  == dirOPT(here, e[2], e[3])
  IN  CASE e[1] = "opt" /\ ~x[3] -> <<opt.syx, opt.stack, x[3]>>
        [] e[1] = "dup" /\ ~x[3] -> <<x[1], x[2], TRUE>>
        [] OTHER                 -> x

\* The loops of a run, by their names: one more turn for x after state t.
Turn(loop, t, k, x) ==
  CASE loop = "letters" -> SyntaxLetter(t, x[k])
    [] loop = "bytes"   -> EmitByte1(t)
    [] loop = "block"   -> EmitBlockByte(t, k, x[1], x[2])
    [] loop = "words"   -> OptWord(t, k, x[1], x[2])
    [] loop = "events"  -> After(t, x[1][k], x[2], x[3])
    [] loop = "paths"   -> IF x[k] = "missing" THEN Error(t, "ALL") ELSE t

IsRun(loop, x, s, n, f) == f = [k \in 0 .. n |-> IF k = 0 THEN s ELSE Turn(loop, f[k - 1], k, x)]

\* Each of them has its sequence of states.
LEMMA LoopRuns ==
  ASSUME NEW loop, NEW x, NEW s, NEW n \in Nat
  PROVE  \E f : IsRun(loop, x, s, n, f)
<1> DEFINE Runs(m) == \E f : f = [k \in 0 .. m |-> IF k = 0 THEN s ELSE Turn(loop, f[k - 1], k, x)]
           S == {m \in 0 .. n : Runs(m)}
<1>1. 0 \in S
  <2> DEFINE f == [k \in 0 .. 0 |-> s]
  <2>1. f = [k \in 0 .. 0 |-> IF k = 0 THEN s ELSE Turn(loop, f[k - 1], k, x)]
    OBVIOUS
  <2> HIDE DEF f
  <2>2. Runs(0)
    BY <2>1
  <2> QED
    BY <2>2
<1>2. ASSUME NEW m \in 1 .. n, m - 1 \in S PROVE m \in S
  <2>1. PICK g : g = [k \in 0 .. m - 1 |-> IF k = 0 THEN s ELSE Turn(loop, g[k - 1], k, x)]
    BY <1>2
  <2> DEFINE last == Turn(loop, g[m - 1], m, x)
             f == [k \in 0 .. m |-> IF k = m THEN last ELSE g[k]]
  <2>2. ASSUME NEW k \in 0 .. m PROVE f[k] = IF k = 0 THEN s ELSE Turn(loop, f[k - 1], k, x)
    <3>1. CASE k = m
      <4>1. m # 0 /\ m - 1 \in 0 .. m /\ m - 1 # m /\ m \in 0 .. m
        OBVIOUS
      <4>2. f[k] = last /\ f[k - 1] = g[m - 1]
        BY <3>1, <4>1, Zenon
      <4> QED
        BY <3>1, <4>1, <4>2, Zenon
    <3>2. CASE k # m
      <4>1. k \in 0 .. m - 1 /\ (k # 0 => k - 1 \in 0 .. m /\ k - 1 # m)
        BY <3>2
      <4>2. f[k] = g[k] /\ (k # 0 => f[k - 1] = g[k - 1])
        BY <3>2, <4>1, Zenon
      <4>3. g[k] = IF k = 0 THEN s ELSE Turn(loop, g[k - 1], k, x)
        BY <2>1, <4>1, Zenon
      <4> QED
        BY <4>2, <4>3, Zenon
    <3> QED
      BY <3>1, <3>2
  <2>3. f = [k \in 0 .. m |-> f[k]]
    BY Zenon
  <2> HIDE DEF f
  <2>4. f = [k \in 0 .. m |-> IF k = 0 THEN s ELSE Turn(loop, f[k - 1], k, x)]
    BY <2>2, <2>3, Zenon
  <2>5. Runs(m)
    BY <2>4, Zenon
  <2> QED
    BY <2>5, <1>2
<1> HIDE DEF Runs
<1>3. n \in S
  BY <1>1, <1>2, Upwards
<1> QED
  BY <1>3 DEF Runs, IsRun

LEMMA BytesRun ==
  ASSUME NEW s, NEW n \in Nat
  PROVE  \E f : /\ f[0] = s /\ f[n] = EmitBytesTo(s, n)
                /\ \A k \in 1 .. n : f[k] = EmitByte1(f[k - 1])
<1> DEFINE f == CHOOSE f : f = [k \in 0 .. n |-> IF k = 0 THEN s ELSE EmitByte1(f[k - 1])]
<1>1. PICK g : IsRun("bytes", 0, s, n, g)
  BY LoopRuns, Zenon
<1>2. g = [k \in 0 .. n |-> IF k = 0 THEN s ELSE EmitByte1(g[k - 1])]
  BY <1>1, Zenon DEF Turn, IsRun
<1>3. f = [k \in 0 .. n |-> IF k = 0 THEN s ELSE EmitByte1(f[k - 1])]
  BY <1>2, Zenon
<1>4. EmitBytesTo(s, n) = f[n]
  BY Zenon DEF EmitBytesTo
<1> HIDE DEF f
<1>5. 0 \in 0 .. n /\ n \in 0 .. n /\ \A k \in 1 .. n : k \in 0 .. n /\ k # 0
  OBVIOUS
<1> QED
  BY <1>3, <1>4, <1>5, Zenon

BlockSteps(f, room, n) == \A k \in 1 .. n : f[k] = EmitBlockByte(f[k - 1], k, room, n)

LEMMA BlockRun ==
  ASSUME NEW s, NEW n \in Nat, NEW most
  PROVE  \E f, room : f[0] = s /\ f[n] = EmitBlock(s, n, most) /\ BlockSteps(f, room, n)
<1> DEFINE room == IF BufferSize <= Len(s.pending) + most THEN BufferSize - Len(s.pending) ELSE most
           f == CHOOSE f : f = [k \in 0 .. n |-> IF k = 0 THEN s ELSE EmitBlockByte(f[k - 1], k, room, n)]
<1>1. EmitBlock(s, n, most) = f[n]
  BY Zenon DEF EmitBlock
<1> HIDE DEF room
<1>2. PICK g : IsRun("block", <<room, n>>, s, n, g)
  BY LoopRuns, Zenon
<1>3. g = [k \in 0 .. n |-> IF k = 0 THEN s ELSE EmitBlockByte(g[k - 1], k, room, n)]
  BY <1>2, Zenon DEF Turn, IsRun
<1>4. f = [k \in 0 .. n |-> IF k = 0 THEN s ELSE EmitBlockByte(f[k - 1], k, room, n)]
  BY <1>3, Zenon
<1> HIDE DEF f
<1>5. 0 \in 0 .. n /\ n \in 0 .. n /\ \A k \in 1 .. n : k \in 0 .. n /\ k # 0
  OBVIOUS
<1> QED
  BY <1>1, <1>4, <1>5, Zenon DEF BlockSteps

LetterSteps(f, v) == \A k \in 1 .. Len(v) : f[k] = SyntaxLetter(f[k - 1], v[k])

LEMMA LettersRun ==
  ASSUME NEW s, NEW v, Len(v) \in Nat
  PROVE  \E f : f[0] = s /\ f[Len(v)] = SyntaxLetters(s, v) /\ LetterSteps(f, v)
<1> DEFINE f == CHOOSE f : f = [k \in 0 .. Len(v) |-> IF k = 0 THEN s ELSE SyntaxLetter(f[k - 1], v[k])]
<1>1. PICK g : IsRun("letters", v, s, Len(v), g)
  BY LoopRuns, Zenon
<1>2. g = [k \in 0 .. Len(v) |-> IF k = 0 THEN s ELSE SyntaxLetter(g[k - 1], v[k])]
  BY <1>1, Zenon DEF Turn, IsRun
<1>3. f = [k \in 0 .. Len(v) |-> IF k = 0 THEN s ELSE SyntaxLetter(f[k - 1], v[k])]
  BY <1>2, Zenon
<1>4. SyntaxLetters(s, v) = f[Len(v)]
  BY Zenon DEF SyntaxLetters
<1> HIDE DEF f
<1>5. 0 \in 0 .. Len(v) /\ Len(v) \in 0 .. Len(v) /\ \A k \in 1 .. Len(v) : k \in 0 .. Len(v) /\ k # 0
  OBVIOUS
<1> QED
  BY <1>3, <1>4, <1>5, Zenon DEF LetterSteps

PathSteps(f, v) == \A k \in 1 .. Len(v) : f[k] \in {f[k - 1], Error(f[k - 1], "ALL")}

LEMMA PathsRun ==
  ASSUME NEW s, NEW v, Len(v) \in Nat
  PROVE  \E f : f[0] = s /\ f[Len(v)] = checkIncludePaths(s, v) /\ PathSteps(f, v)
<1> DEFINE f == CHOOSE f : f = [k \in 0 .. Len(v) |->
                  IF k = 0 THEN s
                  ELSE IF v[k] = "missing" THEN Error(f[k - 1], "ALL") ELSE f[k - 1]]
<1>1. PICK g : IsRun("paths", v, s, Len(v), g)
  BY LoopRuns, Zenon
<1>2. g = [k \in 0 .. Len(v) |->
             IF k = 0 THEN s ELSE IF v[k] = "missing" THEN Error(g[k - 1], "ALL") ELSE g[k - 1]]
  BY <1>1, Zenon DEF Turn, IsRun
<1>3. f = [k \in 0 .. Len(v) |->
             IF k = 0 THEN s ELSE IF v[k] = "missing" THEN Error(f[k - 1], "ALL") ELSE f[k - 1]]
  BY <1>2, Zenon
<1>4. checkIncludePaths(s, v) = f[Len(v)]
  BY Zenon DEF checkIncludePaths
<1> HIDE DEF f
<1>5. 0 \in 0 .. Len(v) /\ Len(v) \in 0 .. Len(v) /\ \A k \in 1 .. Len(v) : k \in 0 .. Len(v) /\ k # 0
  OBVIOUS
<1> QED
  BY <1>3, <1>4, <1>5, Zenon DEF PathSteps

OptStart(s) == [s |-> s, didReset |-> FALSE, didList |-> s.syx.IsListingSuspended, stop |-> FALSE]

WordSteps(f, c, o) == \A k \in 1 .. Len(c) + Len(o) : f[k] = OptWord(f[k - 1], k, c, o)

LEMMA WordsRun ==
  ASSUME NEW s, NEW c, NEW o, Len(c) \in Nat, Len(o) \in Nat
  PROVE  \E f : f[0] = OptStart(s) /\ f[Len(c) + Len(o)].s = dirOPT(s, c, o) /\ WordSteps(f, c, o)
<1> DEFINE n == Len(c) + Len(o)
           f == CHOOSE f : f = [k \in 0 .. n |-> IF k = 0 THEN OptStart(s) ELSE OptWord(f[k - 1], k, c, o)]
<1>1. dirOPT(s, c, o) = f[n].s
  BY Zenon DEF dirOPT, OptStart
<1>2. n \in Nat
  OBVIOUS
<1> HIDE DEF n
<1>3. PICK g : IsRun("words", <<c, o>>, OptStart(s), n, g)
  BY <1>2, LoopRuns, Zenon
<1>4. g = [k \in 0 .. n |-> IF k = 0 THEN OptStart(s) ELSE OptWord(g[k - 1], k, c, o)]
  BY <1>3, Zenon DEF Turn, IsRun
<1>5. f = [k \in 0 .. n |-> IF k = 0 THEN OptStart(s) ELSE OptWord(f[k - 1], k, c, o)]
  BY <1>4, Zenon
<1> HIDE DEF f
<1>6. 0 \in 0 .. n /\ n \in 0 .. n /\ \A k \in 1 .. n : k \in 0 .. n /\ k # 0
  BY <1>2
<1>7. f[0] = OptStart(s) /\ f[n].s = dirOPT(s, c, o) /\ \A k \in 1 .. n : f[k] = OptWord(f[k - 1], k, c, o)
  BY <1>1, <1>5, <1>6, Zenon
<1> QED
  BY <1>7, Zenon DEF n, WordSteps

-----------------------------------------------------------------------------
(* What the handlers leave alone.                                          *)

Fields ==
  {"pass", "exit", "line", "where", "errors", "warnings", "prevLine", "skip", "disabled", "syx", "stack",
   "system", "IsI8080", "IsLR35902", "DeleteOnError", "ShowHelp", "ShowVersion", "msg", "sources",
   "includes", "fullpath", "lstDefault", "lstName", "sldDefault", "sldName", "address", "count",
   "listAddress", "pending", "donotlist", "dup", "listing", "log"}
LogFields == {"raised", "told", "code", "due", "seen"}
IsState(s) == Fields \subseteq DOMAIN s /\ LogFields \subseteq DOMAIN s.log

\* The same moment of the run
SameMoment(r, s) ==
  /\ r.pass = s.pass /\ r.line = s.line /\ r.where = s.where /\ r.dup = s.dup
  /\ r.system = s.system /\ r.IsI8080 = s.IsI8080 /\ r.IsLR35902 = s.IsLR35902
  /\ r.ShowHelp = s.ShowHelp /\ r.ShowVersion = s.ShowVersion /\ r.sources = s.sources
  /\ r.includes = s.includes /\ r.log.seen = s.log.seen

SameSyntax(r, s) == r.syx = s.syx /\ r.stack = s.stack

\* No error was raised between the two.
SameErrors(r, s) ==
  /\ r.exit = s.exit /\ r.errors = s.errors /\ r.prevLine = s.prevLine
  /\ r.log.raised = s.log.raised /\ r.log.told = s.log.told

Quiet(r, s) == IsState(r) /\ SameMoment(r, s) /\ SameSyntax(r, s) /\ SameErrors(r, s)

LEMMA QuietItself == \A s : IsState(s) => Quiet(s, s)
  BY Zenon DEF Quiet, SameMoment, SameSyntax, SameErrors

LEMMA QuietTwice ==
  ASSUME NEW q, NEW r, NEW s, Quiet(q, r), Quiet(r, s)
  PROVE  Quiet(q, s)
  BY Zenon DEF Quiet, SameMoment, SameSyntax, SameErrors

LEMMA ListFileQuiet ==
  ASSUME NEW s, IsState(s), NEW skipped
  PROVE  Quiet(ListFile(s, skipped), s)
  BY Zenon DEF ListFile, Quiet, SameMoment, SameSyntax, SameErrors, IsState, Fields, LogFields

LEMMA EmitByteNoListingQuiet ==
  ASSUME NEW s, IsState(s), NEW shown
  PROVE  Quiet(EmitByteNoListing(s, shown), s)
  BY Zenon DEF EmitByteNoListing, Quiet, SameMoment, SameSyntax, SameErrors, IsState, Fields, LogFields

LEMMA PendingQuiet ==
  ASSUME NEW s, IsState(s), NEW e
  PROVE  Quiet([s EXCEPT !.pending = e], s)
  BY Zenon DEF Quiet, SameMoment, SameSyntax, SameErrors, IsState, Fields, LogFields

LEMMA EmitByte1Quiet ==
  ASSUME NEW s, IsState(s)
  PROVE  Quiet(EmitByte1(s), s)
<1> DEFINE n == Len(s.pending)
           t == [s EXCEPT !.pending = IF n < BufferSize - 1 THEN Append(@, s.count)
                                      ELSE IF n < BufferSize THEN Append(@, -2) ELSE @]
<1>1. Quiet(t, s)
  BY PendingQuiet, Zenon
<1>2. EmitByte1(s) = EmitByteNoListing(t, n < BufferSize - 1)
  BY Zenon DEF EmitByte1
<1> HIDE DEF t
<1>3. IsState(t)
  BY <1>1 DEF Quiet
<1> QED
  BY <1>1, <1>2, <1>3, EmitByteNoListingQuiet, QuietTwice, Zenon

LEMMA EmitBlockByteQuiet ==
  ASSUME NEW s, IsState(s), NEW k, NEW room, NEW len
  PROVE  Quiet(EmitBlockByte(s, k, room, len), s)
<1> DEFINE keep == s.pass = LASTPASS /\ k <= room
           dots == k = room /\ k < len
           t == [s EXCEPT !.pending = IF ~keep THEN @ ELSE Append(@, IF dots THEN -2 ELSE s.count)]
<1>1. Quiet(t, s)
  BY PendingQuiet, Zenon
<1>2. EmitBlockByte(s, k, room, len) = EmitByteNoListing(t, k <= room /\ ~dots)
  BY Zenon DEF EmitBlockByte
<1> HIDE DEF t
<1>3. IsState(t)
  BY <1>1 DEF Quiet
<1> QED
  BY <1>1, <1>2, <1>3, EmitByteNoListingQuiet, QuietTwice, Zenon

LEMMA EmitBytesQuiet ==
  ASSUME NEW s, IsState(s), NEW n \in Nat
  PROVE  Quiet(EmitBytesTo(s, n), s)
<1>1. PICK f : /\ f[0] = s /\ f[n] = EmitBytesTo(s, n)
               /\ \A k \in 1 .. n : f[k] = EmitByte1(f[k - 1])
  BY BytesRun
<1> DEFINE S == {k \in 0 .. n : Quiet(f[k], s)}
<1>2. 0 \in S
  <2>1. 0 \in 0 .. n
    OBVIOUS
  <2> QED
    BY <1>1, <2>1, QuietItself, Zenon
<1>3. ASSUME NEW k \in 1 .. n, k - 1 \in S PROVE k \in S
  <2>1. k \in 0 .. n
    OBVIOUS
  <2>2. Quiet(f[k - 1], s) /\ IsState(f[k - 1])
    BY <1>3, Zenon DEF Quiet
  <2> QED
    BY <1>1, <2>1, <2>2, EmitByte1Quiet, QuietTwice, Zenon
<1> HIDE DEF S
<1>4. n \in S
  BY <1>2, <1>3, Upwards
<1> QED
  BY <1>1, <1>4, Zenon DEF S

LEMMA EmitBlockQuiet ==
  ASSUME NEW s, IsState(s), NEW n \in Nat, NEW most
  PROVE  Quiet(EmitBlock(s, n, most), s)
<1>1. PICK f, room : f[0] = s /\ f[n] = EmitBlock(s, n, most) /\ BlockSteps(f, room, n)
  BY BlockRun, Zenon
<1> DEFINE S == {k \in 0 .. n : Quiet(f[k], s)}
<1>2. 0 \in S
  <2>1. 0 \in 0 .. n
    OBVIOUS
  <2> QED
    BY <1>1, <2>1, QuietItself, Zenon
<1>3. ASSUME NEW k \in 1 .. n, k - 1 \in S PROVE k \in S
  <2>1. k \in 0 .. n
    OBVIOUS
  <2>2. Quiet(f[k - 1], s) /\ IsState(f[k - 1])
    BY <1>3, Zenon DEF Quiet
  <2> QED
    BY <1>1, <2>1, <2>2, EmitBlockByteQuiet, QuietTwice, Zenon DEF BlockSteps
<1> HIDE DEF S
<1>4. n \in S
  BY <1>2, <1>3, Upwards
<1> QED
  BY <1>1, <1>4, Zenon DEF S

-----------------------------------------------------------------------------
(* The account of errors.                                                  *)

\* Without errors in passes 1 and 2, the number of a line in pass 3 is not one that an error of
\* an earlier pass left behind.
OnlyLast(s) == \A place \in s.log.told : place[1] \in {0, LASTPASS}

NumbersAreRight(s) ==
  /\ s.line \in Nat /\ s.prevLine \in Int /\ s.prevLine >= -1 /\ s.errors \in Nat
  /\ s.pass \in 0 .. LASTPASS /\ (s.pass = 0 => s.line = 0)

\* An error that is counted is one that was raised, and one that was raised is counted or has
\* an error of its own line before it.
Account(s) ==
  /\ NumbersAreRight(s)
  /\ s.log.raised # {} \/ s.prevLine # -1 => s.errors > 0
  /\ s.exit = 0 => s.errors = 0 \/ s.ShowHelp \/ (s.ShowVersion /\ s.sources = 0)
  /\ OnlyLast(s) =>
       /\ s.prevLine <= IF s.pass = LASTPASS THEN s.line ELSE 0
       /\ s.pass = LASTPASS /\ s.prevLine = s.line /\ s.line > 0 => <<LASTPASS, s.where>> \in s.log.told
       /\ \A place \in s.log.raised : place[1] = LASTPASS => place \in s.log.told

\* A line of the last pass has been read.
InLine(s) == s.pass = LASTPASS => s.line > 0

\* What a handler does to the account: r comes after s, in the same moment of the run.
Keeps(r, s) ==
  /\ IsState(r) /\ SameMoment(r, s)
  /\ r.exit = s.exit \/ (s.exit = -1 /\ r.exit = 1)
  /\ Account(s) /\ InLine(s) => Account(r)

LEMMA SameErrorsKeeps ==
  ASSUME NEW r, NEW s, IsState(r), SameMoment(r, s), SameErrors(r, s)
  PROVE  Keeps(r, s)
  BY Zenon DEF SameMoment, SameErrors, Keeps, Account, NumbersAreRight, OnlyLast

LEMMA QuietKeeps ==
  ASSUME NEW r, NEW s, Quiet(r, s)
  PROVE  Keeps(r, s)
  BY SameErrorsKeeps, Zenon DEF Quiet

LEMMA KeepsItself == \A s : IsState(s) => Keeps(s, s)
  BY QuietItself, QuietKeeps, Zenon

LEMMA KeepsTwice ==
  ASSUME NEW q, NEW r, NEW s, Keeps(q, r), Keeps(r, s)
  PROVE  Keeps(q, s)
<1>1. IsState(q) /\ SameMoment(q, s) /\ (InLine(s) => InLine(r))
  BY Zenon DEF Keeps, SameMoment, InLine
<1>2. (q.exit = s.exit \/ (s.exit = -1 /\ q.exit = 1)) /\ (Account(s) /\ InLine(s) => Account(q))
  BY <1>1 DEF Keeps
<1> QED
  BY <1>1, <1>2 DEF Keeps

\* The two ways of an error that is active
Heard(r, s) ==
  /\ IsState(r) /\ SameMoment(r, s) /\ SameSyntax(r, s)
  /\ r.exit = s.exit /\ r.errors = s.errors /\ r.prevLine = s.prevLine
  /\ r.log.raised = s.log.raised \cup {<<s.pass, s.where>>} /\ r.log.told = s.log.told

ToldOnce(r, s, type) ==
  /\ IsState(r) /\ SameMoment(r, s) /\ SameSyntax(r, s)
  /\ r.exit = (IF type = "FATAL" THEN 1 ELSE s.exit) /\ r.errors = s.errors + 1 /\ r.prevLine = s.line
  /\ r.log.raised = s.log.raised \cup {<<s.pass, s.where>>}
  /\ r.log.told = s.log.told \cup {<<s.pass, s.where>>}

LEMMA ErrorOutcome ==
  ASSUME NEW s, IsState(s), NEW type
  PROVE  LET r == Error(s, type)
         IN  IF s.exit # -1 \/ Inactive(type, s.pass) THEN r = s
             ELSE (s.prevLine = s.line /\ type # "FATAL" /\ Heard(r, s)) \/ ToldOnce(r, s, type)
<1> DEFINE place == <<s.pass, s.where>>
           h == [s EXCEPT !.log.raised = @ \cup {place}]
           b == (h.skip /\ s.prevLine = s.line) \/ type = "SUPPRESS"
           t == [h EXCEPT !.skip = b, !.prevLine = s.line,
                          !.errors = @ + 1, !.exit = IF type = "FATAL" THEN 1 ELSE @,
                          !.log.told = @ \cup {place}]
<1>1. Heard(h, s)
  BY Zenon DEF Heard, SameMoment, SameSyntax, IsState, Fields, LogFields
<1>2. Error(s, type) = IF s.exit # -1 \/ Inactive(type, s.pass) THEN s
                       ELSE IF type # "FATAL" /\ s.prevLine = s.line /\ (s.skip \/ type = "IF_FIRST") THEN h
                       ELSE t
  BY Zenon DEF Error
<1> HIDE DEF h, b
<1>3. /\ IsState(t) /\ SameMoment(t, h) /\ SameSyntax(t, h) /\ t.errors = h.errors + 1 /\ t.prevLine = s.line
      /\ t.exit = IF type = "FATAL" THEN 1 ELSE h.exit
      /\ t.log.raised = h.log.raised /\ t.log.told = h.log.told \cup {place}
  <2>1. IsState(h)
    BY <1>1 DEF Heard
  <2> QED
    BY <2>1, Zenon DEF SameMoment, SameSyntax, IsState, Fields, LogFields
<1> HIDE DEF t
<1>4. ToldOnce(t, s, type)
  BY <1>1, <1>3, Zenon DEF Heard, ToldOnce, SameMoment, SameSyntax
<1> QED
  BY <1>1, <1>2, <1>4, Zenon

LEMMA HeardKeeps ==
  ASSUME NEW r, NEW s, Heard(r, s), s.prevLine = s.line
  PROVE  Keeps(r, s)
<1> SUFFICES ASSUME Account(s), InLine(s) PROVE Account(r)
  BY Zenon DEF Heard, Keeps
<1>1. NumbersAreRight(r) /\ NumbersAreRight(s)
  BY Zenon DEF Heard, SameMoment, Account, NumbersAreRight
<1>2. r.errors > 0
  BY <1>1 DEF Heard, Account, NumbersAreRight
<1>3. r.exit = 0 => r.errors = 0 \/ r.ShowHelp \/ (r.ShowVersion /\ r.sources = 0)
  BY Zenon DEF Heard, SameMoment, Account
<1>4. ASSUME OnlyLast(r)
      PROVE  /\ r.prevLine <= IF r.pass = LASTPASS THEN r.line ELSE 0
             /\ r.pass = LASTPASS /\ r.prevLine = r.line /\ r.line > 0 => <<LASTPASS, r.where>> \in r.log.told
             /\ \A place \in r.log.raised : place[1] = LASTPASS => place \in r.log.told
  <2>1. OnlyLast(s)
    BY <1>4, Zenon DEF Heard, OnlyLast
  <2>2. r.prevLine <= IF r.pass = LASTPASS THEN r.line ELSE 0
    BY <2>1, Zenon DEF Heard, SameMoment, Account
  <2>3. r.pass = LASTPASS /\ r.prevLine = r.line /\ r.line > 0 => <<LASTPASS, r.where>> \in r.log.told
    BY <2>1, Zenon DEF Heard, SameMoment, Account
  <2>4. ASSUME NEW place \in r.log.raised, place[1] = LASTPASS PROVE place \in r.log.told
    <3>1. CASE place \in s.log.raised
      BY <2>1, <2>4, <3>1, Zenon DEF Heard, Account
    <3>2. CASE place = <<s.pass, s.where>>
      <4>1. s.pass = LASTPASS
        BY <2>4, <3>2
      <4> QED
        BY <2>1, <3>2, <4>1, Zenon DEF Heard, Account, InLine
    <3> QED
      BY <2>4, <3>1, <3>2, Zenon DEF Heard
  <2> QED
    BY <2>2, <2>3, <2>4
<1> QED
  BY <1>1, <1>2, <1>3, <1>4, Zenon DEF Account

LEMMA ToldOnceKeeps ==
  ASSUME NEW r, NEW s, NEW type, s.exit = -1, ToldOnce(r, s, type)
  PROVE  Keeps(r, s)
<1>1. r.exit \in {-1, 1} /\ (r.exit = s.exit \/ r.exit = 1)
  BY DEF ToldOnce
<1> SUFFICES ASSUME Account(s), InLine(s) PROVE Account(r)
  BY <1>1, Zenon DEF ToldOnce, Keeps
<1>2. NumbersAreRight(s)
  BY DEF Account
<1>3. NumbersAreRight(r) /\ r.errors > 0
  <2>1. /\ r.line = s.line /\ r.pass = s.pass /\ r.prevLine = s.line /\ r.errors = s.errors + 1
    BY Zenon DEF ToldOnce, SameMoment
  <2> QED
    BY <1>2, <2>1 DEF NumbersAreRight
<1>4. ASSUME OnlyLast(r)
      PROVE  /\ r.prevLine <= IF r.pass = LASTPASS THEN r.line ELSE 0
             /\ r.pass = LASTPASS /\ r.prevLine = r.line /\ r.line > 0 => <<LASTPASS, r.where>> \in r.log.told
             /\ \A place \in r.log.raised : place[1] = LASTPASS => place \in r.log.told
  <2>1. OnlyLast(s) /\ s.pass \in {0, LASTPASS}
    <3>1. <<s.pass, s.where>> \in r.log.told /\ <<s.pass, s.where>>[1] = s.pass
      BY DEF ToldOnce
    <3>2. s.pass \in {0, LASTPASS}
      BY <1>4, <3>1, Zenon DEF OnlyLast
    <3> QED
      BY <1>4, <3>2, Zenon DEF ToldOnce, OnlyLast
  <2>2. r.pass = s.pass /\ r.line = s.line /\ r.prevLine = s.line /\ r.where = s.where
    BY Zenon DEF ToldOnce, SameMoment
  <2>3. r.prevLine <= IF r.pass = LASTPASS THEN r.line ELSE 0
    BY <1>2, <2>1, <2>2 DEF NumbersAreRight, LASTPASS
  <2>4. r.pass = LASTPASS => <<LASTPASS, r.where>> \in r.log.told
    BY <2>2, Zenon DEF ToldOnce
  <2>5. ASSUME NEW place \in r.log.raised, place[1] = LASTPASS PROVE place \in r.log.told
    BY <2>1, <2>5, Zenon DEF ToldOnce, Account
  <2> QED
    BY <2>3, <2>4, <2>5
<1> QED
  BY <1>1, <1>3, <1>4 DEF Account

LEMMA ErrorKeeps ==
  ASSUME NEW s, IsState(s), NEW type
  PROVE  /\ Keeps(Error(s, type), s) /\ SameSyntax(Error(s, type), s)
         /\ Error(s, type).exit = IF s.exit = -1 /\ type = "FATAL" THEN 1 ELSE s.exit
<1> DEFINE r == Error(s, type)
<1>1. CASE s.exit # -1 \/ Inactive(type, s.pass)
  <2>1. r = s
    BY <1>1, ErrorOutcome, Zenon
  <2>2. s.exit = -1 => type # "FATAL"
    BY <1>1 DEF Inactive
  <2> HIDE DEF r
  <2> QED
    BY <2>1, <2>2, KeepsItself, Zenon DEF SameSyntax, r
<1>2. CASE ~(s.exit # -1 \/ Inactive(type, s.pass))
  <2>1. (s.prevLine = s.line /\ type # "FATAL" /\ Heard(r, s)) \/ ToldOnce(r, s, type)
    BY <1>2, ErrorOutcome, Zenon
  <2> HIDE DEF r
  <2>2. Keeps(r, s) /\ SameSyntax(r, s) /\ r.exit = IF type = "FATAL" THEN 1 ELSE s.exit
    BY <1>2, <2>1, HeardKeeps, ToldOnceKeeps, Zenon DEF Heard, ToldOnce
  <2> QED
    BY <1>2, <2>2, Zenon DEF r
<1> QED
  BY <1>1, <1>2, Zenon

LEMMA WarningKeeps ==
  ASSUME NEW s, IsState(s), NEW type
  PROVE  /\ Keeps(Warning(s, type), s) /\ SameSyntax(Warning(s, type), s)
         /\ type # "FATAL" => Warning(s, type).exit = s.exit
<1> DEFINE t == [s EXCEPT !.warnings = @ + 1]
<1>1. Quiet(t, s)
  BY Zenon DEF Quiet, SameMoment, SameSyntax, SameErrors, IsState, Fields, LogFields
<1>2. Warning(s, type) \in {s, t, Error(s, type)}
  BY Zenon DEF Warning
<1> HIDE DEF t
<1>3. Keeps(t, s) /\ SameSyntax(t, s) /\ t.exit = s.exit
  BY <1>1, QuietKeeps, Zenon DEF Quiet, SameErrors
<1>4. Keeps(s, s) /\ SameSyntax(s, s)
  BY KeepsItself, Zenon DEF SameSyntax
<1> QED
  BY <1>2, <1>3, <1>4, ErrorKeeps, Zenon

LEMMA WarningByIdKeeps ==
  ASSUME NEW s, IsState(s), NEW id, NEW type, NEW ok
  PROVE  Keeps(WarningById(s, id, type, ok), s) /\ SameSyntax(WarningById(s, id, type, ok), s)
  BY WarningKeeps, KeepsItself, Zenon DEF WarningById, SameSyntax

-----------------------------------------------------------------------------
(* Options.                                                                *)

\* A syntax that does not enable the Z80N instructions for another processor
Plain(x, s) == "IsNextEnabled" \in DOMAIN x /\ (s.IsI8080 \/ s.IsLR35902 => x.IsNextEnabled = 0)

Optioned(r, s) == Keeps(r, s) /\ r.stack = s.stack /\ (Plain(s.syx, s) => Plain(r.syx, r))

LEMMA OptionedItself == \A s : IsState(s) => Optioned(s, s)
  BY KeepsItself, Zenon DEF Optioned

LEMMA OptionedTwice ==
  ASSUME NEW q, NEW r, NEW s, Optioned(q, r), Optioned(r, s)
  PROVE  Optioned(q, s)
  BY KeepsTwice, Zenon DEF Optioned

LEMMA SameSyntaxOptioned ==
  ASSUME NEW r, NEW s, Keeps(r, s), SameSyntax(r, s)
  PROVE  Optioned(r, s)
  BY Zenon DEF Optioned, SameSyntax, Keeps, SameMoment, Plain

\* Another syntax, with the Z80N instructions as before
LEMMA NewSyntaxOptioned ==
  ASSUME NEW s, IsState(s), NEW x,
         Plain(s.syx, s) => "IsNextEnabled" \in DOMAIN x /\ x.IsNextEnabled = s.syx.IsNextEnabled
  PROVE  Optioned([s EXCEPT !.syx = x], s) /\ [s EXCEPT !.syx = x].syx = x
<1> DEFINE r == [s EXCEPT !.syx = x]
<1>1. IsState(r) /\ SameMoment(r, s) /\ SameErrors(r, s) /\ r.stack = s.stack /\ r.syx = x
  BY Zenon DEF SameMoment, SameErrors, IsState, Fields, LogFields
<1> HIDE DEF r
<1>2. Plain(s.syx, s) => Plain(r.syx, r)
  BY <1>1, Zenon DEF Plain, SameMoment
<1>3. Optioned(r, s) /\ r.syx = x
  BY <1>1, <1>2, SameErrorsKeeps, Zenon DEF Optioned
<1> QED
  BY <1>3 DEF r

\* Two states in which options do the same
Agree(s, t) ==
  /\ IsState(s) /\ IsState(t)
  /\ s.syx = t.syx /\ s.exit = t.exit /\ s.IsI8080 = t.IsI8080 /\ s.IsLR35902 = t.IsLR35902

\* The syntax after a letter
LetterSyntax(x, c) ==
  CASE c = "f" -> [x EXCEPT !.FakeEnabled = TRUE, !.FakeWarning = TRUE]
    [] c = "F" -> [x EXCEPT !.FakeEnabled = FALSE]
    [] c = "a" -> [x EXCEPT !.MultiArg = ",,"]
    [] c = "b" -> [x EXCEPT !.MemoryBrackets = 1]
    [] c = "B" -> [x EXCEPT !.MemoryBrackets = 2]
    [] c = "i" -> [x EXCEPT !.CaseInsensitiveInstructions = TRUE]
    [] c = "w" -> [x EXCEPT !.WarningsAsErrors = TRUE]
    [] c = "M" -> [x EXCEPT !.Is_M_Memory = TRUE]
    [] c = "s" -> [x EXCEPT !.IsSubwordSubstitution = FALSE]
    [] OTHER   -> x
Letters == {"f", "F", "a", "b", "B", "i", "w", "M", "s"}

LEMMA LetterSyntaxPlain ==
  ASSUME NEW x, NEW c, "IsNextEnabled" \in DOMAIN x
  PROVE  "IsNextEnabled" \in DOMAIN LetterSyntax(x, c) /\ LetterSyntax(x, c).IsNextEnabled = x.IsNextEnabled
  BY Zenon DEF LetterSyntax

LEMMA LetterOutcome ==
  ASSUME NEW s, IsState(s), NEW c
  PROVE  SyntaxLetter(s, c) = IF c \in Letters THEN [s EXCEPT !.syx = LetterSyntax(s.syx, c)]
                              ELSE Error(s, "PASS03")
<1>1. "syx" \in DOMAIN s
  BY Zenon DEF IsState, Fields
<1>2. CASE c = "f"
  <2> DEFINE x == [s.syx EXCEPT !.FakeEnabled = TRUE]
  <2>1. [s EXCEPT !.syx.FakeEnabled = TRUE, !.syx.FakeWarning = TRUE] = [s EXCEPT !.syx = [x EXCEPT !.FakeWarning = TRUE]]
    BY <1>1, Zenon
  <2> QED
    BY <1>2, <2>1, Zenon DEF SyntaxLetter, LetterSyntax, Letters
<1>3. CASE c # "f"
  BY <1>3, Zenon DEF SyntaxLetter, LetterSyntax, Letters
<1> QED
  BY <1>2, <1>3

LEMMA SyntaxLetterOptioned ==
  ASSUME NEW s, IsState(s), NEW c
  PROVE  Optioned(SyntaxLetter(s, c), s)
<1>1. CASE c \in Letters
  <2> DEFINE x == LetterSyntax(s.syx, c)
  <2>1. Plain(s.syx, s) => "IsNextEnabled" \in DOMAIN x /\ x.IsNextEnabled = s.syx.IsNextEnabled
    BY LetterSyntaxPlain, Zenon DEF Plain
  <2> HIDE DEF x
  <2>2. Optioned([s EXCEPT !.syx = x], s)
    BY <2>1, NewSyntaxOptioned, Zenon
  <2> QED
    BY <1>1, <2>2, LetterOutcome, Zenon DEF x
<1>2. CASE c \notin Letters
  <2>1. SyntaxLetter(s, c) = Error(s, "PASS03")
    BY <1>2, LetterOutcome, Zenon
  <2>2. Optioned(Error(s, "PASS03"), s)
    BY ErrorKeeps, SameSyntaxOptioned, Zenon
  <2> QED
    BY <2>1, <2>2, Zenon
<1> QED
  BY <1>1, <1>2

LEMMA SameSyntaxAgree ==
  ASSUME NEW r, NEW q, NEW s, NEW t, Agree(s, t), r.exit = q.exit,
         Keeps(r, s), SameSyntax(r, s), Keeps(q, t), SameSyntax(q, t)
  PROVE  Agree(r, q)
  BY Zenon DEF Agree, Keeps, SameMoment, SameSyntax

LEMMA ErrorAgree ==
  ASSUME NEW s, NEW t, Agree(s, t), NEW type
  PROVE  Agree(Error(s, type), Error(t, type))
<1> DEFINE r == Error(s, type)
           q == Error(t, type)
<1>1. IsState(s) /\ IsState(t) /\ s.exit = t.exit
  BY DEF Agree
<1>2. Keeps(r, s) /\ SameSyntax(r, s) /\ r.exit = IF s.exit = -1 /\ type = "FATAL" THEN 1 ELSE s.exit
  BY <1>1, ErrorKeeps, Zenon
<1>3. Keeps(q, t) /\ SameSyntax(q, t) /\ q.exit = IF t.exit = -1 /\ type = "FATAL" THEN 1 ELSE t.exit
  BY <1>1, ErrorKeeps, Zenon
<1> HIDE DEF r, q
<1>4. r.exit = q.exit
  BY <1>1, <1>2, <1>3
<1> QED
  BY <1>2, <1>3, <1>4, SameSyntaxAgree, Zenon DEF r, q

LEMMA WarningAgree ==
  ASSUME NEW s, NEW t, Agree(s, t), NEW type, type # "FATAL"
  PROVE  Agree(Warning(s, type), Warning(t, type))
<1> DEFINE r == Warning(s, type)
           q == Warning(t, type)
<1>1. IsState(s) /\ IsState(t) /\ s.exit = t.exit
  BY DEF Agree
<1>2. Keeps(r, s) /\ SameSyntax(r, s) /\ r.exit = s.exit
  BY <1>1, WarningKeeps, Zenon
<1>3. Keeps(q, t) /\ SameSyntax(q, t) /\ q.exit = t.exit
  BY <1>1, WarningKeeps, Zenon
<1> HIDE DEF r, q
<1>4. r.exit = q.exit
  BY <1>1, <1>2, <1>3, Zenon
<1> QED
  BY <1>2, <1>3, <1>4, SameSyntaxAgree, Zenon DEF r, q

LEMMA NewSyntaxAgree ==
  ASSUME NEW s, NEW t, Agree(s, t), NEW x
  PROVE  Agree([s EXCEPT !.syx = x], [t EXCEPT !.syx = x])
  BY Zenon DEF Agree, IsState, Fields, LogFields

LEMMA SyntaxLetterAgree ==
  ASSUME NEW s, NEW t, Agree(s, t), NEW c
  PROVE  Agree(SyntaxLetter(s, c), SyntaxLetter(t, c))
<1>1. IsState(s) /\ IsState(t) /\ s.syx = t.syx
  BY DEF Agree
<1>2. CASE c \in Letters
  <2> DEFINE x == LetterSyntax(s.syx, c)
  <2>1. SyntaxLetter(s, c) = [s EXCEPT !.syx = x] /\ SyntaxLetter(t, c) = [t EXCEPT !.syx = x]
    BY <1>1, <1>2, LetterOutcome, Zenon
  <2> HIDE DEF x
  <2>2. Agree([s EXCEPT !.syx = x], [t EXCEPT !.syx = x])
    BY NewSyntaxAgree, Zenon
  <2> QED
    BY <2>1, <2>2, Zenon
<1>3. CASE c \notin Letters
  <2>1. SyntaxLetter(s, c) = Error(s, "PASS03") /\ SyntaxLetter(t, c) = Error(t, "PASS03")
    BY <1>1, <1>3, LetterOutcome, Zenon
  <2>2. Agree(Error(s, "PASS03"), Error(t, "PASS03"))
    BY ErrorAgree, Zenon
  <2> QED
    BY <2>1, <2>2, Zenon
<1> QED
  BY <1>2, <1>3

LEMMA SyntaxLettersOptioned ==
  ASSUME NEW s, IsState(s), NEW v, IsSequence(v)
  PROVE  Optioned(SyntaxLetters(s, v), s)
<1>1. Len(v) \in Nat
  BY DEF IsSequence
<1>2. PICK f : f[0] = s /\ f[Len(v)] = SyntaxLetters(s, v) /\ LetterSteps(f, v)
  BY <1>1, LettersRun, Zenon
<1> DEFINE S == {k \in 0 .. Len(v) : Optioned(f[k], s)}
<1>3. 0 \in S
  <2>1. 0 \in 0 .. Len(v)
    BY <1>1
  <2> QED
    BY <1>2, <2>1, OptionedItself, Zenon
<1>4. ASSUME NEW k \in 1 .. Len(v), k - 1 \in S PROVE k \in S
  <2>1. k \in 0 .. Len(v)
    BY <1>1
  <2>2. Optioned(f[k - 1], s) /\ IsState(f[k - 1])
    BY <1>4, Zenon DEF Optioned, Keeps
  <2> QED
    BY <1>2, <2>1, <2>2, SyntaxLetterOptioned, OptionedTwice, Zenon DEF LetterSteps
<1> HIDE DEF S
<1>5. Len(v) \in S
  BY <1>1, <1>3, <1>4, Upwards
<1> QED
  BY <1>2, <1>5, Zenon DEF S

LEMMA SyntaxLettersAgree ==
  ASSUME NEW s, NEW t, Agree(s, t), NEW v, IsSequence(v)
  PROVE  Agree(SyntaxLetters(s, v), SyntaxLetters(t, v))
<1>1. Len(v) \in Nat
  BY DEF IsSequence
<1>2. PICK f : f[0] = s /\ f[Len(v)] = SyntaxLetters(s, v) /\ LetterSteps(f, v)
  BY <1>1, LettersRun, Zenon
<1>3. PICK g : g[0] = t /\ g[Len(v)] = SyntaxLetters(t, v) /\ LetterSteps(g, v)
  BY <1>1, LettersRun, Zenon
<1> DEFINE S == {k \in 0 .. Len(v) : Agree(f[k], g[k])}
<1>4. 0 \in S
  <2>1. 0 \in 0 .. Len(v)
    BY <1>1
  <2> QED
    BY <1>2, <1>3, <2>1, Zenon
<1>5. ASSUME NEW k \in 1 .. Len(v), k - 1 \in S PROVE k \in S
  <2>1. k \in 0 .. Len(v)
    BY <1>1
  <2>2. Agree(f[k - 1], g[k - 1])
    BY <1>5, Zenon
  <2>3. f[k] = SyntaxLetter(f[k - 1], v[k]) /\ g[k] = SyntaxLetter(g[k - 1], v[k])
    BY <1>2, <1>3, Zenon DEF LetterSteps
  <2>4. Agree(SyntaxLetter(f[k - 1], v[k]), SyntaxLetter(g[k - 1], v[k]))
    BY <2>2, SyntaxLetterAgree, Zenon
  <2> QED
    BY <2>1, <2>3, <2>4, Zenon
<1> HIDE DEF S
<1>6. Len(v) \in S
  BY <1>1, <1>4, <1>5, Upwards
<1> QED
  BY <1>2, <1>3, <1>6, Zenon DEF S

\* warning_state: the disabled warnings, and the syntax when ids has "fake"
Disabled(s, d, x) == [s EXCEPT !.disabled = d, !.syx = x]
FakeSyntax(x, enable, ids) == [x EXCEPT !.FakeWarning = IF "fake" \in ids THEN enable ELSE @]

LEMMA DisabledIsSyntax ==
  ASSUME NEW s, IsState(s), NEW d, NEW x
  PROVE  /\ IsState(Disabled(s, d, x)) /\ SameMoment(Disabled(s, d, x), s) /\ SameErrors(Disabled(s, d, x), s)
         /\ Disabled(s, d, x).stack = s.stack /\ Disabled(s, d, x).syx = x
  BY Zenon DEF Disabled, SameMoment, SameErrors, IsState, Fields, LogFields

LEMMA CliWoptionOutcome ==
  ASSUME NEW s, IsState(s), NEW enable, NEW id
  PROVE  /\ id = "" => CliWoption(s, enable, id) = Error(s, "PASS03")
         /\ id = "all" => \E d : CliWoption(s, enable, id) = Disabled(s, d, FakeSyntax(s.syx, enable, WarningIds))
         /\ id \in WarningIds \ {"all"} => \E d : CliWoption(s, enable, id) = Disabled(s, d, FakeSyntax(s.syx, enable, {id}))
         /\ id \notin WarningIds \cup {"", "all"} => CliWoption(s, enable, id) = Warning(s, "PASS03")
<1> DEFINE set(ids) == [s EXCEPT !.disabled = IF enable THEN @ \ ids ELSE @ \cup (ids \ {"fake"}),
                                 !.syx.FakeWarning = IF "fake" \in ids THEN enable ELSE @]
<1>1. ASSUME NEW ids PROVE \E d : set(ids) = Disabled(s, d, FakeSyntax(s.syx, enable, ids))
  <2> DEFINE e == IF enable THEN s.disabled \ ids ELSE s.disabled \cup (ids \ {"fake"})
  <2>1. "syx" \in DOMAIN s
    BY Zenon DEF IsState, Fields
  <2>2. [s EXCEPT !.disabled = e].syx = s.syx
    BY <2>1, Zenon
  <2>3. set(ids) = Disabled(s, e, FakeSyntax(s.syx, enable, ids))
    BY <2>1, <2>2, Zenon DEF Disabled, FakeSyntax
  <2> QED
    BY <2>3, Zenon
<1>2. "" \notin WarningIds /\ "all" # ""
  BY DEF WarningIds
<1>3. CliWoption(s, enable, id) = CASE id = "" -> Error(s, "PASS03")
        [] id = "all"         -> set(WarningIds)
        [] id \in WarningIds \ {"all"} -> set({id})
        [] OTHER              -> Warning(s, "PASS03")
  BY Zenon DEF CliWoption
<1> HIDE DEF set
<1>4. id = "" => CliWoption(s, enable, id) = Error(s, "PASS03")
  BY <1>2, <1>3, Zenon
<1>5. id = "all" => CliWoption(s, enable, id) = set(WarningIds)
  BY <1>2, <1>3, Zenon
<1>6. id \in WarningIds \ {"all"} => CliWoption(s, enable, id) = set({id})
  BY <1>2, <1>3, Zenon
<1>7. id \notin WarningIds \cup {"", "all"} => CliWoption(s, enable, id) = Warning(s, "PASS03")
  BY <1>3, Zenon
<1> QED
  BY <1>1, <1>4, <1>5, <1>6, <1>7, Zenon

LEMMA CliWoptionOptioned ==
  ASSUME NEW s, IsState(s), NEW enable, NEW id
  PROVE  Optioned(CliWoption(s, enable, id), s)
<1>1. ASSUME NEW d, NEW ids PROVE Optioned(Disabled(s, d, FakeSyntax(s.syx, enable, ids)), s)
  <2> DEFINE x == FakeSyntax(s.syx, enable, ids)
             r == Disabled(s, d, x)
  <2>1. "IsNextEnabled" \in DOMAIN s.syx => "IsNextEnabled" \in DOMAIN x /\ x.IsNextEnabled = s.syx.IsNextEnabled
    BY Zenon DEF FakeSyntax
  <2> HIDE DEF x
  <2>2. IsState(r) /\ SameMoment(r, s) /\ SameErrors(r, s) /\ r.stack = s.stack /\ r.syx = x
    BY DisabledIsSyntax
  <2> HIDE DEF r
  <2>3. Plain(s.syx, s) => Plain(r.syx, r)
    BY <2>1, <2>2, Zenon DEF Plain, SameMoment
  <2>4. Optioned(r, s)
    BY <2>2, <2>3, SameErrorsKeeps, Zenon DEF Optioned
  <2> QED
    BY <2>4, Zenon DEF r, x
<1>2. Optioned(Error(s, "PASS03"), s)
  BY ErrorKeeps, SameSyntaxOptioned, Zenon
<1>3. Optioned(Warning(s, "PASS03"), s)
  BY WarningKeeps, SameSyntaxOptioned, Zenon
<1>4. CASE id = "all"
  <2>1. \E d : CliWoption(s, enable, id) = Disabled(s, d, FakeSyntax(s.syx, enable, WarningIds))
    BY <1>4, CliWoptionOutcome
  <2> QED
    BY <1>1, <2>1, Zenon
<1>5. CASE id \in WarningIds \ {"all"}
  <2>1. \E d : CliWoption(s, enable, id) = Disabled(s, d, FakeSyntax(s.syx, enable, {id}))
    BY <1>5, CliWoptionOutcome
  <2> QED
    BY <1>1, <2>1, Zenon
<1> QED
  BY <1>2, <1>3, <1>4, <1>5, CliWoptionOutcome, Zenon

LEMMA CliWoptionAgree ==
  ASSUME NEW s, NEW t, Agree(s, t), NEW enable, NEW id
  PROVE  Agree(CliWoption(s, enable, id), CliWoption(t, enable, id))
<1>1. IsState(s) /\ IsState(t) /\ s.syx = t.syx
  BY DEF Agree
<1>2. ASSUME NEW d, NEW e, NEW x PROVE Agree(Disabled(s, d, x), Disabled(t, e, x))
  <2> DEFINE r == Disabled(s, d, x)
             q == Disabled(t, e, x)
  <2>1. IsState(r) /\ SameMoment(r, s) /\ SameErrors(r, s) /\ r.syx = x
    BY <1>1, DisabledIsSyntax
  <2>2. IsState(q) /\ SameMoment(q, t) /\ SameErrors(q, t) /\ q.syx = x
    BY <1>1, DisabledIsSyntax
  <2> HIDE DEF r, q
  <2>3. Agree(r, q)
    BY <2>1, <2>2, Zenon DEF Agree, SameMoment, SameErrors
  <2> QED
    BY <2>3, Zenon DEF r, q
<1>3. CASE id = ""
  <2>1. CliWoption(s, enable, id) = Error(s, "PASS03") /\ CliWoption(t, enable, id) = Error(t, "PASS03")
    BY <1>1, <1>3, CliWoptionOutcome, Zenon
  <2> QED
    BY <2>1, ErrorAgree, Zenon
<1>4. CASE id = "all"
  <2>1. /\ \E d : CliWoption(s, enable, id) = Disabled(s, d, FakeSyntax(s.syx, enable, WarningIds))
        /\ \E d : CliWoption(t, enable, id) = Disabled(t, d, FakeSyntax(s.syx, enable, WarningIds))
    BY <1>1, <1>4, CliWoptionOutcome, Zenon
  <2> QED
    BY <1>2, <2>1, Zenon
<1>5. CASE id \in WarningIds \ {"all"}
  <2>1. \E d : CliWoption(s, enable, id) = Disabled(s, d, FakeSyntax(s.syx, enable, {id}))
    BY <1>1, <1>5, CliWoptionOutcome
  <2>2. \E d : CliWoption(t, enable, id) = Disabled(t, d, FakeSyntax(t.syx, enable, {id}))
    BY <1>1, <1>5, CliWoptionOutcome
  <2> QED
    BY <1>1, <1>2, <2>1, <2>2, Zenon
<1>6. CASE id \notin WarningIds \cup {"", "all"}
  <2>1. CliWoption(s, enable, id) = Warning(s, "PASS03") /\ CliWoption(t, enable, id) = Warning(t, "PASS03")
    BY <1>1, <1>6, CliWoptionOutcome, Zenon
  <2> QED
    BY <2>1, WarningAgree, Zenon
<1> QED
  BY <1>3, <1>4, <1>5, <1>6

\* The syntax after an option without errors
NextValue(v) == IF v = "cspect" THEN 2 ELSE 1
OptionSyntax(x, o) ==
  CASE o.opt = "zxnext"     -> [x EXCEPT !.IsNextEnabled = NextValue(o.val)]
    [] o.opt = "reversepop" -> [x EXCEPT !.IsReversePOP = TRUE]
    [] o.opt = "dirbol"     -> [x EXCEPT !.IsPseudoOpBOF = TRUE]
    [] o.opt = "nofakes"    -> [x EXCEPT !.FakeEnabled = FALSE]

LEMMA SyntaxOptionOutcome ==
  ASSUME NEW s, IsState(s), NEW o, IsSyntaxOption(o)
  PROVE  /\ o.opt = "zxnext" /\ (s.IsI8080 \/ s.IsLR35902) => SyntaxOption(s, o) = Error(s, "FATAL")
         /\ (o.opt = "zxnext" /\ ~(s.IsI8080 \/ s.IsLR35902)) \/ o.opt \in {"reversepop", "dirbol", "nofakes"} =>
              SyntaxOption(s, o) = [s EXCEPT !.syx = OptionSyntax(s.syx, o)]
         /\ o.opt = "syntax" => SyntaxOption(s, o) = SyntaxLetters(s, o.val)
         /\ o.opt = "W" => SyntaxOption(s, o) = CliWoption(s, o.val.enable, o.val.id)
         /\ o.opt = "cleanonerror" => SyntaxOption(s, o) = [s EXCEPT !.DeleteOnError = TRUE]
<1>1. o.opt = "zxnext" /\ (s.IsI8080 \/ s.IsLR35902) => SyntaxOption(s, o) = Error(s, "FATAL")
  BY Zenon DEF SyntaxOption
<1>2. o.opt = "zxnext" /\ ~(s.IsI8080 \/ s.IsLR35902) => SyntaxOption(s, o) = [s EXCEPT !.syx = OptionSyntax(s.syx, o)]
  BY Zenon DEF SyntaxOption, OptionSyntax, NextValue
<1>3. o.opt \in {"reversepop", "dirbol", "nofakes"} => SyntaxOption(s, o) = [s EXCEPT !.syx = OptionSyntax(s.syx, o)]
  BY Zenon DEF SyntaxOption, OptionSyntax
<1>4. /\ o.opt = "syntax" => SyntaxOption(s, o) = SyntaxLetters(s, o.val)
      /\ o.opt = "W" => SyntaxOption(s, o) = CliWoption(s, o.val.enable, o.val.id)
      /\ o.opt = "cleanonerror" => SyntaxOption(s, o) = [s EXCEPT !.DeleteOnError = TRUE]
  BY Zenon DEF SyntaxOption
<1> QED
  BY <1>1, <1>2, <1>3, <1>4, Zenon

LEMMA OptionSyntaxPlain ==
  ASSUME NEW s, IsState(s), Plain(s.syx, s), NEW o,
         (o.opt = "zxnext" /\ ~(s.IsI8080 \/ s.IsLR35902)) \/ o.opt \in {"reversepop", "dirbol", "nofakes"}
  PROVE  Plain(OptionSyntax(s.syx, o), s)
<1>1. CASE o.opt = "zxnext"
  BY <1>1, Zenon DEF Plain, OptionSyntax
<1>2. CASE o.opt \in {"reversepop", "dirbol", "nofakes"}
  BY <1>2, Zenon DEF Plain, OptionSyntax
<1> QED
  BY <1>1, <1>2

LEMMA SyntaxOptionOptioned ==
  ASSUME NEW s, IsState(s), NEW o, IsOption(o), IsSyntaxOption(o)
  PROVE  Optioned(SyntaxOption(s, o), s)
<1>1. CASE o.opt = "zxnext" /\ (s.IsI8080 \/ s.IsLR35902)
  <2>1. SyntaxOption(s, o) = Error(s, "FATAL")
    BY <1>1, SyntaxOptionOutcome
  <2> QED
    BY <2>1, ErrorKeeps, SameSyntaxOptioned, Zenon
<1>2. CASE (o.opt = "zxnext" /\ ~(s.IsI8080 \/ s.IsLR35902)) \/ o.opt \in {"reversepop", "dirbol", "nofakes"}
  <2> DEFINE x == OptionSyntax(s.syx, o)
             r == [s EXCEPT !.syx = x]
  <2>1. SyntaxOption(s, o) = r
    BY <1>2, SyntaxOptionOutcome
  <2>2. Plain(s.syx, s) => Plain(x, s)
    BY <1>2, OptionSyntaxPlain, Zenon
  <2> HIDE DEF x
  <2>3. IsState(r) /\ SameMoment(r, s) /\ SameErrors(r, s) /\ r.stack = s.stack /\ r.syx = x
    BY Zenon DEF SameMoment, SameErrors, IsState, Fields, LogFields
  <2> HIDE DEF r
  <2>4. Plain(s.syx, s) => Plain(r.syx, r)
    BY <2>2, <2>3, Zenon DEF Plain, SameMoment
  <2> QED
    BY <2>1, <2>3, <2>4, SameErrorsKeeps, Zenon DEF Optioned
<1>3. CASE o.opt = "syntax"
  <2>1. SyntaxOption(s, o) = SyntaxLetters(s, o.val) /\ IsSequence(o.val)
    BY <1>3, SyntaxOptionOutcome DEF IsOption
  <2> QED
    BY <2>1, SyntaxLettersOptioned, Zenon
<1>4. CASE o.opt = "W"
  <2>1. SyntaxOption(s, o) = CliWoption(s, o.val.enable, o.val.id)
    BY <1>4, SyntaxOptionOutcome
  <2> QED
    BY <2>1, CliWoptionOptioned, Zenon
<1>5. CASE o.opt = "cleanonerror"
  <2> DEFINE r == [s EXCEPT !.DeleteOnError = TRUE]
  <2>1. SyntaxOption(s, o) = r
    BY <1>5, SyntaxOptionOutcome
  <2>2. Quiet(r, s)
    BY Zenon DEF Quiet, SameMoment, SameSyntax, SameErrors, IsState, Fields, LogFields
  <2> HIDE DEF r
  <2> QED
    BY <2>1, <2>2, QuietKeeps, SameSyntaxOptioned, Zenon DEF Quiet
<1> QED
  BY <1>1, <1>2, <1>3, <1>4, <1>5 DEF IsSyntaxOption

LEMMA SyntaxOptionAgree ==
  ASSUME NEW s, NEW t, Agree(s, t), NEW o, IsOption(o), IsSyntaxOption(o)
  PROVE  Agree(SyntaxOption(s, o), SyntaxOption(t, o))
<1> DEFINE other == s.IsI8080 \/ s.IsLR35902
<1>1. IsState(s) /\ IsState(t) /\ s.syx = t.syx /\ (t.IsI8080 \/ t.IsLR35902 <=> other)
  BY DEF Agree
<1> HIDE DEF other
<1>2. CASE o.opt = "zxnext" /\ other
  <2>1. SyntaxOption(s, o) = Error(s, "FATAL") /\ SyntaxOption(t, o) = Error(t, "FATAL")
    BY <1>1, <1>2, SyntaxOptionOutcome DEF other
  <2> QED
    BY <2>1, ErrorAgree, Zenon
<1>3. CASE (o.opt = "zxnext" /\ ~other) \/ o.opt \in {"reversepop", "dirbol", "nofakes"}
  <2> DEFINE x == OptionSyntax(s.syx, o)
  <2>1. SyntaxOption(s, o) = [s EXCEPT !.syx = x]
    BY <1>1, <1>3, SyntaxOptionOutcome DEF other
  <2>2. SyntaxOption(t, o) = [t EXCEPT !.syx = x]
    BY <1>1, <1>3, SyntaxOptionOutcome DEF other
  <2> HIDE DEF x
  <2>3. Agree([s EXCEPT !.syx = x], [t EXCEPT !.syx = x])
    BY NewSyntaxAgree, Zenon
  <2> QED
    BY <2>1, <2>2, <2>3, Zenon
<1>4. CASE o.opt = "syntax"
  <2>1. /\ SyntaxOption(s, o) = SyntaxLetters(s, o.val) /\ SyntaxOption(t, o) = SyntaxLetters(t, o.val)
        /\ IsSequence(o.val)
    BY <1>1, <1>4, SyntaxOptionOutcome DEF IsOption
  <2> QED
    BY <2>1, SyntaxLettersAgree, Zenon
<1>5. CASE o.opt = "W"
  <2>1. /\ SyntaxOption(s, o) = CliWoption(s, o.val.enable, o.val.id)
        /\ SyntaxOption(t, o) = CliWoption(t, o.val.enable, o.val.id)
    BY <1>1, <1>5, SyntaxOptionOutcome
  <2> QED
    BY <2>1, CliWoptionAgree, Zenon
<1>6. CASE o.opt = "cleanonerror"
  <2>1. /\ SyntaxOption(s, o) = [s EXCEPT !.DeleteOnError = TRUE]
        /\ SyntaxOption(t, o) = [t EXCEPT !.DeleteOnError = TRUE]
    BY <1>1, <1>6, SyntaxOptionOutcome
  <2>2. Agree([s EXCEPT !.DeleteOnError = TRUE], [t EXCEPT !.DeleteOnError = TRUE])
    BY Zenon DEF Agree, IsState, Fields, LogFields
  <2> QED
    BY <2>1, <2>2, Zenon
<1> QED
  BY <1>2, <1>3, <1>4, <1>5, <1>6 DEF IsSyntaxOption

-----------------------------------------------------------------------------
(* The directive OPT.                                                      *)

\* Saved syntaxes, each of them plain
Stacked(k, s) == \E S : k \in Seq(S) /\ \A x \in S : Plain(x, s)
AllPlain(s) == Plain(s.syx, s) /\ Stacked(s.stack, s)

\* The syntax and the stack after a command of OPT
CommandSyntax(x, k, c) ==
  CASE c = "pop"     -> IF k = <<>> THEN x ELSE Head(k)
    [] c = "reset"   -> DefaultSyntax
    [] c = "listoff" -> [x EXCEPT !.IsListingSuspended = TRUE]
    [] c = "liston"  -> [x EXCEPT !.IsListingSuspended = FALSE]
    [] c = "listall" -> [x EXCEPT !.ListingType = "all"]
    [] c = "listact" -> [x EXCEPT !.ListingType = "active"]
    [] c = "listmc"  -> [x EXCEPT !.ListingType = "mc"]
    [] OTHER         -> x
CommandStack(x, k, c) ==
  CASE c = "pop"  -> IF k = <<>> THEN k ELSE Tail(k)
    [] c = "push" -> <<x>> \o k
    [] OTHER      -> k
Commands == {"pop", "push", "reset", "listoff", "liston", "listall", "listact", "listmc"}

LEMMA CommandSyntaxPlain ==
  ASSUME NEW s, AllPlain(s), NEW c
  PROVE  Plain(CommandSyntax(s.syx, s.stack, c), s) /\ Stacked(CommandStack(s.syx, s.stack, c), s)
<1>1. PICK S : s.stack \in Seq(S) /\ \A x \in S : Plain(x, s)
  BY DEF AllPlain, Stacked
<1>2. Plain(s.syx, s) /\ Plain(DefaultSyntax, s)
  BY DEF AllPlain, Plain, DefaultSyntax
<1>3. s.stack # <<>> => Head(s.stack) \in S /\ Tail(s.stack) \in Seq(S)
  BY <1>1
<1>4. <<s.syx>> \o s.stack \in Seq(S \cup {s.syx})
  BY <1>1
<1>5. Plain(CommandSyntax(s.syx, s.stack, c), s)
  <2>1. CASE c = "pop"
    BY <1>1, <1>2, <1>3, <2>1, Zenon DEF CommandSyntax
  <2>2. CASE c = "reset"
    BY <1>2, <2>2, Zenon DEF CommandSyntax
  <2>3. CASE c \notin {"pop", "reset"}
    BY <1>2, <2>3, Zenon DEF CommandSyntax, Plain
  <2> QED
    BY <2>1, <2>2, <2>3
<1>6. Stacked(CommandStack(s.syx, s.stack, c), s)
  <2>1. CASE c = "pop"
    BY <1>1, <1>3, <2>1, Zenon DEF CommandStack, Stacked
  <2>2. CASE c = "push"
    <3>1. \A x \in S \cup {s.syx} : Plain(x, s)
      BY <1>1, <1>2, Zenon
    <3> QED
      BY <1>4, <2>2, <3>1, Zenon DEF CommandStack, Stacked
  <2>3. CASE c \notin {"pop", "push"}
    BY <1>1, <2>3, Zenon DEF CommandStack, Stacked
  <2> QED
    BY <2>1, <2>2, <2>3
<1> QED
  BY <1>5, <1>6

\* r comes after s without an end of the program, with the syntax x and the stack k.
ChangesTo(r, s, x, k) == Keeps(r, s) /\ r.exit = s.exit /\ r.syx = x /\ r.stack = k

LEMMA ChangeOfSyntax ==
  ASSUME NEW s, IsState(s), NEW x, NEW k, NEW d
  PROVE  /\ ChangesTo([s EXCEPT !.syx = x], s, x, s.stack)
         /\ ChangesTo([s EXCEPT !.syx = x, !.stack = k], s, x, k)
         /\ ChangesTo([s EXCEPT !.donotlist = d, !.syx = x], s, x, s.stack)
         /\ ChangesTo([s EXCEPT !.stack = k], s, s.syx, k)
<1>1. ASSUME NEW r \in {[s EXCEPT !.syx = x], [s EXCEPT !.syx = x, !.stack = k],
                        [s EXCEPT !.donotlist = d, !.syx = x], [s EXCEPT !.stack = k]}
      PROVE  Keeps(r, s) /\ r.exit = s.exit
  <2>1. IsState(r) /\ SameMoment(r, s) /\ SameErrors(r, s)
    BY <1>1, Zenon DEF SameMoment, SameErrors, IsState, Fields, LogFields
  <2> QED
    BY <2>1, SameErrorsKeeps, Zenon DEF SameErrors
<1>2. /\ [s EXCEPT !.syx = x].syx = x /\ [s EXCEPT !.syx = x].stack = s.stack
      /\ [s EXCEPT !.syx = x, !.stack = k].syx = x /\ [s EXCEPT !.syx = x, !.stack = k].stack = k
      /\ [s EXCEPT !.donotlist = d, !.syx = x].syx = x /\ [s EXCEPT !.donotlist = d, !.syx = x].stack = s.stack
      /\ [s EXCEPT !.stack = k].syx = s.syx /\ [s EXCEPT !.stack = k].stack = k
  BY Zenon DEF IsState, Fields
<1> QED
  BY <1>1, <1>2, Zenon DEF ChangesTo

\* The record of dirOPT
IsOpt(r) == {"s", "didReset", "didList", "stop"} \subseteq DOMAIN r /\ IsState(r.s)

Listed(r, d) == [(IF r.didList THEN r.s ELSE ListFile(r.s, FALSE)) EXCEPT !.donotlist = TRUE, !.syx = d]

LEMMA ListedChanges ==
  ASSUME NEW r, IsOpt(r), NEW x
  PROVE  ChangesTo(Listed(r, x), r.s, x, r.s.stack)
<1> DEFINE l == IF r.didList THEN r.s ELSE ListFile(r.s, FALSE)
           t == [l EXCEPT !.donotlist = TRUE, !.syx = x]
<1>1. Quiet(l, r.s)
  BY QuietItself, ListFileQuiet, Zenon DEF IsOpt
<1>2. Listed(r, x) = t
  BY Zenon DEF Listed
<1> HIDE DEF l
<1>3. IsState(l) /\ Keeps(l, r.s) /\ l.exit = r.s.exit /\ l.stack = r.s.stack
  BY <1>1, QuietKeeps, Zenon DEF Quiet, SameSyntax, SameErrors
<1>4. ChangesTo(t, l, x, l.stack)
  BY <1>3, ChangeOfSyntax
<1> HIDE DEF t
<1> QED
  BY <1>2, <1>3, <1>4, KeepsTwice, Zenon DEF ChangesTo

LEMMA OptCommandOutcome ==
  ASSUME NEW r, IsOpt(r), ~r.stop, r.s.exit = -1, NEW c
  PROVE  LET q == OptCommand(r, c)
         IN  /\ IsOpt(q) /\ (q.stop <=> c = "pop" \/ c \notin Commands)
             /\ ChangesTo(q.s, r.s, CommandSyntax(r.s.syx, r.s.stack, c), CommandStack(r.s.syx, r.s.stack, c))
<1> DEFINE s == r.s
           l == IF r.didList THEN s ELSE ListFile(s, FALSE)
           w == Warning(s, "PASS3")
           p == IF r.didReset THEN w ELSE s
           q == OptCommand(r, c)
           x == CommandSyntax(s.syx, s.stack, c)
           k == CommandStack(s.syx, s.stack, c)
<1>1. IsState(s) /\ "syx" \in DOMAIN s /\ "stack" \in DOMAIN s /\ "donotlist" \in DOMAIN s
  BY Zenon DEF IsOpt, IsState, Fields
<1>2. ChangesTo(w, s, s.syx, s.stack) /\ ChangesTo(p, s, s.syx, s.stack) /\ ChangesTo(s, s, s.syx, s.stack)
  <2>1. Keeps(s, s)
    BY <1>1, KeepsItself, Zenon
  <2>2. Keeps(w, s) /\ SameSyntax(w, s) /\ w.exit = s.exit
    BY <1>1, WarningKeeps
  <2> HIDE DEF w
  <2> QED
    BY <2>1, <2>2, Zenon DEF ChangesTo, SameSyntax
<1>3. CASE c = "pop"
  <2> DEFINE t == [s EXCEPT !.syx = Head(s.stack), !.stack = Tail(s.stack)]
             u == IF s.stack = <<>> THEN w ELSE t
  <2>1. x = (IF s.stack = <<>> THEN s.syx ELSE Head(s.stack)) /\ k = IF s.stack = <<>> THEN s.stack ELSE Tail(s.stack)
    BY <1>3, Zenon DEF CommandSyntax, CommandStack
  <2>2. q = [r EXCEPT !.stop = TRUE, !.s = u]
    <3>1. [s EXCEPT !.syx = Head(s.stack), !.stack = Tail(@)] = t
      BY <1>1, Zenon
    <3> QED
      BY <1>3, <3>1, Zenon DEF OptCommand
  <2>3. ChangesTo(t, s, Head(s.stack), Tail(s.stack))
    BY <1>1, ChangeOfSyntax
  <2> HIDE DEF t, w
  <2>4. ChangesTo(u, s, x, k)
    <3> HIDE DEF x, k
    <3> QED
      BY <1>2, <2>1, <2>3, Zenon
  <2> HIDE DEF u
  <2>5. IsOpt(q) /\ q.stop = TRUE /\ q.s = u
    BY <2>2, <2>4, Zenon DEF IsOpt, ChangesTo, Keeps
  <2> QED
    BY <1>3, <2>4, <2>5, Zenon
<1>4. CASE c = "push"
  <2> DEFINE t == [p EXCEPT !.stack = <<p.syx>> \o p.stack]
  <2>1. x = s.syx /\ k = <<s.syx>> \o s.stack
    BY <1>4, Zenon DEF CommandSyntax, CommandStack
  <2>2. q = [r EXCEPT !.s = t]
    BY <1>4, Zenon DEF OptCommand
  <2> HIDE DEF p
  <2>3. ChangesTo(t, p, p.syx, <<p.syx>> \o p.stack)
    <3>1. IsState(p)
      BY <1>2 DEF ChangesTo, Keeps
    <3> QED
      BY <3>1, ChangeOfSyntax
  <2> HIDE DEF t, x, k
  <2>4. ChangesTo(t, s, x, k)
    BY <1>2, <2>1, <2>3, KeepsTwice, Zenon DEF ChangesTo
  <2>5. IsOpt(q) /\ q.stop = r.stop /\ q.s = t
    BY <2>2, <2>4, Zenon DEF IsOpt, ChangesTo, Keeps
  <2> QED
    BY <1>4, <2>4, <2>5, Zenon DEF x, k, Commands
<1>5. CASE c \in {"reset", "liston"}
  <2> DEFINE t == [s EXCEPT !.syx = x]
  <2>1. k = s.stack
    BY <1>5, Zenon DEF CommandStack
  <2>2. ChangesTo(t, s, x, s.stack)
    BY <1>1, ChangeOfSyntax
  <2>3. /\ c = "reset" => x = DefaultSyntax
        /\ c = "liston" => x = [s.syx EXCEPT !.IsListingSuspended = FALSE]
    BY Zenon DEF CommandSyntax
  <2>4. q = [r EXCEPT !.s = t] \/ q = [r EXCEPT !.s = t, !.didReset = TRUE]
    <3>1. CASE c = "reset"
      <4>1. [r EXCEPT !.s.syx = DefaultSyntax, !.didReset = TRUE] = [r EXCEPT !.s = t, !.didReset = TRUE]
        BY <2>3, <3>1, Zenon
      <4> QED
        BY <3>1, <4>1, Zenon DEF OptCommand
    <3>2. CASE c = "liston"
      <4>1. [r EXCEPT !.s.syx.IsListingSuspended = FALSE] = [r EXCEPT !.s = t]
        BY <2>3, <3>2, Zenon
      <4> QED
        BY <3>2, <4>1, Zenon DEF OptCommand
    <3> QED
      BY <1>5, <3>1, <3>2
  <2> HIDE DEF t
  <2>5. IsOpt(q) /\ q.stop = r.stop /\ q.s = t
    BY <2>2, <2>4, Zenon DEF IsOpt, ChangesTo, Keeps
  <2> QED
    BY <1>5, <2>1, <2>2, <2>5, Zenon DEF Commands
<1>6. CASE c \in {"listoff", "listall", "listact", "listmc"}
  <2> DEFINE t == Listed(r, x)
             f(type) == [l EXCEPT !.donotlist = TRUE, !.syx.ListingType = type]
  <2>1. k = s.stack
    BY <1>6, Zenon DEF CommandStack
  <2>2. ChangesTo(t, s, x, s.stack)
    BY ListedChanges
  <2>3. l.syx = s.syx /\ "syx" \in DOMAIN l
    <3>1. Quiet(l, s)
      BY <1>1, QuietItself, ListFileQuiet, Zenon
    <3> HIDE DEF l
    <3> QED
      BY <3>1, Zenon DEF Quiet, SameSyntax, IsState, Fields
  <2>4. /\ c = "listoff" => x = [s.syx EXCEPT !.IsListingSuspended = TRUE]
        /\ c = "listall" => x = [s.syx EXCEPT !.ListingType = "all"]
        /\ c = "listact" => x = [s.syx EXCEPT !.ListingType = "active"]
        /\ c = "listmc" => x = [s.syx EXCEPT !.ListingType = "mc"]
    BY Zenon DEF CommandSyntax
  <2>5. q = [r EXCEPT !.s = t, !.didList = TRUE]
    <3>1. ASSUME NEW type, x = [s.syx EXCEPT !.ListingType = type] PROVE f(type) = t
      <4>1. t = [l EXCEPT !.donotlist = TRUE, !.syx = x]
        BY Zenon DEF Listed
      <4>2. [l EXCEPT !.donotlist = TRUE].syx = l.syx
        BY <2>3, Zenon
      <4> HIDE DEF l, t
      <4> QED
        BY <2>3, <3>1, <4>1, <4>2, Zenon
    <3>2. ASSUME c = "listoff" PROVE [l EXCEPT !.donotlist = TRUE, !.syx.IsListingSuspended = TRUE] = t
      <4>1. t = [l EXCEPT !.donotlist = TRUE, !.syx = x]
        BY Zenon DEF Listed
      <4>2. [l EXCEPT !.donotlist = TRUE].syx = l.syx
        BY <2>3, Zenon
      <4>3. x = [l.syx EXCEPT !.IsListingSuspended = TRUE]
        BY <2>3, <2>4, <3>2, Zenon
      <4> HIDE DEF l, t, x
      <4> QED
        BY <4>1, <4>2, <4>3, Zenon
    <3>3. /\ c = "listoff" => q = [r EXCEPT !.s = [l EXCEPT !.donotlist = TRUE, !.syx.IsListingSuspended = TRUE], !.didList = TRUE]
          /\ c = "listall" => q = [r EXCEPT !.s = f("all"), !.didList = TRUE]
          /\ c = "listact" => q = [r EXCEPT !.s = f("active"), !.didList = TRUE]
          /\ c = "listmc" => q = [r EXCEPT !.s = f("mc"), !.didList = TRUE]
      BY Zenon DEF OptCommand
    <3> HIDE DEF q, f, l, t, x
    <3> QED
      BY <1>6, <2>4, <3>1, <3>2, <3>3, Zenon
  <2> HIDE DEF t
  <2>6. IsOpt(q) /\ q.stop = r.stop /\ q.s = t
    BY <2>2, <2>5, Zenon DEF IsOpt, ChangesTo, Keeps
  <2> QED
    BY <1>6, <2>1, <2>2, <2>6, Zenon DEF Commands
<1>7. CASE c \notin Commands
  <2> DEFINE t == Error(s, "PASS3")
  <2>1. x = s.syx /\ k = s.stack
    BY <1>7, Zenon DEF CommandSyntax, CommandStack, Commands
  <2>2. q = [r EXCEPT !.s = t, !.stop = TRUE]
    BY <1>7, Zenon DEF OptCommand, Commands
  <2>3. Keeps(t, s) /\ SameSyntax(t, s) /\ t.exit = s.exit
    BY <1>1, ErrorKeeps
  <2> HIDE DEF t, x, k
  <2>4. ChangesTo(t, s, x, k)
    BY <2>1, <2>3, Zenon DEF ChangesTo, SameSyntax
  <2>5. IsOpt(q) /\ q.stop = TRUE /\ q.s = t
    BY <2>2, <2>4, Zenon DEF IsOpt, ChangesTo, Keeps
  <2> QED
    BY <1>7, <2>4, <2>5, Zenon DEF x, k
<1> QED
  BY <1>3, <1>4, <1>5, <1>6, <1>7 DEF Commands

\* Later in the run, with plain syntaxes
Syntaxed(r, s) == Keeps(r, s) /\ (AllPlain(s) => AllPlain(r))

LEMMA SyntaxedItself == \A s : IsState(s) => Syntaxed(s, s)
  BY KeepsItself, Zenon DEF Syntaxed

LEMMA SyntaxedTwice ==
  ASSUME NEW q, NEW r, NEW s, Syntaxed(q, r), Syntaxed(r, s)
  PROVE  Syntaxed(q, s)
  BY KeepsTwice, Zenon DEF Syntaxed

LEMMA PlainElsewhere ==
  ASSUME NEW r, NEW s, SameMoment(r, s)
  PROVE  \A x : (Plain(x, r) <=> Plain(x, s)) /\ (Stacked(x, r) <=> Stacked(x, s))
<1>1. \A x : Plain(x, r) <=> Plain(x, s)
  BY Zenon DEF Plain, SameMoment
<1> QED
  BY <1>1, Zenon DEF Stacked

LEMMA OptionedSyntaxed ==
  ASSUME NEW r, NEW s, Optioned(r, s)
  PROVE  Syntaxed(r, s)
  BY PlainElsewhere, Zenon DEF Optioned, Syntaxed, AllPlain, Keeps

LEMMA ChangesToSyntaxed ==
  ASSUME NEW r, NEW s, NEW x, NEW k, ChangesTo(r, s, x, k), AllPlain(s) => Plain(x, s) /\ Stacked(k, s)
  PROVE  Syntaxed(r, s)
<1>1. Keeps(r, s) /\ SameMoment(r, s) /\ r.syx = x /\ r.stack = k
  BY DEF ChangesTo, Keeps
<1> QED
  BY <1>1, PlainElsewhere, Zenon DEF Syntaxed, AllPlain

LEMMA OptCommandSyntaxed ==
  ASSUME NEW r, IsOpt(r), NEW c
  PROVE  IsOpt(OptCommand(r, c)) /\ Syntaxed(OptCommand(r, c).s, r.s)
<1> DEFINE q == OptCommand(r, c)
<1>1. CASE r.stop \/ r.s.exit # -1
  <2>1. q = r
    BY <1>1, Zenon DEF OptCommand
  <2> QED
    BY <2>1, SyntaxedItself, Zenon DEF IsOpt
<1>2. CASE ~(r.stop \/ r.s.exit # -1)
  <2> DEFINE x == CommandSyntax(r.s.syx, r.s.stack, c)
             k == CommandStack(r.s.syx, r.s.stack, c)
  <2>1. IsOpt(q) /\ ChangesTo(q.s, r.s, x, k)
    BY <1>2, OptCommandOutcome
  <2>2. AllPlain(r.s) => Plain(x, r.s) /\ Stacked(k, r.s)
    BY CommandSyntaxPlain, Zenon
  <2> HIDE DEF q, x, k
  <2>3. Syntaxed(q.s, r.s)
    BY <2>1, <2>2, ChangesToSyntaxed, Zenon
  <2> QED
    BY <2>1, <2>3, Zenon DEF q
<1> QED
  BY <1>1, <1>2

LEMMA OptOptionOutcome ==
  ASSUME NEW r, IsOpt(r), NEW o
  PROVE  LET q == OptOption(r, o)
         IN  /\ r.stop \/ r.s.exit # -1 => q = r
             /\ ~(r.stop \/ r.s.exit # -1) /\ IsSyntaxOption(o) =>
                  {"s", "didReset", "didList", "stop"} \subseteq DOMAIN q /\ q.s = SyntaxOption(r.s, o) /\ q.stop = r.stop
             /\ ~(r.stop \/ r.s.exit # -1) /\ ~IsSyntaxOption(o) =>
                  {"s", "didReset", "didList", "stop"} \subseteq DOMAIN q /\ q.s = Error(r.s, "PASS3") /\ q.stop = TRUE
  BY Zenon DEF OptOption, IsOpt

LEMMA OptOptionSyntaxed ==
  ASSUME NEW r, IsOpt(r), NEW o, IsOption(o)
  PROVE  IsOpt(OptOption(r, o)) /\ Syntaxed(OptOption(r, o).s, r.s)
<1> DEFINE q == OptOption(r, o)
<1>0. IsState(r.s)
  BY DEF IsOpt
<1>1. CASE r.stop \/ r.s.exit # -1
  <2>1. q = r
    BY <1>1, OptOptionOutcome
  <2> QED
    BY <2>1, SyntaxedItself, Zenon DEF IsOpt
<1>2. CASE ~(r.stop \/ r.s.exit # -1) /\ IsSyntaxOption(o)
  <2>1. {"s", "didReset", "didList", "stop"} \subseteq DOMAIN q /\ q.s = SyntaxOption(r.s, o)
    BY <1>2, OptOptionOutcome
  <2>2. Optioned(SyntaxOption(r.s, o), r.s)
    BY <1>0, <1>2, SyntaxOptionOptioned, Zenon
  <2> HIDE DEF q
  <2>3. IsOpt(q) /\ Syntaxed(q.s, r.s)
    BY <2>1, <2>2, OptionedSyntaxed, Zenon DEF IsOpt, Optioned, Keeps
  <2> QED
    BY <2>3, Zenon DEF q
<1>3. CASE ~(r.stop \/ r.s.exit # -1) /\ ~IsSyntaxOption(o)
  <2>1. {"s", "didReset", "didList", "stop"} \subseteq DOMAIN q /\ q.s = Error(r.s, "PASS3")
    BY <1>3, OptOptionOutcome
  <2>2. Optioned(Error(r.s, "PASS3"), r.s)
    BY <1>0, ErrorKeeps, SameSyntaxOptioned, Zenon
  <2> HIDE DEF q
  <2>3. IsOpt(q) /\ Syntaxed(q.s, r.s)
    BY <2>1, <2>2, OptionedSyntaxed, Zenon DEF IsOpt, Optioned, Keeps
  <2> QED
    BY <2>3, Zenon DEF q
<1> QED
  BY <1>1, <1>2, <1>3

LEMMA OptWordSyntaxed ==
  ASSUME NEW r, IsOpt(r), NEW c, NEW o, IsSequence(c), AreOptions(o), NEW k \in 1 .. Len(c) + Len(o)
  PROVE  IsOpt(OptWord(r, k, c, o)) /\ Syntaxed(OptWord(r, k, c, o).s, r.s)
<1>1. CASE k <= Len(c)
  BY <1>1, OptCommandSyntaxed, Zenon DEF OptWord
<1>2. CASE ~(k <= Len(c))
  <2>1. k - Len(c) \in DOMAIN o
    BY <1>2 DEF IsSequence, AreOptions
  <2>2. IsOption(o[k - Len(c)])
    BY <2>1 DEF AreOptions, ToSet
  <2> QED
    BY <1>2, <2>2, OptOptionSyntaxed, Zenon DEF OptWord
<1> QED
  BY <1>1, <1>2

LEMMA OptSyntaxed ==
  ASSUME NEW s, IsState(s), NEW c, NEW o, IsSequence(c), AreOptions(o)
  PROVE  Syntaxed(dirOPT(s, c, o), s)
<1> DEFINE n == Len(c) + Len(o)
<1>1. Len(c) \in Nat /\ Len(o) \in Nat /\ n \in Nat
  BY DEF AreOptions, IsSequence
<1>2. PICK f : f[0] = OptStart(s) /\ f[n].s = dirOPT(s, c, o) /\ WordSteps(f, c, o)
  BY <1>1, WordsRun
<1>3. IsOpt(OptStart(s)) /\ OptStart(s).s = s
  BY Zenon DEF OptStart, IsOpt
<1> DEFINE S == {k \in 0 .. n : IsOpt(f[k]) /\ Syntaxed(f[k].s, s)}
<1>4. 0 \in S
  <2>1. 0 \in 0 .. n
    BY <1>1
  <2> HIDE DEF n
  <2> QED
    BY <1>2, <1>3, <2>1, SyntaxedItself, Zenon
<1>5. ASSUME NEW k \in 1 .. n, k - 1 \in S PROVE k \in S
  <2>1. k \in 0 .. n /\ k \in 1 .. Len(c) + Len(o)
    BY <1>1
  <2>2. f[k] = OptWord(f[k - 1], k, c, o)
    BY <1>2, <2>1, Zenon DEF WordSteps
  <2>3. IsOpt(f[k - 1]) /\ Syntaxed(f[k - 1].s, s)
    BY <1>5, Zenon
  <2>4. IsOpt(f[k]) /\ Syntaxed(f[k].s, f[k - 1].s)
    BY <2>1, <2>2, <2>3, OptWordSyntaxed
  <2> QED
    BY <2>1, <2>3, <2>4, SyntaxedTwice, Zenon
<1> HIDE DEF S
<1>6. n \in S
  <2> HIDE DEF n
  <2> QED
    BY <1>1, <1>4, <1>5, Upwards
<1> QED
  BY <1>2, <1>6, Zenon DEF S

\* Two runs of OPT that do the same
AgreeOpt(r, q) ==
  IsOpt(r) /\ IsOpt(q) /\ Agree(r.s, q.s) /\ r.s.stack = q.s.stack /\ (r.stop <=> q.stop)

LEMMA ChangesToAgree ==
  ASSUME NEW s, NEW t, Agree(s, t), NEW r, NEW q, NEW x, NEW k, ChangesTo(r, s, x, k), ChangesTo(q, t, x, k)
  PROVE  Agree(r, q) /\ r.stack = q.stack
  BY Zenon DEF Agree, ChangesTo, Keeps, SameMoment

LEMMA OptCommandAgree ==
  ASSUME NEW r, NEW q, AgreeOpt(r, q), NEW c
  PROVE  AgreeOpt(OptCommand(r, c), OptCommand(q, c))
<1> DEFINE a == OptCommand(r, c)
           b == OptCommand(q, c)
<1>1. IsOpt(r) /\ IsOpt(q) /\ Agree(r.s, q.s) /\ r.s.syx = q.s.syx /\ r.s.stack = q.s.stack
      /\ (r.stop <=> q.stop) /\ r.s.exit = q.s.exit
  BY DEF AgreeOpt, Agree
<1>2. CASE r.stop \/ r.s.exit # -1
  <2>1. a = r
    BY <1>2, Zenon DEF OptCommand
  <2>2. b = q
    BY <1>1, <1>2, Zenon DEF OptCommand
  <2> QED
    BY <2>1, <2>2
<1>3. CASE ~(r.stop \/ r.s.exit # -1)
  <2> DEFINE x == CommandSyntax(r.s.syx, r.s.stack, c)
             k == CommandStack(r.s.syx, r.s.stack, c)
  <2>1. IsOpt(a) /\ ChangesTo(a.s, r.s, x, k) /\ (a.stop <=> c = "pop" \/ c \notin Commands)
    BY <1>1, <1>3, OptCommandOutcome
  <2>2. IsOpt(b) /\ ChangesTo(b.s, q.s, x, k) /\ (b.stop <=> c = "pop" \/ c \notin Commands)
    BY <1>1, <1>3, OptCommandOutcome
  <2> HIDE DEF a, b, x, k
  <2>3. Agree(a.s, b.s) /\ a.s.stack = b.s.stack
    BY <1>1, <2>1, <2>2, ChangesToAgree
  <2> QED
    BY <2>1, <2>2, <2>3, Zenon DEF AgreeOpt, a, b
<1> QED
  BY <1>2, <1>3

LEMMA OptOptionAgree ==
  ASSUME NEW r, NEW q, AgreeOpt(r, q), NEW o, IsOption(o)
  PROVE  AgreeOpt(OptOption(r, o), OptOption(q, o))
<1> DEFINE a == OptOption(r, o)
           b == OptOption(q, o)
<1>1. IsOpt(r) /\ IsOpt(q) /\ Agree(r.s, q.s) /\ r.s.syx = q.s.syx /\ r.s.stack = q.s.stack
      /\ (r.stop <=> q.stop) /\ r.s.exit = q.s.exit /\ IsState(r.s) /\ IsState(q.s)
  BY DEF AgreeOpt, Agree
<1>2. IsOpt(a) /\ IsOpt(b)
  BY <1>1, OptOptionSyntaxed, Zenon
<1>3. CASE r.stop \/ r.s.exit # -1
  <2>1. a = r
    BY <1>3, Zenon DEF OptOption
  <2>2. b = q
    BY <1>1, <1>3, Zenon DEF OptOption
  <2> QED
    BY <2>1, <2>2
<1>4. CASE ~(r.stop \/ r.s.exit # -1) /\ IsSyntaxOption(o)
  <2> DEFINE t == SyntaxOption(r.s, o)
             u == SyntaxOption(q.s, o)
  <2>1. a.s = t /\ a.stop = r.stop
    BY <1>1, <1>4, OptOptionOutcome
  <2>2. b.s = u /\ b.stop = q.stop
    BY <1>1, <1>4, OptOptionOutcome
  <2>3. Agree(t, u)
    BY <1>1, <1>4, SyntaxOptionAgree, Zenon
  <2>4. Optioned(t, r.s)
    BY <1>1, <1>4, SyntaxOptionOptioned, Zenon
  <2>5. Optioned(u, q.s)
    BY <1>1, <1>4, SyntaxOptionOptioned, Zenon
  <2> HIDE DEF a, b, t, u
  <2>6. t.stack = u.stack
    BY <1>1, <2>4, <2>5, Zenon DEF Optioned
  <2> QED
    BY <1>1, <1>2, <2>1, <2>2, <2>3, <2>6, Zenon DEF AgreeOpt, a, b
<1>5. CASE ~(r.stop \/ r.s.exit # -1) /\ ~IsSyntaxOption(o)
  <2> DEFINE t == Error(r.s, "PASS3")
             u == Error(q.s, "PASS3")
  <2>1. a.s = t /\ a.stop = TRUE
    BY <1>1, <1>5, OptOptionOutcome
  <2>2. b.s = u /\ b.stop = TRUE
    BY <1>1, <1>5, OptOptionOutcome
  <2>3. Agree(t, u)
    BY <1>1, ErrorAgree, Zenon
  <2>4. SameSyntax(t, r.s) /\ SameSyntax(u, q.s)
    BY <1>1, ErrorKeeps, Zenon
  <2> HIDE DEF a, b, t, u
  <2>5. t.stack = u.stack
    BY <1>1, <2>4, Zenon DEF SameSyntax
  <2> QED
    BY <1>1, <1>2, <2>1, <2>2, <2>3, <2>5, Zenon DEF AgreeOpt, a, b
<1> QED
  BY <1>3, <1>4, <1>5

LEMMA OptWordAgree ==
  ASSUME NEW r, NEW q, AgreeOpt(r, q), NEW c, NEW o, IsSequence(c), AreOptions(o), NEW k \in 1 .. Len(c) + Len(o)
  PROVE  AgreeOpt(OptWord(r, k, c, o), OptWord(q, k, c, o))
<1>1. CASE k <= Len(c)
  BY <1>1, OptCommandAgree, Zenon DEF OptWord
<1>2. CASE ~(k <= Len(c))
  <2>1. k - Len(c) \in DOMAIN o
    BY <1>2 DEF IsSequence, AreOptions
  <2>2. IsOption(o[k - Len(c)])
    BY <2>1 DEF AreOptions, ToSet
  <2> QED
    BY <1>2, <2>2, OptOptionAgree, Zenon DEF OptWord
<1> QED
  BY <1>1, <1>2

\* What OPT does depends on the syntax, the stack and the processor alone.
LEMMA OptAgree ==
  ASSUME NEW s, NEW t, Agree(s, t), s.stack = t.stack, NEW c, NEW o, IsSequence(c), AreOptions(o)
  PROVE  Agree(dirOPT(s, c, o), dirOPT(t, c, o)) /\ dirOPT(s, c, o).stack = dirOPT(t, c, o).stack
<1> DEFINE n == Len(c) + Len(o)
<1>1. Len(c) \in Nat /\ Len(o) \in Nat /\ n \in Nat /\ IsState(s) /\ IsState(t)
  BY DEF AreOptions, IsSequence, Agree
<1>2. PICK f : f[0] = OptStart(s) /\ f[n].s = dirOPT(s, c, o) /\ WordSteps(f, c, o)
  BY <1>1, WordsRun
<1>3. PICK g : g[0] = OptStart(t) /\ g[n].s = dirOPT(t, c, o) /\ WordSteps(g, c, o)
  BY <1>1, WordsRun
<1>4. AgreeOpt(OptStart(s), OptStart(t))
  BY <1>1, Zenon DEF OptStart, IsOpt, AgreeOpt
<1> DEFINE S == {k \in 0 .. n : AgreeOpt(f[k], g[k])}
<1>5. 0 \in S
  <2>1. 0 \in 0 .. n
    BY <1>1
  <2> HIDE DEF n
  <2> QED
    BY <1>2, <1>3, <1>4, <2>1, Zenon
<1>6. ASSUME NEW k \in 1 .. n, k - 1 \in S PROVE k \in S
  <2>1. k \in 0 .. n /\ k \in 1 .. Len(c) + Len(o)
    BY <1>1
  <2>2. f[k] = OptWord(f[k - 1], k, c, o) /\ g[k] = OptWord(g[k - 1], k, c, o)
    BY <1>2, <1>3, <2>1, Zenon DEF WordSteps
  <2>3. AgreeOpt(f[k - 1], g[k - 1])
    BY <1>6, Zenon
  <2>4. AgreeOpt(OptWord(f[k - 1], k, c, o), OptWord(g[k - 1], k, c, o))
    BY <2>1, <2>3, OptWordAgree
  <2> QED
    BY <2>1, <2>2, <2>4, Zenon
<1> HIDE DEF S
<1>7. n \in S
  <2> HIDE DEF n
  <2> QED
    BY <1>1, <1>5, <1>6, Upwards
<1> QED
  BY <1>2, <1>3, <1>7, Zenon DEF S, AgreeOpt

-----------------------------------------------------------------------------
(* The command line.                                                       *)

\* The globals while the arguments are read
Preparing(s) ==
  /\ s.pass = 0 /\ s.stack = <<>> /\ s.log.seen = {} /\ s.system = DefaultSyntax
  /\ \E S : s.includes \in Seq(S)

Proper(s) ==
  /\ IsState(s) /\ Account(s) /\ AllPlain(s) /\ Plain(s.system, s)
  /\ ~(s.IsI8080 /\ s.IsLR35902)

LEMMA NothingStacked ==
  ASSUME NEW s
  PROVE  Stacked(<<>>, s)
<1> DEFINE S == {}
<1>1. <<>> \in Seq(S) /\ \A x \in S : Plain(x, s)
  OBVIOUS
<1> HIDE DEF S
<1> QED
  BY <1>1, Zenon DEF Stacked

LEMMA KeepsProper ==
  ASSUME NEW r, NEW s, Syntaxed(r, s), Proper(s), InLine(s)
  PROVE  Proper(r)
<1>1. Keeps(r, s) /\ AllPlain(r) /\ IsState(r) /\ SameMoment(r, s)
  BY DEF Syntaxed, Proper, Keeps
<1>2. Account(r)
  BY <1>1 DEF Keeps, Proper
<1>3. Plain(r.system, r) /\ ~(r.IsI8080 /\ r.IsLR35902)
  BY <1>1, PlainElsewhere, Zenon DEF Proper, SameMoment
<1> QED
  BY <1>1, <1>2, <1>3 DEF Proper

LEMMA KeepsPreparing ==
  ASSUME NEW r, NEW s, Keeps(r, s), r.stack = s.stack, Preparing(s)
  PROVE  Preparing(r)
  BY Zenon DEF Keeps, SameMoment, Preparing

\* The account while the program runs
LEMMA AccountRuns ==
  ASSUME NEW r, NEW s, Account(s), s.exit = -1, SameErrors(r, s),
         r.pass = s.pass, r.line = s.line, r.where = s.where
  PROVE  Account(r)
<1>1. r.exit # 0
  BY DEF SameErrors
<1> QED
  BY <1>1, Zenon DEF Account, NumbersAreRight, OnlyLast, SameErrors

\* What an argument sets
Noted(s, x) ==
  {[s EXCEPT !.ShowHelp = x], [s EXCEPT !.ShowVersion = x], [s EXCEPT !.msg = x],
   [s EXCEPT !.lstDefault = x], [s EXCEPT !.lstName = x], [s EXCEPT !.sldDefault = x],
   [s EXCEPT !.sldName = x], [s EXCEPT !.fullpath = x], [s EXCEPT !.sources = x]}
Including(s, x) == {[s EXCEPT !.includes = Append(s.includes, x)], [s EXCEPT !.includes = <<>>]}
Processors(s) ==
  {[s EXCEPT !.IsLR35902 = TRUE, !.IsI8080 = FALSE, !.syx.IsNextEnabled = 0],
   [s EXCEPT !.IsI8080 = TRUE, !.IsLR35902 = FALSE, !.syx.IsNextEnabled = 0]}

LEMMA OptionsOfMain ==
  ASSUME NEW s, Proper(s), Preparing(s), s.exit = -1, NEW x, NEW r \in Noted(s, x)
  PROVE  Proper(r) /\ Preparing(r)
<1>1. IsState(s)
  BY DEF Proper
<1>2. IsState(r)
  BY <1>1, Zenon DEF Noted, IsState, Fields, LogFields
<1>3. SameErrors(r, s) /\ SameSyntax(r, s)
  BY <1>1, Zenon DEF Noted, SameErrors, SameSyntax, IsState, Fields
<1>4. r.system = s.system /\ r.includes = s.includes /\ r.log.seen = s.log.seen
  BY <1>1, Zenon DEF Noted, IsState, Fields
<1>5. r.pass = s.pass /\ r.line = s.line /\ r.where = s.where
  BY <1>1, Zenon DEF Noted, IsState, Fields
<1>6. r.IsI8080 = s.IsI8080 /\ r.IsLR35902 = s.IsLR35902
  BY <1>1, Zenon DEF Noted, IsState, Fields
<1>7. Account(r)
  BY <1>3, <1>5, AccountRuns, Zenon DEF Proper
<1>8. AllPlain(r) /\ Plain(r.system, r)
  BY <1>3, <1>4, <1>6, Zenon DEF Proper, AllPlain, Plain, Stacked, SameSyntax
<1> QED
  BY <1>2, <1>3, <1>4, <1>5, <1>6, <1>7, <1>8, Zenon DEF Proper, Preparing, SameSyntax

LEMMA IncludesOfMain ==
  ASSUME NEW s, Proper(s), Preparing(s), s.exit = -1, NEW x, NEW r \in Including(s, x)
  PROVE  Proper(r) /\ Preparing(r)
<1>1. IsState(s)
  BY DEF Proper
<1>2. /\ IsState(r) /\ SameErrors(r, s) /\ SameSyntax(r, s) /\ r.system = s.system
      /\ r.pass = s.pass /\ r.line = s.line /\ r.where = s.where
      /\ r.IsI8080 = s.IsI8080 /\ r.IsLR35902 = s.IsLR35902 /\ r.log.seen = s.log.seen
      /\ r.includes \in {Append(s.includes, x), <<>>}
  BY <1>1, Zenon DEF Including, SameErrors, SameSyntax, IsState, Fields, LogFields
<1>3. Account(r)
  BY <1>2, AccountRuns, Zenon DEF Proper
<1>4. AllPlain(r) /\ Plain(r.system, r)
  BY <1>2, Zenon DEF Proper, AllPlain, Plain, Stacked, SameSyntax
<1>5. \E S : r.includes \in Seq(S)
  <2>1. PICK S : s.includes \in Seq(S)
    BY DEF Preparing
  <2>2. Append(s.includes, x) \in Seq(S \cup {x}) /\ <<>> \in Seq(S)
    BY <2>1
  <2> QED
    BY <1>2, <2>2, Zenon
<1> QED
  BY <1>2, <1>3, <1>4, <1>5, Zenon DEF Proper, Preparing, SameSyntax

LEMMA ProcessorOfMain ==
  ASSUME NEW s, Proper(s), Preparing(s), s.exit = -1, NEW r \in Processors(s)
  PROVE  Proper(r) /\ Preparing(r)
<1>1. IsState(s) /\ "IsNextEnabled" \in DOMAIN s.syx
  BY DEF Proper, AllPlain, Plain
<1>2. /\ IsState(r) /\ SameErrors(r, s) /\ r.stack = s.stack /\ r.system = s.system
      /\ r.pass = s.pass /\ r.line = s.line /\ r.where = s.where
      /\ r.includes = s.includes /\ r.log.seen = s.log.seen
  BY <1>1, Zenon DEF Processors, SameErrors, IsState, Fields, LogFields
<1>3. ~(r.IsI8080 /\ r.IsLR35902) /\ "IsNextEnabled" \in DOMAIN r.syx /\ r.syx.IsNextEnabled = 0
  <2>1. "IsI8080" \in DOMAIN s /\ "IsLR35902" \in DOMAIN s /\ "syx" \in DOMAIN s
    BY <1>1, Zenon DEF IsState, Fields
  <2>2. CASE r = [s EXCEPT !.IsLR35902 = TRUE, !.IsI8080 = FALSE, !.syx.IsNextEnabled = 0]
    BY <1>1, <2>1, <2>2, Zenon
  <2>3. CASE r = [s EXCEPT !.IsI8080 = TRUE, !.IsLR35902 = FALSE, !.syx.IsNextEnabled = 0]
    BY <1>1, <2>1, <2>3, Zenon
  <2> QED
    BY <2>2, <2>3, Zenon DEF Processors
<1>4. Account(r)
  BY <1>2, AccountRuns, Zenon DEF Proper
<1>5. AllPlain(r) /\ Plain(r.system, r)
  <2>1. "IsNextEnabled" \in DOMAIN DefaultSyntax /\ DefaultSyntax.IsNextEnabled = 0
    BY DEF DefaultSyntax
  <2>2. Plain(r.system, r)
    BY <1>2, <2>1, Zenon DEF Plain, Preparing
  <2>3. Plain(r.syx, r) /\ r.stack = <<>>
    BY <1>2, <1>3, Zenon DEF Plain, Preparing
  <2> QED
    BY <2>2, <2>3, NothingStacked, Zenon DEF AllPlain
<1> QED
  BY <1>2, <1>3, <1>4, <1>5, Zenon DEF Proper, Preparing

LEMMA ErrorOfMain ==
  ASSUME NEW s, Proper(s), Preparing(s), NEW type
  PROVE  Proper(Error(s, type)) /\ Preparing(Error(s, type))
<1> DEFINE r == Error(s, type)
<1>1. IsState(s) /\ InLine(s)
  BY DEF Proper, Preparing, InLine, LASTPASS
<1>2. Keeps(r, s) /\ SameSyntax(r, s)
  BY <1>1, ErrorKeeps
<1> HIDE DEF r
<1>3. Syntaxed(r, s) /\ r.stack = s.stack
  BY <1>2, SameSyntaxOptioned, OptionedSyntaxed, Zenon DEF SameSyntax
<1>4. Proper(r) /\ Preparing(r)
  BY <1>1, <1>2, <1>3, KeepsProper, KeepsPreparing
<1> QED
  BY <1>4 DEF r

LEMMA LaunchOptionOutcome ==
  ASSUME NEW s, NEW o, NEW behind
  PROVE  LaunchOption(s, o, behind) \in
           Processors(s) \cup Noted(s, TRUE) \cup Noted(s, o.val) \cup Noted(s, s.sources + 1)
             \cup Including(s, o.val) \cup Including(s, "dir") \cup {s, Error(s, "ALL")}
<1> DEFINE r == LaunchOption(s, o, behind)
<1>1. o.opt \in {"lr35902", "i8080"} => r \in Processors(s)
  BY Zenon DEF LaunchOption, Processors
<1>2. o.opt \in {"help", "version", "lst", "sld"} => r \in Noted(s, TRUE)
  BY Zenon DEF LaunchOption, Noted
<1>3. o.opt \in {"msg", "fullpath"} => r \in Noted(s, o.val) \cup {Error(s, "ALL")}
  BY Zenon DEF LaunchOption, Noted
<1>4. o.opt \in {"sym", "define"} => r \in {s, Error(s, "ALL")}
  BY Zenon DEF LaunchOption
<1>5. o.opt = "i" => r \in Including(s, o.val) \cup Including(s, "dir") \cup {Error(s, "ALL")}
  BY Zenon DEF LaunchOption, Including
<1>6. o.opt = "inc" => r \in Including(s, "dir")
  BY Zenon DEF LaunchOption, Including
<1>7. o.opt \in {"-", "file"} => r \in Noted(s, s.sources + 1)
  BY Zenon DEF LaunchOption, Noted
<1>8. o.opt \notin {"lr35902", "i8080", "help", "version", "msg", "lst", "sld", "sym", "i", "inc",
                    "fullpath", "define", "-", "file"} => r = Error(s, "ALL")
  BY Zenon DEF LaunchOption
<1> HIDE DEF r
<1> QED
  BY <1>1, <1>2, <1>3, <1>4, <1>5, <1>6, <1>7, <1>8 DEF r

LEMMA LaunchOptionOfMain ==
  ASSUME NEW s, Proper(s), Preparing(s), s.exit = -1, NEW o, NEW behind
  PROVE  Proper(LaunchOption(s, o, behind)) /\ Preparing(LaunchOption(s, o, behind))
  BY LaunchOptionOutcome, ProcessorOfMain, OptionsOfMain, IncludesOfMain, ErrorOfMain

\* Errors and warnings that do not end the program
Steady(r, s) == Keeps(r, s) /\ SameSyntax(r, s) /\ r.exit = s.exit

LEMMA SteadyTwice ==
  ASSUME NEW q, NEW r, NEW s, Steady(q, r), Steady(r, s)
  PROVE  Steady(q, s)
  BY KeepsTwice, Zenon DEF Steady, SameSyntax

LEMMA SteadyItself == \A s : IsState(s) => Steady(s, s)
  BY KeepsItself, Zenon DEF Steady, SameSyntax

LEMMA ErrorSteady ==
  ASSUME NEW s, IsState(s), NEW type, type # "FATAL"
  PROVE  Steady(Error(s, type), s)
  BY ErrorKeeps DEF Steady

LEMMA SteadyProper ==
  ASSUME NEW r, NEW s, Steady(r, s), Proper(s), InLine(s)
  PROVE  Proper(r)
  BY SameSyntaxOptioned, OptionedSyntaxed, KeepsProper, Zenon DEF Steady

LEMMA checkIncludePathsSteady ==
  ASSUME NEW s, IsState(s), NEW v, NEW V, v \in Seq(V)
  PROVE  Steady(checkIncludePaths(s, v), s)
<1>1. Len(v) \in Nat
  OBVIOUS
<1>2. PICK f : f[0] = s /\ f[Len(v)] = checkIncludePaths(s, v) /\ PathSteps(f, v)
  BY <1>1, PathsRun, Zenon
<1> DEFINE S == {k \in 0 .. Len(v) : Steady(f[k], s)}
<1>3. 0 \in S
  <2>1. 0 \in 0 .. Len(v)
    BY <1>1
  <2> QED
    BY <1>2, <2>1, SteadyItself, Zenon
<1>4. ASSUME NEW k \in 1 .. Len(v), k - 1 \in S PROVE k \in S
  <2>1. k \in 0 .. Len(v)
    BY <1>1
  <2>2. Steady(f[k - 1], s) /\ IsState(f[k - 1])
    BY <1>4, Zenon DEF Steady, Keeps
  <2>3. f[k] = f[k - 1] \/ f[k] = Error(f[k - 1], "ALL")
    BY <1>2, Zenon DEF PathSteps
  <2>4. Steady(Error(f[k - 1], "ALL"), f[k - 1])
    BY <2>2, ErrorSteady
  <2>5. Steady(f[k], f[k - 1])
    BY <2>2, <2>3, <2>4, SteadyItself
  <2>6. Steady(f[k], s)
    BY <2>2, <2>5, SteadyTwice, Zenon
  <2> QED
    BY <2>1, <2>6, Zenon
<1> HIDE DEF S
<1>5. Len(v) \in S
  BY <1>1, <1>3, <1>4, Upwards
<1> QED
  BY <1>2, <1>5, Zenon DEF S

\* In front of a pass
LEMMA InitPassProper ==
  ASSUME NEW s, Proper(s), s.exit = -1, s.pass \in 0 .. 2
  PROVE  LET r == InitPass(s)
         IN  /\ Proper(r) /\ r.exit = -1 /\ r.pass = s.pass + 1
             /\ r.system = s.system /\ r.IsI8080 = s.IsI8080 /\ r.IsLR35902 = s.IsLR35902
             /\ r.syx = s.system /\ r.stack = <<>> /\ r.dup = FALSE /\ r.log.seen = s.log.seen
<1> DEFINE r == InitPass(s)
<1>1. IsState(s)
  BY DEF Proper
<1>2. /\ IsState(r) /\ SameErrors(r, s)
      /\ r.pass = s.pass + 1 /\ r.line = 0 /\ r.where = s.where
  BY <1>1, Zenon DEF InitPass, SameErrors, IsState, Fields, LogFields
<1>3. /\ r.system = s.system /\ r.IsI8080 = s.IsI8080 /\ r.IsLR35902 = s.IsLR35902
      /\ r.syx = s.system /\ r.stack = <<>> /\ r.dup = FALSE /\ r.log.seen = s.log.seen
  BY <1>1, Zenon DEF InitPass, IsState, Fields, LogFields
<1> HIDE DEF r
<1>4. AllPlain(r) /\ Plain(r.system, r) /\ ~(r.IsI8080 /\ r.IsLR35902)
  <2>1. Plain(s.system, r)
    BY <1>3, Zenon DEF Proper, Plain
  <2> QED
    BY <1>3, <2>1, NothingStacked, Zenon DEF AllPlain, Proper
<1>5. Account(r)
  <2>1. Account(s) /\ NumbersAreRight(s) /\ s.pass # LASTPASS
    BY DEF Proper, Account, LASTPASS
  <2>2. NumbersAreRight(r)
    BY <1>2, <2>1 DEF NumbersAreRight, SameErrors, LASTPASS
  <2>3. r.exit # 0
    BY <1>2 DEF SameErrors
  <2>4. r.log.raised # {} \/ r.prevLine # -1 => r.errors > 0
    BY <1>2, <2>1, Zenon DEF Account, SameErrors
  <2>5. ASSUME OnlyLast(r)
        PROVE  r.prevLine <= 0 /\ \A place \in r.log.raised : place[1] = LASTPASS => place \in r.log.told
    <3>1. OnlyLast(s)
      BY <1>2, <2>5, Zenon DEF OnlyLast, SameErrors
    <3> QED
      BY <1>2, <2>1, <3>1, Zenon DEF Account, SameErrors
  <2>6. r.line = 0 /\ ~(r.line > 0)
    BY <1>2
  <2> QED
    BY <2>2, <2>3, <2>4, <2>5, <2>6, Zenon DEF Account
<1>6. Proper(r)
  BY <1>2, <1>4, <1>5 DEF Proper
<1> QED
  BY <1>2, <1>3, <1>6, Zenon DEF SameErrors, r

\* What Launch does to the globals of a run that has arguments
Ready(s) ==
  LET debug == [s EXCEPT !.system = s.syx]
      paths == IF s.fullpath = "off" /\ (s.sldDefault \/ s.sldName) THEN Warning(debug, "EARLY") ELSE debug
  IN  checkIncludePaths(paths, s.includes)

LEMMA ReadyProper ==
  ASSUME NEW s, Proper(s), Preparing(s), s.exit = -1
  PROVE  /\ Proper(Ready(s)) /\ Ready(s).exit = -1 /\ Ready(s).pass = 0 /\ Ready(s).stack = <<>>
         /\ Ready(s).log.seen = {} /\ Ready(s).ShowVersion = s.ShowVersion /\ Ready(s).sources = s.sources
<1> DEFINE debug == [s EXCEPT !.system = s.syx]
           paths == IF s.fullpath = "off" /\ (s.sldDefault \/ s.sldName) THEN Warning(debug, "EARLY") ELSE debug
           r == checkIncludePaths(paths, s.includes)
<1>1. IsState(s) /\ s.pass = 0
  BY DEF Proper, Preparing
<1>2. /\ IsState(debug) /\ SameErrors(debug, s) /\ SameSyntax(debug, s) /\ debug.system = s.syx
      /\ debug.pass = s.pass /\ debug.line = s.line /\ debug.where = s.where
      /\ debug.IsI8080 = s.IsI8080 /\ debug.IsLR35902 = s.IsLR35902
  BY <1>1, Zenon DEF SameErrors, SameSyntax, IsState, Fields, LogFields
<1>3. debug.ShowVersion = s.ShowVersion /\ debug.sources = s.sources /\ debug.log.seen = s.log.seen
  BY <1>1, Zenon DEF IsState, Fields
<1>4. Ready(s) = r
  BY Zenon DEF Ready
<1> HIDE DEF debug
<1>5. Proper(debug)
  <2>1. Account(debug)
    BY <1>2, AccountRuns, Zenon DEF Proper
  <2>2. AllPlain(debug) /\ Plain(debug.system, debug)
    BY <1>2, Zenon DEF Proper, AllPlain, Plain, Stacked, SameSyntax
  <2> QED
    BY <1>2, <2>1, <2>2, Zenon DEF Proper
<1>6. Steady(Warning(debug, "EARLY"), debug)
  <2>1. IsState(debug) /\ "EARLY" # "FATAL"
    BY <1>2
  <2> QED
    BY <2>1, WarningKeeps, Zenon DEF Steady
<1>7. Steady(paths, debug) /\ IsState(paths)
  <2>1. Steady(debug, debug)
    BY <1>2, SteadyItself, Zenon
  <2>2. Steady(paths, debug)
    BY <1>6, <2>1, Zenon
  <2> QED
    BY <2>2, Zenon DEF Steady, Keeps
<1> HIDE DEF paths
<1>8. Steady(r, paths)
  BY <1>7, checkIncludePathsSteady, Zenon DEF Preparing
<1> HIDE DEF r
<1>9. Steady(r, debug)
  BY <1>7, <1>8, SteadyTwice, Zenon
<1>10. Proper(r)
  <2>1. InLine(debug)
    BY <1>1, <1>2 DEF InLine, LASTPASS
  <2> QED
    BY <1>5, <1>9, <2>1, SteadyProper, Zenon
<1>11. r.exit = -1
  BY <1>2, <1>9, Zenon DEF Steady, SameErrors
<1>12. r.pass = 0 /\ r.stack = <<>> /\ r.log.seen = {} /\ r.ShowVersion = s.ShowVersion /\ r.sources = s.sources
  BY <1>1, <1>2, <1>3, <1>9, Zenon DEF Steady, Keeps, SameMoment, SameSyntax, Preparing
<1> QED
  BY <1>4, <1>10, <1>11, <1>12, Zenon

-----------------------------------------------------------------------------
(* The invariant.                                                          *)

\* Where the reading of a source stands, and what each of its events finds in every pass
Place(s) == <<s.syx, s.stack, s.dup>>
Reads(f, s, t) ==
  /\ f[0] = <<s.system, <<>>, FALSE>>
  /\ \A k \in 1 .. Len(t) : f[k] = After(f[k - 1], t[k], s.IsI8080, s.IsLR35902)
Lexical(s, t, p) ==
  \E f : /\ Reads(f, s, t) /\ Place(s) = f[p - 1]
         /\ \A r \in s.log.seen : <<r[2], r[3], r[4]>> = f[r[1] - 1]

\* The inductive invariant: the account of errors is right (Proper), and the first pass
\* and all later ones read the source alike (Lexical).
SessionInv ==
  /\ Proper(sj)
  /\ text \in Sources
  /\ \E S : args \in Seq(S) /\ \A o \in S : IsOption(o)
  /\ sj.pass = 0 => pc = 0 /\ (sj.exit = -1 => Preparing(sj))
  /\ sj.pass > 0 => pc \in Nat \ {0} /\ (pc > 1 => sj.line > 0)
  /\ sj.pass > 0 /\ sj.exit = -1 => Lexical(sj, text, pc)

LEMMA SourceFacts ==
  ASSUME NEW t \in Sources
  PROVE  /\ Len(t) \in Nat \ {0} /\ DOMAIN t = 1 .. Len(t) /\ t[1][1] = "line"
         /\ \A k \in DOMAIN t : IsEvent(t[k])
<1>1. t \in Seq(ToSet(t)) /\ t # <<>> /\ t[1][1] = "line" /\ \A e \in ToSet(t) : IsEvent(e)
  BY SessionAssumption, Zenon DEF IsSequence
<1>2. \A k \in DOMAIN t : t[k] \in ToSet(t)
  BY DEF ToSet
<1> QED
  BY <1>1, <1>2

LEMMA SeenProper ==
  ASSUME NEW s, Proper(s), NEW x
  PROVE  LET r == [s EXCEPT !.log.seen = x]
         IN  /\ Proper(r) /\ Place(r) = Place(s) /\ r.pass = s.pass /\ r.line = s.line /\ r.exit = s.exit
             /\ r.system = s.system /\ r.IsI8080 = s.IsI8080 /\ r.IsLR35902 = s.IsLR35902 /\ r.log.seen = x
<1> DEFINE r == [s EXCEPT !.log.seen = x]
<1>1. IsState(s)
  BY DEF Proper
<1>2. IsState(r) /\ SameErrors(r, s) /\ SameSyntax(r, s) /\ r.log.seen = x
  BY <1>1, Zenon DEF SameErrors, SameSyntax, IsState, Fields, LogFields
<1>3. /\ r.pass = s.pass /\ r.line = s.line /\ r.where = s.where /\ r.dup = s.dup
      /\ r.system = s.system /\ r.IsI8080 = s.IsI8080 /\ r.IsLR35902 = s.IsLR35902
  BY <1>1, Zenon DEF IsState, Fields
<1>4. r.ShowHelp = s.ShowHelp /\ r.ShowVersion = s.ShowVersion /\ r.sources = s.sources
  BY <1>1, Zenon DEF IsState, Fields
<1> HIDE DEF r
<1>5. Account(r)
  BY <1>2, <1>3, <1>4, Zenon DEF Proper, Account, NumbersAreRight, OnlyLast, SameErrors
<1>6. AllPlain(r) /\ Plain(r.system, r)
  BY <1>2, <1>3, Zenon DEF Proper, AllPlain, Plain, Stacked, SameSyntax
<1>7. Proper(r)
  BY <1>2, <1>3, <1>5, <1>6, Zenon DEF Proper
<1> QED
  BY <1>2, <1>3, <1>7, Zenon DEF Place, SameErrors, SameSyntax, r

LEMMA RunningFacts ==
  ASSUME SessionInv, Running
  PROVE  /\ sj.pass \in 1 .. LASTPASS /\ pc \in 1 .. Len(text) /\ sj.exit = -1 /\ IsState(sj)
         /\ IsEvent(Event) /\ (Event[1] # "line" => sj.line > 0) /\ Lexical(sj, text, pc)
<1>1. pc \in DOMAIN text /\ sj.exit = -1 /\ text \in Sources /\ Proper(sj)
  BY DEF Running, SessionInv
<1>2. pc \in 1 .. Len(text) /\ text[1][1] = "line" /\ IsEvent(text[pc])
  BY <1>1, SourceFacts
<1>3. sj.pass \in 0 .. LASTPASS /\ IsState(sj)
  BY <1>1 DEF Proper, Account, NumbersAreRight
<1>4. sj.pass # 0
  BY <1>2 DEF SessionInv
<1>5. sj.pass > 0
  BY <1>3, <1>4 DEF LASTPASS
<1>6. Lexical(sj, text, pc) /\ (pc > 1 => sj.line > 0)
  BY <1>1, <1>5 DEF SessionInv
<1>7. Event[1] # "line" => pc > 1
  BY <1>2 DEF Event
<1> QED
  BY <1>1, <1>2, <1>3, <1>4, <1>6, <1>7 DEF Event

LEMMA EventStep ==
  ASSUME SessionInv, Running, NEW s, Go1(s), Proper(s), s.line > 0,
         s.pass = sj.pass, s.system = sj.system, s.IsI8080 = sj.IsI8080, s.IsLR35902 = sj.IsLR35902,
         s.log.seen = sj.log.seen,
         s.exit = -1 => Place(s) = After(Place(sj), Event, sj.IsI8080, sj.IsLR35902)
  PROVE  SessionInv'
<1> DEFINE x == IF s.pass = 1 THEN s.log.seen \cup {<<pc, sj.syx, sj.stack, sj.dup>>} ELSE s.log.seen
<1>1. sj' = [s EXCEPT !.log.seen = x] /\ pc' = pc + 1 /\ args' = args /\ text' = text
  BY Zenon DEF Go1
<1>2. /\ Proper(sj') /\ Place(sj') = Place(s) /\ sj'.pass = s.pass /\ sj'.line = s.line /\ sj'.exit = s.exit
      /\ sj'.system = s.system /\ sj'.IsI8080 = s.IsI8080 /\ sj'.IsLR35902 = s.IsLR35902 /\ sj'.log.seen = x
  <2> HIDE DEF x
  <2> QED
    BY <1>1, SeenProper
<1>3. /\ sj.pass \in 1 .. LASTPASS /\ pc \in 1 .. Len(text) /\ sj.exit = -1
      /\ Lexical(sj, text, pc)
  BY RunningFacts
<1>4. ASSUME sj'.exit = -1 PROVE Lexical(sj', text', pc')
  <2>1. PICK f : /\ Reads(f, sj, text) /\ Place(sj) = f[pc - 1]
                 /\ \A r \in sj.log.seen : <<r[2], r[3], r[4]>> = f[r[1] - 1]
    BY <1>3, Zenon DEF Lexical
  <2>2. Reads(f, sj', text')
    BY <1>1, <1>2, <2>1, Zenon DEF Reads
  <2>3. Place(sj') = f[pc]
    <3>1. f[pc] = After(f[pc - 1], text[pc], sj.IsI8080, sj.IsLR35902)
      BY <1>3, <2>1, Zenon DEF Reads
    <3>2. Place(s) = After(Place(sj), Event, sj.IsI8080, sj.IsLR35902)
      BY <1>2, <1>4
    <3> QED
      BY <1>2, <2>1, <3>1, <3>2, Zenon DEF Event
  <2>4. pc' - 1 = pc
    BY <1>1, <1>3
  <2>5. ASSUME NEW r \in sj'.log.seen PROVE <<r[2], r[3], r[4]>> = f[r[1] - 1]
    <3>1. r \in sj.log.seen \/ r = <<pc, sj.syx, sj.stack, sj.dup>>
      BY <1>2, Zenon
    <3>2. CASE r \in sj.log.seen
      BY <2>1, <3>2, Zenon
    <3>3. CASE r = <<pc, sj.syx, sj.stack, sj.dup>>
      <4>1. r[1] = pc /\ r[2] = sj.syx /\ r[3] = sj.stack /\ r[4] = sj.dup
        BY <3>3
      <4> QED
        BY <2>1, <4>1, Zenon DEF Place
    <3> QED
      BY <3>1, <3>2, <3>3
  <2> QED
    BY <2>2, <2>3, <2>4, <2>5, Zenon DEF Lexical
<1> HIDE DEF x
<1>5. sj'.pass # 0 /\ sj'.line > 0 /\ pc' \in Nat \ {0}
  BY <1>1, <1>2, <1>3 DEF LASTPASS
<1>6. text' \in Sources /\ \E S : args' \in Seq(S) /\ \A o \in S : IsOption(o)
  BY <1>1 DEF SessionInv
<1> QED
  BY <1>2, <1>4, <1>5, <1>6, Zenon DEF SessionInv

LEMMA PlaceStays ==
  ASSUME NEW x, NEW e, NEW i, NEW l, e[1] \notin {"opt", "dup"} \/ x[3]
  PROVE  After(x, e, i, l) = x
<1>1. CASE e[1] \notin {"opt", "dup"}
  BY <1>1, Zenon DEF After
<1>2. CASE x[3]
  BY <1>2, Zenon DEF After
<1> QED
  BY <1>1, <1>2

\* A handler that keeps the account and the syntax
LEMMA HandlerStep ==
  ASSUME SessionInv, Running, NEW s, Go1(s), Keeps(s, sj), SameSyntax(s, sj), Event[1] # "line",
         Event[1] \notin {"opt", "dup"} \/ sj.dup
  PROVE  SessionInv'
<1>1. /\ sj.exit = -1 /\ sj.line > 0 /\ Proper(sj) /\ InLine(sj) /\ IsState(sj)
  BY RunningFacts DEF SessionInv, InLine
<1>2. Proper(s)
  BY <1>1, SameSyntaxOptioned, OptionedSyntaxed, KeepsProper, Zenon
<1>3. After(Place(sj), Event, sj.IsI8080, sj.IsLR35902) = Place(sj)
  <2>1. Place(sj)[3] = sj.dup
    BY DEF Place
  <2> QED
    BY <2>1, PlaceStays, Zenon
<1>4. /\ s.pass = sj.pass /\ s.system = sj.system /\ s.IsI8080 = sj.IsI8080 /\ s.IsLR35902 = sj.IsLR35902
      /\ s.log.seen = sj.log.seen /\ s.line = sj.line /\ Place(s) = Place(sj)
  BY Zenon DEF Keeps, SameMoment, SameSyntax, Place
<1> QED
  BY <1>1, <1>2, <1>3, <1>4, EventStep

LEMMA QuietStep ==
  ASSUME SessionInv, Running, NEW s, Go1(s), Quiet(s, sj), Event[1] # "line",
         Event[1] \notin {"opt", "dup"} \/ sj.dup
  PROVE  SessionInv'
  BY QuietKeeps, HandlerStep, Zenon DEF Quiet

\* A handler that moves to the next line
LEMMA LineStep ==
  ASSUME SessionInv, Running, NEW s, Go1(s), IsState(s), SameErrors(s, sj), SameSyntax(s, sj),
         s.line \in Nat, s.line > sj.line, s.pass = sj.pass, s.dup = sj.dup, s.system = sj.system,
         s.IsI8080 = sj.IsI8080, s.IsLR35902 = sj.IsLR35902, s.log.seen = sj.log.seen,
         Event[1] \notin {"opt", "dup"}
  PROVE  SessionInv'
<1>1. sj.exit = -1 /\ Proper(sj) /\ IsState(sj) /\ sj.pass \in 1 .. LASTPASS
  BY RunningFacts DEF SessionInv
<1>2. Account(sj) /\ NumbersAreRight(sj)
  BY <1>1 DEF Proper, Account
<1>3. Account(s)
  <2>1. NumbersAreRight(s)
    BY <1>1, <1>2 DEF NumbersAreRight, SameErrors
  <2>2. s.exit # 0
    BY <1>1 DEF SameErrors
  <2>3. s.log.raised # {} \/ s.prevLine # -1 => s.errors > 0
    BY <1>2, Zenon DEF Account, SameErrors
  <2>4. ASSUME OnlyLast(s)
        PROVE  /\ s.prevLine <= IF s.pass = LASTPASS THEN s.line ELSE 0
               /\ ~(s.pass = LASTPASS /\ s.prevLine = s.line)
               /\ \A place \in s.log.raised : place[1] = LASTPASS => place \in s.log.told
    <3>1. OnlyLast(sj)
      BY <2>4, Zenon DEF OnlyLast, SameErrors
    <3>2. sj.prevLine <= IF sj.pass = LASTPASS THEN sj.line ELSE 0
      BY <1>2, <3>1, Zenon DEF Account
    <3>3. s.prevLine = sj.prevLine /\ s.prevLine \in Int /\ sj.line \in Nat
      BY <1>2 DEF NumbersAreRight, SameErrors
    <3>4. \A place \in s.log.raised : place[1] = LASTPASS => place \in s.log.told
      BY <1>2, <3>1, Zenon DEF Account, SameErrors
    <3> QED
      BY <3>2, <3>3, <3>4
  <2> QED
    BY <2>1, <2>2, <2>3, <2>4, Zenon DEF Account
<1>4. AllPlain(s) /\ Plain(s.system, s)
  BY <1>1, Zenon DEF Proper, AllPlain, Plain, Stacked, SameSyntax
<1>5. Proper(s)
  BY <1>1, <1>3, <1>4, Zenon DEF Proper
<1>6. After(Place(sj), Event, sj.IsI8080, sj.IsLR35902) = Place(sj) /\ Place(s) = Place(sj)
  BY PlaceStays, Zenon DEF Place, SameSyntax
<1>7. s.line > 0
  BY <1>2 DEF NumbersAreRight
<1> QED
  BY <1>5, <1>6, <1>7, EventStep

-----------------------------------------------------------------------------
(* The steps of the program.                                               *)

LEMMA SkippedEventStep == ASSUME SessionInv, SkippedEvent PROVE SessionInv'
<1>1. Running /\ Go1(sj) /\ sj.dup /\ Event[1] # "line"
  BY DEF SkippedEvent, Skipped
<1>2. Quiet(sj, sj)
  BY <1>1, RunningFacts, QuietItself, Zenon
<1> QED
  BY <1>1, <1>2, QuietStep

LEMMA ListingStep ==
  ASSUME SessionInv, EndLine \/ BlankLine \/ CallMacro \/ LuaBlock \/ EndRepeat
  PROVE  SessionInv'
<1>1. Running /\ Event[1] \notin {"line", "opt", "dup"}
  BY DEF EndLine, BlankLine, CallMacro, LuaBlock, EndRepeat
<1>2. IsState(sj)
  BY <1>1, RunningFacts, Zenon
<1>3. ASSUME NEW skipped PROVE Quiet(ListFile(sj, skipped), sj)
  BY <1>2, ListFileQuiet, Zenon
<1>4. Quiet(sj, sj)
  BY <1>2, QuietItself, Zenon
<1>5. Quiet(ListFile(ListFile(sj, FALSE), TRUE), sj)
  <2> DEFINE l == ListFile(sj, FALSE)
  <2>1. Quiet(l, sj)
    BY <1>3, Zenon
  <2> HIDE DEF l
  <2>2. Quiet(ListFile(l, TRUE), l)
    BY <2>1, ListFileQuiet, Zenon DEF Quiet
  <2>3. Quiet(ListFile(l, TRUE), sj)
    BY <2>1, <2>2, QuietTwice, Zenon
  <2> QED
    BY <2>3, Zenon DEF l
<1>6. Quiet([sj EXCEPT !.donotlist = TRUE], sj)
  BY <1>2, Zenon DEF Quiet, SameMoment, SameSyntax, SameErrors, IsState, Fields, LogFields
<1>7. \E s : Go1(s) /\ Quiet(s, sj)
  <2>1. CASE EndLine
    BY <1>3, <1>4, <2>1, Zenon DEF EndLine
  <2>2. CASE BlankLine
    BY <1>3, <2>2, Zenon DEF BlankLine
  <2>3. CASE CallMacro
    BY <1>3, <2>3, Zenon DEF CallMacro
  <2>4. CASE LuaBlock
    BY <1>5, <2>4, Zenon DEF LuaBlock
  <2>5. CASE EndRepeat
    BY <1>6, <2>5, Zenon DEF EndRepeat
  <2> QED
    BY <2>1, <2>2, <2>3, <2>4, <2>5
<1> QED
  BY <1>1, <1>7, QuietStep

LEMMA EmitStep ==
  ASSUME SessionInv, EmitBytes \/ EmitABlock
  PROVE  SessionInv'
<1>1. Running /\ Event[1] \in {"emit", "block"}
  BY DEF EmitBytes, EmitABlock
<1>2. IsState(sj) /\ Event[2] \in Nat
  BY <1>1, RunningFacts DEF IsEvent
<1>3. \E s : Go1(s) /\ Quiet(s, sj)
  <2>1. CASE EmitBytes
    BY <1>2, <2>1, EmitBytesQuiet, Zenon DEF EmitBytes
  <2>2. CASE EmitABlock
    BY <1>2, <2>2, EmitBlockQuiet, Zenon DEF EmitABlock
  <2> QED
    BY <2>1, <2>2
<1> QED
  BY <1>1, <1>3, QuietStep

LEMMA ErrorStep ==
  ASSUME SessionInv, RaiseError \/ RaiseWarning \/ FakeInstruction
  PROVE  SessionInv'
<1>1. Running /\ Event[1] \in {"error", "warning", "fake"}
  BY DEF RaiseError, RaiseWarning, FakeInstruction
<1>2. IsState(sj)
  BY <1>1, RunningFacts, Zenon
<1>3. ASSUME NEW type PROVE Keeps(Error(sj, type), sj) /\ SameSyntax(Error(sj, type), sj)
  BY <1>2, ErrorKeeps, Zenon
<1>4. ASSUME NEW id, NEW type, NEW ok
      PROVE  Keeps(WarningById(sj, id, type, ok), sj) /\ SameSyntax(WarningById(sj, id, type, ok), sj)
  BY <1>2, WarningByIdKeeps, Zenon
<1>5. Keeps(sj, sj) /\ SameSyntax(sj, sj)
  BY <1>2, KeepsItself, Zenon DEF SameSyntax
<1>6. \E s : Go1(s) /\ Keeps(s, sj) /\ SameSyntax(s, sj)
  <2>1. CASE RaiseError
    BY <1>3, <2>1, Zenon DEF RaiseError
  <2>2. CASE RaiseWarning
    BY <1>4, <2>2, Zenon DEF RaiseWarning
  <2>3. CASE FakeInstruction
    BY <1>3, <1>4, <1>5, <2>3, Zenon DEF FakeInstruction
  <2> QED
    BY <2>1, <2>2, <2>3
<1> QED
  BY <1>1, <1>6, HandlerStep

\* The fields that the next line does not touch
NextLine(r, s) ==
  /\ IsState(r) /\ SameErrors(r, s) /\ SameSyntax(r, s) /\ r.line \in Nat /\ r.line > s.line
  /\ r.pass = s.pass /\ r.dup = s.dup /\ r.system = s.system
  /\ r.IsI8080 = s.IsI8080 /\ r.IsLR35902 = s.IsLR35902 /\ r.log.seen = s.log.seen

LEMMA LinesStep ==
  ASSUME SessionInv, ReturnMacro \/ LuaCall \/ EndLua
  PROVE  SessionInv'
<1>1. Running /\ Event[1] \notin {"opt", "dup"}
  BY DEF ReturnMacro, LuaCall, EndLua
<1>2. IsState(sj) /\ sj.line \in Nat
  BY <1>1, RunningFacts DEF SessionInv, Proper, Account, NumbersAreRight
<1>3. sj.line + 1 \in Nat /\ sj.line + 1 > sj.line
  BY <1>2
<1>4. ASSUME NEW r \in {[sj EXCEPT !.line = @ + 1, !.donotlist = TRUE], [sj EXCEPT !.line = @ + 1]}
      PROVE  NextLine(r, sj)
  <2>1. IsState(r) /\ SameErrors(r, sj) /\ SameSyntax(r, sj) /\ r.line = sj.line + 1
    BY <1>2, Zenon DEF SameErrors, SameSyntax, IsState, Fields
  <2>2. /\ r.pass = sj.pass /\ r.dup = sj.dup /\ r.system = sj.system
        /\ r.IsI8080 = sj.IsI8080 /\ r.IsLR35902 = sj.IsLR35902 /\ r.log.seen = sj.log.seen
    BY <1>2, Zenon DEF IsState, Fields
  <2> QED
    BY <1>3, <2>1, <2>2, Zenon DEF NextLine
<1>5. \E s : Go1(s) /\ NextLine(s, sj)
  BY <1>4, Zenon DEF ReturnMacro, LuaCall, EndLua
<1> QED
  BY <1>1, <1>5, LineStep DEF NextLine

LEMMA ParseLineStep == ASSUME SessionInv, ParseLine PROVE SessionInv'
<1> DEFINE l == ListSilentOrExternalEmits(sj)
           m == [l EXCEPT !.where = pc]
           n == [m EXCEPT !.line = @ + 1]
           r == IF sj.dup THEN n ELSE [n EXCEPT !.listAddress = n.address]
<1>1. Running /\ Event[1] = "line" /\ Go1(r)
  BY Zenon DEF ParseLine
<1>2. IsState(sj) /\ sj.line \in Nat
  BY <1>1, RunningFacts DEF SessionInv, Proper, Account, NumbersAreRight
<1>3. IsState(l) /\ (Quiet(l, sj) \/ NextLine(l, sj))
  <2> DEFINE k == [sj EXCEPT !.line = @ + 1]
  <2>1. NextLine(k, sj)
    <3>1. IsState(k) /\ SameErrors(k, sj) /\ SameSyntax(k, sj) /\ k.line = sj.line + 1
      BY <1>2, Zenon DEF SameErrors, SameSyntax, IsState, Fields
    <3>2. /\ k.pass = sj.pass /\ k.dup = sj.dup /\ k.system = sj.system
          /\ k.IsI8080 = sj.IsI8080 /\ k.IsLR35902 = sj.IsLR35902 /\ k.log.seen = sj.log.seen
      BY <1>2, Zenon DEF IsState, Fields
    <3> HIDE DEF k
    <3>3. k.line \in Nat /\ k.line > sj.line
      BY <1>2, <3>1
    <3> QED
      BY <3>1, <3>2, <3>3, Zenon DEF NextLine
  <2> HIDE DEF k
  <2>2. Quiet(ListFile(k, FALSE), k)
    BY <2>1, ListFileQuiet, Zenon DEF NextLine
  <2>3. NextLine(ListFile(k, FALSE), sj)
    <3> DEFINE q == ListFile(k, FALSE)
    <3>1. Quiet(q, k)
      BY <2>2
    <3> HIDE DEF q
    <3>2. NextLine(q, sj)
      BY <2>1, <3>1, Zenon DEF Quiet, NextLine, SameMoment, SameErrors, SameSyntax
    <3> QED
      BY <3>2, Zenon DEF q
  <2>4. l = sj \/ l = ListFile(k, FALSE)
    BY Zenon DEF ListSilentOrExternalEmits, k
  <2>5. Quiet(sj, sj)
    BY <1>2, QuietItself, Zenon
  <2> HIDE DEF l
  <2> QED
    BY <1>2, <2>3, <2>4, <2>5, Zenon DEF NextLine
<1> HIDE DEF l
<1>4. /\ IsState(r) /\ SameErrors(r, l) /\ SameSyntax(r, l) /\ r.line = l.line + 1
      /\ r.pass = l.pass /\ r.dup = l.dup /\ r.system = l.system
      /\ r.IsI8080 = l.IsI8080 /\ r.IsLR35902 = l.IsLR35902 /\ r.log.seen = l.log.seen
  <2>1. /\ IsState(n) /\ SameErrors(n, l) /\ SameSyntax(n, l) /\ n.line = l.line + 1
        /\ n.pass = l.pass /\ n.dup = l.dup /\ n.system = l.system
        /\ n.IsI8080 = l.IsI8080 /\ n.IsLR35902 = l.IsLR35902 /\ n.log.seen = l.log.seen
    BY <1>3, Zenon DEF SameErrors, SameSyntax, IsState, Fields
  <2> DEFINE p == [n EXCEPT !.listAddress = n.address]
  <2> HIDE DEF n
  <2>2. /\ IsState(p) /\ SameErrors(p, n) /\ SameSyntax(p, n) /\ p.line = n.line
        /\ p.pass = n.pass /\ p.dup = n.dup /\ p.system = n.system
        /\ p.IsI8080 = n.IsI8080 /\ p.IsLR35902 = n.IsLR35902 /\ p.log.seen = n.log.seen
    BY <2>1, Zenon DEF SameErrors, SameSyntax, IsState, Fields
  <2> HIDE DEF p
  <2>3. r = n \/ r = p
    BY Zenon DEF p
  <2> HIDE DEF r
  <2>4. CASE r = n
    BY <2>1, <2>4, Zenon
  <2>5. CASE r = p
    BY <2>1, <2>2, <2>5, Zenon DEF SameErrors, SameSyntax
  <2> QED
    BY <2>3, <2>4, <2>5
<1> HIDE DEF r
<1>5. l.line \in Nat /\ l.line >= sj.line
  BY <1>2, <1>3 DEF Quiet, SameMoment, NextLine
<1>6. r.line \in Nat /\ r.line > sj.line
  BY <1>2, <1>4, <1>5
<1>7. /\ SameErrors(r, sj) /\ SameSyntax(r, sj) /\ r.pass = sj.pass /\ r.dup = sj.dup /\ r.system = sj.system
      /\ r.IsI8080 = sj.IsI8080 /\ r.IsLR35902 = sj.IsLR35902 /\ r.log.seen = sj.log.seen
  <2>1. CASE Quiet(l, sj)
    BY <1>4, <2>1, Zenon DEF Quiet, SameMoment, SameErrors, SameSyntax
  <2>2. CASE NextLine(l, sj)
    BY <1>4, <2>2, Zenon DEF NextLine, SameErrors, SameSyntax
  <2> QED
    BY <1>3, <2>1, <2>2
<1> QED
  BY <1>1, <1>4, <1>6, <1>7, LineStep

LEMMA OpenDupStep == ASSUME SessionInv, OpenDup PROVE SessionInv'
<1> DEFINE r == [sj EXCEPT !.dup = TRUE]
<1>1. Running /\ Event[1] = "dup" /\ ~sj.dup /\ Go1(r)
  BY Zenon DEF OpenDup, Skipped
<1>2. IsState(sj) /\ sj.exit = -1 /\ sj.line > 0 /\ Proper(sj)
  BY <1>1, RunningFacts DEF SessionInv
<1>3. IsState(r) /\ SameErrors(r, sj) /\ SameSyntax(r, sj) /\ r.dup = TRUE
  BY <1>2, Zenon DEF SameErrors, SameSyntax, IsState, Fields
<1>4. /\ r.pass = sj.pass /\ r.line = sj.line /\ r.where = sj.where /\ r.system = sj.system
      /\ r.IsI8080 = sj.IsI8080 /\ r.IsLR35902 = sj.IsLR35902 /\ r.log.seen = sj.log.seen
  BY <1>2, Zenon DEF IsState, Fields
<1> HIDE DEF r
<1>5. Account(r)
  BY <1>2, <1>3, <1>4, AccountRuns, Zenon DEF Proper
<1>6. AllPlain(r) /\ Plain(r.system, r)
  BY <1>2, <1>3, <1>4, Zenon DEF Proper, AllPlain, Plain, Stacked, SameSyntax
<1>7. Proper(r)
  BY <1>2, <1>3, <1>4, <1>5, <1>6, Zenon DEF Proper
<1>8. After(Place(sj), Event, sj.IsI8080, sj.IsLR35902) = Place(r)
  <2>1. Place(sj)[1] = sj.syx /\ Place(sj)[2] = sj.stack /\ Place(sj)[3] = sj.dup
    BY DEF Place
  <2>2. After(Place(sj), Event, sj.IsI8080, sj.IsLR35902) = <<sj.syx, sj.stack, TRUE>>
    BY <1>1, <2>1, Zenon DEF After
  <2> QED
    BY <1>3, <2>2, Zenon DEF Place, SameSyntax
<1> QED
  BY <1>1, <1>2, <1>4, <1>7, <1>8, EventStep

LEMMA OptStep == ASSUME SessionInv, Opt PROVE SessionInv'
<1> DEFINE r == dirOPT(sj, Event[2], Event[3])
           c == [Start EXCEPT !.syx = sj.syx, !.stack = sj.stack,
                              !.IsI8080 = sj.IsI8080, !.IsLR35902 = sj.IsLR35902]
           t == dirOPT(c, Event[2], Event[3])
<1>1. Running /\ Event[1] = "opt" /\ ~sj.dup /\ Go1(r)
  BY Zenon DEF Opt, Skipped
<1>2. IsState(sj) /\ sj.exit = -1 /\ sj.line > 0 /\ Proper(sj) /\ InLine(sj)
  BY <1>1, RunningFacts DEF SessionInv, InLine
<1>3. IsSequence(Event[2]) /\ AreOptions(Event[3])
  BY <1>1, RunningFacts DEF IsEvent
<1>4. Syntaxed(r, sj)
  BY <1>2, <1>3, OptSyntaxed, Zenon
<1>5. Agree(sj, c) /\ sj.stack = c.stack
  <2>1. IsState(Start) /\ Start.exit = -1
    BY DEF Start, IsState, Fields, LogFields
  <2>2. IsState(c) /\ c.syx = sj.syx /\ c.stack = sj.stack /\ c.exit = -1
        /\ c.IsI8080 = sj.IsI8080 /\ c.IsLR35902 = sj.IsLR35902
    <3> HIDE DEF Start
    <3> QED
      BY <2>1, Zenon DEF IsState, Fields, LogFields
  <2> HIDE DEF c
  <2> QED
    BY <1>2, <2>2, Zenon DEF Agree
<1> HIDE DEF c
<1>6. Agree(r, t) /\ r.stack = t.stack
  BY <1>3, <1>5, OptAgree
<1>7. After(Place(sj), Event, sj.IsI8080, sj.IsLR35902) = <<t.syx, t.stack, sj.dup>>
  <2>1. Place(sj)[1] = sj.syx /\ Place(sj)[2] = sj.stack /\ Place(sj)[3] = sj.dup
    BY DEF Place
  <2> QED
    BY <1>1, <2>1, Zenon DEF After, c
<1> HIDE DEF r, t
<1>8. Proper(r)
  BY <1>2, <1>4, KeepsProper, Zenon
<1>9. /\ r.pass = sj.pass /\ r.system = sj.system /\ r.IsI8080 = sj.IsI8080 /\ r.IsLR35902 = sj.IsLR35902
      /\ r.log.seen = sj.log.seen /\ r.line = sj.line /\ r.dup = sj.dup
  BY <1>4, Zenon DEF Syntaxed, Keeps, SameMoment
<1>10. Place(r) = After(Place(sj), Event, sj.IsI8080, sj.IsLR35902)
  BY <1>6, <1>7, <1>9, Zenon DEF Place, Agree
<1> QED
  BY <1>1, <1>2, <1>8, <1>9, <1>10, EventStep

\* At the start of a pass the source is read from the syntax of the command line.
LEMMA EventsRun ==
  ASSUME NEW s, NEW t \in Sources
  PROVE  \E f : Reads(f, s, t)
<1> DEFINE x == <<t, s.IsI8080, s.IsLR35902>>
           start == <<s.system, <<>>, FALSE>>
<1>1. Len(t) \in Nat
  BY SourceFacts
<1>2. PICK f : IsRun("events", x, start, Len(t), f)
  BY <1>1, LoopRuns, Zenon
<1>3. x[1] = t /\ x[2] = s.IsI8080 /\ x[3] = s.IsLR35902
  OBVIOUS
<1> HIDE DEF x, start
<1>4. f = [k \in 0 .. Len(t) |-> IF k = 0 THEN start ELSE After(f[k - 1], t[k], s.IsI8080, s.IsLR35902)]
  BY <1>2, <1>3, Zenon DEF IsRun, Turn
<1>5. 0 \in 0 .. Len(t) /\ \A k \in 1 .. Len(t) : k \in 0 .. Len(t) /\ k # 0
  BY <1>1
<1>6. f[0] = start /\ \A k \in 1 .. Len(t) : f[k] = After(f[k - 1], t[k], s.IsI8080, s.IsLR35902)
  BY <1>4, <1>5, Zenon
<1> QED
  BY <1>6, Zenon DEF Reads, start

LEMMA EndPassStep == ASSUME SessionInv, EndPass PROVE SessionInv'
<1> DEFINE s == IF sj.dup THEN Error(sj, "PASS3") ELSE sj
           last == [s EXCEPT !.exit = IF s.errors # 0 THEN 1 ELSE 0]
<1>1. /\ sj.exit = -1 /\ pc > Len(text) /\ pc' = 1 /\ args' = args /\ text' = text
      /\ sj' = IF sj.pass < LASTPASS THEN InitPass(s) ELSE last
  BY Zenon DEF EndPass
<1>2. Proper(sj) /\ text \in Sources /\ IsState(sj) /\ sj.pass \in 0 .. LASTPASS
  BY DEF SessionInv, Proper, Account, NumbersAreRight
<1>3. Len(text) \in Nat \ {0}
  BY <1>2, SourceFacts
<1>4. sj.pass # 0 /\ sj.line > 0 /\ Lexical(sj, text, pc)
  <2>1. sj.pass # 0
    BY <1>1, <1>3 DEF SessionInv
  <2>2. sj.pass > 0
    BY <1>2, <2>1 DEF LASTPASS
  <2> QED
    BY <1>1, <1>3, <2>1, <2>2 DEF SessionInv
<1>5. Steady(s, sj)
  <2>1. Steady(sj, sj) /\ Steady(Error(sj, "PASS3"), sj)
    BY <1>2, SteadyItself, ErrorSteady
  <2> QED
    BY <2>1, Zenon
<1> HIDE DEF s
<1>6. Proper(s) /\ s.exit = -1 /\ s.pass = sj.pass
  <2>1. InLine(sj)
    BY <1>4 DEF InLine
  <2>2. s.exit = -1 /\ s.pass = sj.pass
    BY <1>1, <1>5, Zenon DEF Steady, Keeps, SameMoment
  <2> QED
    BY <1>2, <1>5, <2>1, <2>2, SteadyProper, Zenon
<1>7. \E S : args' \in Seq(S) /\ \A o \in S : IsOption(o)
  BY <1>1 DEF SessionInv
<1>8. CASE sj.pass < LASTPASS
  <2> DEFINE r == InitPass(s)
  <2>1. /\ Proper(r) /\ r.exit = -1 /\ r.pass = s.pass + 1
        /\ r.system = s.system /\ r.IsI8080 = s.IsI8080 /\ r.IsLR35902 = s.IsLR35902
        /\ r.syx = s.system /\ r.stack = <<>> /\ r.dup = FALSE /\ r.log.seen = s.log.seen
    <3>1. s.pass \in 0 .. 2
      BY <1>2, <1>6, <1>8 DEF LASTPASS
    <3> QED
      BY <1>6, <3>1, InitPassProper
  <2>2. sj' = r
    BY <1>1, <1>8
  <2> HIDE DEF r
  <2>3. PICK f : /\ Reads(f, sj, text)
                 /\ \A q \in sj.log.seen : <<q[2], q[3], q[4]>> = f[q[1] - 1]
    BY <1>4, Zenon DEF Lexical
  <2>4. /\ r.system = sj.system /\ r.IsI8080 = sj.IsI8080 /\ r.IsLR35902 = sj.IsLR35902
        /\ r.log.seen = sj.log.seen
    BY <1>5, <2>1, Zenon DEF Steady, Keeps, SameMoment
  <2>5. Reads(f, r, text) /\ \A q \in r.log.seen : <<q[2], q[3], q[4]>> = f[q[1] - 1]
    BY <2>3, <2>4, Zenon DEF Reads
  <2>6. Place(r) = f[0]
    BY <2>1, <2>3, <2>4, Zenon DEF Place, Reads
  <2>7. pc' - 1 = 0 /\ pc' \in Nat \ {0} /\ ~(pc' > 1)
    BY <1>1
  <2>8. Lexical(r, text, pc')
    BY <2>5, <2>6, <2>7, Zenon DEF Lexical
  <2>9. r.pass # 0
    BY <1>2, <1>6, <2>1 DEF LASTPASS
  <2> QED
    BY <1>1, <1>2, <1>7, <2>1, <2>2, <2>7, <2>8, <2>9, Zenon DEF SessionInv
<1>9. CASE ~(sj.pass < LASTPASS)
  <2>1. sj' = last
    BY <1>1, <1>9
  <2>2. IsState(s)
    BY <1>6 DEF Proper
  <2>3. /\ IsState(last) /\ SameMoment(last, s) /\ SameSyntax(last, s)
        /\ last.exit = (IF s.errors # 0 THEN 1 ELSE 0) /\ last.errors = s.errors /\ last.prevLine = s.prevLine
        /\ last.log.raised = s.log.raised /\ last.log.told = s.log.told
    BY <2>2, Zenon DEF SameMoment, SameSyntax, IsState, Fields
  <2> HIDE DEF last
  <2>4. Account(last)
    <3>1. Account(s)
      BY <1>6 DEF Proper
    <3>2. last.exit = 0 => last.errors = 0
      BY <2>3
    <3> QED
      BY <2>3, <3>1, <3>2, Zenon DEF Account, NumbersAreRight, OnlyLast, SameMoment
  <2>5. AllPlain(last) /\ Plain(last.system, last)
    BY <1>6, <2>3, Zenon DEF Proper, AllPlain, Plain, Stacked, SameSyntax, SameMoment
  <2>6. Proper(last)
    BY <1>6, <2>3, <2>4, <2>5, Zenon DEF Proper, SameMoment
  <2>7. last.exit # -1 /\ last.pass # 0 /\ pc' \in Nat \ {0} /\ ~(pc' > 1)
    BY <1>1, <1>4, <1>6, <2>3 DEF SameMoment
  <2> QED
    BY <1>1, <1>2, <1>7, <2>1, <2>6, <2>7, Zenon DEF SessionInv
<1> QED
  BY <1>8, <1>9

LEMMA ReadArgumentStep == ASSUME SessionInv, ReadArgument PROVE SessionInv'
<1> DEFINE o == Head(args)
           behind == IF Len(args) > 1 THEN args[2].opt ELSE ""
           a == SyntaxOption(sj, o)
           b == LaunchOption(sj, o, behind)
<1>1. /\ sj.exit = -1 /\ sj.pass = 0 /\ args # <<>>
      /\ sj' = IF IsSyntaxOption(o) THEN a ELSE b
      /\ args' = SubSeq(args, 1 + ArgumentsOf(o, behind), Len(args))
      /\ text' = text /\ pc' = pc
  BY Zenon DEF ReadArgument
<1>2. PICK S : args \in Seq(S) /\ \A x \in S : IsOption(x)
  BY DEF SessionInv
<1>3. o \in S /\ IsOption(o)
  <2>1. args # <<>>
    BY <1>1, Zenon
  <2>2. Head(args) \in S
    BY <1>2, <2>1
  <2> QED
    BY <1>2, <2>2, Zenon
<1>4. args' \in Seq(S)
  <2>1. ArgumentsOf(o, behind) \in {1, 2}
    BY Zenon DEF ArgumentsOf
  <2> HIDE DEF o, behind
  <2> QED
    BY <1>1, <1>2, <2>1
<1>5. Proper(sj) /\ Preparing(sj) /\ pc = 0 /\ text \in Sources /\ IsState(sj)
  BY <1>1, Zenon DEF SessionInv, Proper
<1>6. InLine(sj)
  BY <1>5 DEF Preparing, InLine, LASTPASS
<1> HIDE DEF o, behind
<1>7. Proper(sj') /\ Preparing(sj')
  <2>1. CASE IsSyntaxOption(o)
    <3>1. Optioned(a, sj)
      BY <1>3, <1>5, <2>1, SyntaxOptionOptioned, Zenon
    <3>2. sj' = a
      BY <1>1, <2>1, Zenon
    <3> HIDE DEF a
    <3>3. Proper(a) /\ Preparing(a)
      BY <1>5, <1>6, <3>1, OptionedSyntaxed, KeepsProper, KeepsPreparing, Zenon DEF Optioned
    <3> QED
      BY <3>2, <3>3, Zenon
  <2>2. CASE ~IsSyntaxOption(o)
    <3>1. sj' = b
      BY <1>1, <2>2, Zenon
    <3> QED
      BY <1>1, <1>5, <3>1, LaunchOptionOfMain, Zenon
  <2> QED
    BY <2>1, <2>2
<1>8. sj'.pass = 0
  BY <1>7 DEF Preparing
<1>9. ~(sj'.pass > 0)
  BY <1>8
<1> QED
  BY <1>1, <1>2, <1>4, <1>5, <1>7, <1>8, <1>9, Zenon DEF SessionInv

LEMMA ExitProper ==
  ASSUME NEW s, Proper(s), NEW x,
         x = 0 => s.errors = 0 \/ s.ShowHelp \/ (s.ShowVersion /\ s.sources = 0)
  PROVE  Proper([s EXCEPT !.exit = x]) /\ [s EXCEPT !.exit = x].exit = x /\ [s EXCEPT !.exit = x].pass = s.pass
<1> DEFINE r == [s EXCEPT !.exit = x]
<1>1. IsState(s)
  BY DEF Proper
<1>2. /\ IsState(r) /\ SameMoment(r, s) /\ SameSyntax(r, s)
      /\ r.exit = x /\ r.errors = s.errors /\ r.prevLine = s.prevLine
      /\ r.log.raised = s.log.raised /\ r.log.told = s.log.told
  BY <1>1, Zenon DEF SameMoment, SameSyntax, IsState, Fields
<1> HIDE DEF r
<1>3. Account(r)
  <2>1. Account(s)
    BY DEF Proper
  <2> QED
    BY <1>2, <2>1, Zenon DEF Account, NumbersAreRight, OnlyLast, SameMoment
<1>4. AllPlain(r) /\ Plain(r.system, r)
  BY <1>2, Zenon DEF Proper, AllPlain, Plain, Stacked, SameSyntax, SameMoment
<1>5. Proper(r)
  BY <1>2, <1>3, <1>4, Zenon DEF Proper, SameMoment
<1> QED
  BY <1>2, <1>5, Zenon DEF SameMoment, r

LEMMA LaunchStep == ASSUME SessionInv, Launch PROVE SessionInv'
<1> DEFINE wrong == \/ sj.lstDefault /\ sj.lstName
                    \/ sj.msg \in {"lst", "lstlab"} /\ (sj.lstDefault \/ sj.lstName)
                    \/ sj.sldDefault /\ sj.sldName
           ready == Ready(sj)
<1>1. /\ sj.exit = -1 /\ sj.pass = 0
      /\ sj' = IF wrong THEN Error(sj, "FATAL")
               ELSE IF sj.ShowHelp THEN [sj EXCEPT !.exit = 0]
               ELSE IF sj.sources = 0 /\ sj.ShowVersion THEN [ready EXCEPT !.exit = 0]
               ELSE IF sj.sources = 0 THEN [Error(ready, "ALL") EXCEPT !.exit = 1]
               ELSE InitPass(ready)
      /\ pc' = IF sj'.pass = 1 THEN 1 ELSE 0
      /\ args' = args /\ text' = text
  BY Zenon DEF Launch, Ready
<1> HIDE DEF wrong
<1>2. Proper(sj) /\ Preparing(sj) /\ text \in Sources
  BY <1>1 DEF SessionInv
<1>3. /\ Proper(ready) /\ ready.exit = -1 /\ ready.pass = 0 /\ ready.stack = <<>>
      /\ ready.log.seen = {} /\ ready.ShowVersion = sj.ShowVersion /\ ready.sources = sj.sources
  BY <1>1, <1>2, ReadyProper, Zenon
<1> HIDE DEF ready
<1>4. \E S : args' \in Seq(S) /\ \A o \in S : IsOption(o)
  BY <1>1 DEF SessionInv
\* The program ends before the first pass.
<1>5. ASSUME Proper(sj'), sj'.pass = 0, sj'.exit # -1 PROVE SessionInv'
  <2>1. pc' = 0 /\ ~(sj'.pass > 0)
    BY <1>1, <1>5
  <2> QED
    BY <1>1, <1>2, <1>4, <1>5, <2>1, Zenon DEF SessionInv
<1>6. CASE wrong
  <2>1. Proper(Error(sj, "FATAL")) /\ Preparing(Error(sj, "FATAL"))
    BY <1>2, ErrorOfMain, Zenon
  <2>2. Error(sj, "FATAL").exit = 1
    BY <1>1, <1>2, ErrorKeeps, Zenon DEF Proper
  <2>3. sj' = Error(sj, "FATAL")
    BY <1>1, <1>6, Zenon
  <2> QED
    BY <1>5, <2>1, <2>2, <2>3 DEF Preparing
<1>7. CASE ~wrong /\ sj.ShowHelp
  <2> DEFINE r == [sj EXCEPT !.exit = 0]
  <2>1. sj' = r
    BY <1>1, <1>7, Zenon
  <2>2. Proper(r) /\ r.exit = 0 /\ r.pass = sj.pass
    BY <1>2, <1>7, ExitProper, Zenon
  <2> HIDE DEF r
  <2>3. r.pass = 0 /\ r.exit # -1
    BY <1>2, <2>2 DEF Preparing
  <2> QED
    BY <1>5, <2>1, <2>2, <2>3, Zenon
<1>8. CASE ~wrong /\ ~sj.ShowHelp /\ sj.sources = 0 /\ sj.ShowVersion
  <2> DEFINE r == [ready EXCEPT !.exit = 0]
  <2>1. sj' = r
    BY <1>1, <1>8, Zenon
  <2>2. Proper(r) /\ r.exit = 0 /\ r.pass = ready.pass
    <3>1. ready.ShowVersion /\ ready.sources = 0
      BY <1>3, <1>8
    <3> QED
      BY <1>3, <3>1, ExitProper, Zenon
  <2> HIDE DEF r
  <2> QED
    BY <1>3, <1>5, <2>1, <2>2
<1>9. CASE ~wrong /\ ~sj.ShowHelp /\ sj.sources = 0 /\ ~sj.ShowVersion
  <2> DEFINE e == Error(ready, "ALL")
             r == [e EXCEPT !.exit = 1]
  <2>1. sj' = r
    BY <1>1, <1>9, Zenon
  <2>2. Steady(e, ready)
    <3>1. IsState(ready)
      BY <1>3 DEF Proper
    <3> QED
      BY <3>1, ErrorSteady
  <2>3. Proper(e) /\ e.pass = 0
    <3>1. InLine(ready)
      BY <1>3 DEF InLine, LASTPASS
    <3> HIDE DEF e
    <3> QED
      BY <1>3, <2>2, <3>1, SteadyProper, Zenon DEF Steady, Keeps, SameMoment
  <2> HIDE DEF e
  <2>4. Proper(r) /\ r.exit = 1 /\ r.pass = e.pass
    <3>1. 1 # 0
      OBVIOUS
    <3> QED
      BY <2>3, <3>1, ExitProper, Zenon
  <2> HIDE DEF r
  <2> QED
    BY <1>5, <2>1, <2>3, <2>4
<1>10. CASE ~wrong /\ ~sj.ShowHelp /\ sj.sources # 0
  <2> DEFINE r == InitPass(ready)
  <2>1. /\ Proper(r) /\ r.exit = -1 /\ r.pass = ready.pass + 1
        /\ r.system = ready.system /\ r.IsI8080 = ready.IsI8080 /\ r.IsLR35902 = ready.IsLR35902
        /\ r.syx = ready.system /\ r.stack = <<>> /\ r.dup = FALSE /\ r.log.seen = ready.log.seen
    <3>1. ready.pass \in 0 .. 2
      BY <1>3
    <3> QED
      BY <1>3, <3>1, InitPassProper
  <2>2. sj' = r
    BY <1>1, <1>10, Zenon
  <2> HIDE DEF r
  <2>3. r.pass = 1 /\ pc' = 1 /\ pc' - 1 = 0 /\ pc' \in Nat \ {0} /\ ~(pc' > 1)
    <3>1. r.pass = 1
      BY <1>3, <2>1
    <3>2. pc' = 1
      BY <1>1, <2>2, <3>1, Zenon
    <3> QED
      BY <3>1, <3>2
  <2>4. PICK f : Reads(f, r, text)
    BY <1>2, EventsRun, Zenon
  <2>5. Place(r) = f[0] /\ r.log.seen = {}
    BY <1>3, <2>1, <2>4, Zenon DEF Place, Reads
  <2>6. Lexical(r, text, pc')
    BY <2>3, <2>4, <2>5, Zenon DEF Lexical
  <2>7. r.pass # 0
    BY <2>3
  <2> QED
    BY <1>1, <1>2, <1>4, <2>1, <2>2, <2>3, <2>6, <2>7, Zenon DEF SessionInv
<1> QED
  BY <1>6, <1>7, <1>8, <1>9, <1>10

LEMMA SessionInvInit == SessionInit => SessionInv
<1> SUFFICES ASSUME SessionInit PROVE SessionInv
  OBVIOUS
<1>1. sj = Start /\ pc = 0 /\ args \in CommandLines /\ text \in Sources
  BY DEF SessionInit
<1>2. /\ IsState(Start) /\ Start.pass = 0 /\ Start.exit = -1 /\ Start.stack = <<>>
      /\ Start.log.seen = {} /\ Start.system = DefaultSyntax /\ Start.syx = DefaultSyntax
      /\ Start.IsI8080 = FALSE /\ Start.IsLR35902 = FALSE /\ Start.includes \in Seq({"dir"})
  BY DEF Start, IsState, Fields, LogFields
<1>3. Account(Start)
  BY DEF Start, Account, NumbersAreRight, OnlyLast, LASTPASS
<1>4. Plain(DefaultSyntax, Start)
  BY DEF Plain, DefaultSyntax
<1> HIDE DEF Start
<1>5. AllPlain(Start) /\ Plain(Start.system, Start)
  BY <1>2, <1>4, NothingStacked, Zenon DEF AllPlain
<1>6. Proper(sj) /\ Preparing(sj)
  BY <1>1, <1>2, <1>3, <1>5, Zenon DEF Proper, Preparing
<1>7. \E S : args \in Seq(S) /\ \A o \in S : IsOption(o)
  BY <1>1, SessionAssumption, Zenon DEF AreOptions, IsSequence
<1>8. sj.pass = 0 /\ ~(sj.pass > 0)
  BY <1>1, <1>2
<1> QED
  BY <1>1, <1>6, <1>7, <1>8, Zenon DEF SessionInv

LEMMA SessionInvNext == SessionInv /\ [SessionNext]_sessionVars => SessionInv'
<1> SUFFICES ASSUME SessionInv, [SessionNext]_sessionVars PROVE SessionInv'
  OBVIOUS
<1>1. CASE ReadArgument
  BY <1>1, ReadArgumentStep
<1>2. CASE Launch
  BY <1>2, LaunchStep
<1>3. CASE ParseLine
  BY <1>3, ParseLineStep
<1>4. CASE EndLine \/ BlankLine \/ CallMacro \/ LuaBlock \/ EndRepeat
  BY <1>4, ListingStep
<1>5. CASE ReturnMacro \/ LuaCall \/ EndLua
  BY <1>5, LinesStep
<1>6. CASE OpenDup
  BY <1>6, OpenDupStep
<1>7. CASE SkippedEvent
  BY <1>7, SkippedEventStep
<1>8. CASE RaiseError \/ RaiseWarning \/ FakeInstruction
  BY <1>8, ErrorStep
<1>9. CASE EmitBytes \/ EmitABlock
  BY <1>9, EmitStep
<1>10. CASE Opt
  BY <1>10, OptStep
<1>11. CASE EndPass
  BY <1>11, EndPassStep
<1>12. CASE UNCHANGED sessionVars
  <2>1. sj' = sj /\ args' = args /\ text' = text /\ pc' = pc
    BY <1>12 DEF sessionVars
  <2> QED
    BY <2>1, Zenon DEF SessionInv
<1> QED
  BY <1>1, <1>2, <1>3, <1>4, <1>5, <1>6, <1>7, <1>8, <1>9, <1>10, <1>11, <1>12, Zenon DEF SessionNext

\* In every run the account of errors is right and all passes read the source with the
\* same options (main, Error of io_err.cpp, dirOPT).
THEOREM SessionInvariant == SessionSpec => []SessionInv
  BY SessionInvInit, SessionInvNext, PTL DEF SessionSpec

\* Error may drop a message for the number of its line, but no run with an active error ends
\* well, except one that shows the help or the version alone; and of each line of the last pass
\* that raised an error there is a message, unless pass 1 or 2 failed (Error of io_err.cpp).
THEOREM SessionErrorsAreTold == SessionSpec => []EveryErrorIsTold
<1>1. SessionInv => EveryErrorIsTold
  <2> SUFFICES ASSUME SessionInv PROVE EveryErrorIsTold
    OBVIOUS
  <2>1. Account(sj)
    BY DEF SessionInv, Proper
  <2>2. sj.log.raised # {} =>
          sj.errors > 0 /\ (sj.exit = 0 => sj.ShowHelp \/ (sj.ShowVersion /\ sj.sources = 0))
    BY <2>1 DEF Account, NumbersAreRight
  <2>3. OnlyLast(sj) => \A place \in sj.log.raised : place[1] = LASTPASS => place \in sj.log.told
    BY <2>1 DEF Account
  <2> QED
    BY <2>2, <2>3, Zenon DEF EveryErrorIsTold, OnlyLast
<1> QED
  BY <1>1, SessionInvariant, PTL

\* What OPT sets, pushes, pops and resets holds for the lines behind it: every pass reads a
\* line with the syntax of the first pass, and the Z80N instructions stay disabled for the
\* i8080 and the Game Boy (dirOPT, SSyntax::restoreSystemSyntax, GetOptions).
THEOREM SessionSyntaxIsLexical == SessionSpec => []SyntaxIsLexical
<1>1. SessionInv => SyntaxIsLexical
  <2> SUFFICES ASSUME SessionInv PROVE SyntaxIsLexical
    OBVIOUS
  <2>1. ASSUME Running, NEW r \in sj.log.seen, r[1] = pc PROVE r[2] = sj.syx
    <3>1. Lexical(sj, text, pc)
      BY <2>1, RunningFacts
    <3>2. <<r[2], r[3], r[4]>> = Place(sj)
      BY <2>1, <3>1, Zenon DEF Lexical
    <3> QED
      BY <3>2 DEF Place
  <2>2. sj.IsI8080 \/ sj.IsLR35902 => sj.syx.IsNextEnabled = 0 /\ ~(sj.IsI8080 /\ sj.IsLR35902)
    BY Zenon DEF SessionInv, Proper, AllPlain, Plain
  <2> QED
    BY <2>1, <2>2, Zenon DEF SyntaxIsLexical
<1> QED
  BY <1>1, SessionInvariant, PTL

=============================================================================
