------------------------------ MODULE Session ------------------------------
(***************************************************************************)
(* One run of the program (sjasm.cpp main, io_err.cpp, dirOPT, ListFile):     *)
(* the command line, three passes over one text, the errors and warnings,    *)
(* the syntax that OPT changes, the listing and the exit code.               *)
(*                                                                         *)
(* A text is a sequence of events, a line of the source being the events     *)
(* from "line" to "end"; inside it are the lines of a macro ("call" .. "ret") *)
(* and of a script ("lua" .. "endlua").  s is the record of the globals.     *)
(***************************************************************************)
EXTENDS Integers, Sequences, FiniteSets, SequencesExt

CONSTANTS
  CommandLines,   \* arguments: sequences of [opt, val]; opt = "file" is a source file
  Sources,        \* bound: sources, sequences of events
  BufferSize      \* LIST_EMIT_BYTES_BUFFER_SIZE

IsSequence(q) == q \in Seq(ToSet(q))
\* The letters of --syntax
IsOption(o) == o.opt = "syntax" => IsSequence(o.val)
AreOptions(q) == IsSequence(q) /\ \A o \in ToSet(q) : IsOption(o)
\* The commands and options of OPT, the number of bytes of an emission
IsEvent(e) ==
  /\ e[1] = "opt" => IsSequence(e[2]) /\ AreOptions(e[3])
  /\ e[1] \in {"emit", "block"} => e[2] \in Nat

\* A source begins with a line.
ASSUME SessionAssumption ==
  /\ BufferSize \in Nat \ {0, 1}
  /\ \A c \in CommandLines : AreOptions(c)
  /\ \A t \in Sources : /\ IsSequence(t) /\ t # <<>> /\ t[1][1] = "line"
                       /\ \A e \in ToSet(t) : IsEvent(e)

VARIABLES
  sj,     \* the globals
  args,   \* arguments that are still to be read
  text,   \* the events of the source
  pc      \* the next event; 0 between passes

sessionVars == <<sj, args, text, pc>>

LASTPASS == 3

-----------------------------------------------------------------------------
(* Errors and warnings (io_err.cpp).                                       *)

\* The ids of w_texts, and those that are disabled at first
WarningIds ==
  {"noramtop", "devramtop", "fileorg", "displacedorg", "orgpage", "fwdref", "luamc", "nexstack",
   "sna48", "sna128", "trdext", "trdext3", "trdextb", "trddup", "relalign", "rdlow", "reldiverts",
   "relunstable", "dispmempage", "bpfile", "sldswap", "out0", "backslash", "opkeyword", "behost",
   "fake", "all", "decimalz", "decimaln", "shortblock", "emptystr"}
w_texts == {"rdlow", "decimalz", "all"}

\* isInactiveTypeInCurrentPass, and the head of Error
Inactive(type, pass) ==
  \/ type = "EARLY" /\ LASTPASS <= pass
  \/ type \in {"SUPPRESS", "IF_FIRST", "PASS3"} /\ pass < LASTPASS
  \/ type = "PASS03" /\ 0 < pass /\ pass < LASTPASS

\* mutant: an IF_FIRST error is also dropped when the line before had one
Error_first(s, type) ==
  LET here  == s.prevLine = s.line
      near  == s.prevLine + 1 >= s.line
      place == <<s.pass, s.where>>
      heard == [s EXCEPT !.log.raised = @ \cup {place}]
  IN  IF s.exit # -1 \/ Inactive(type, s.pass) THEN s
      ELSE IF type # "FATAL" /\ ((here /\ s.skip) \/ (near /\ type = "IF_FIRST")) THEN heard
      ELSE [heard EXCEPT !.skip = (@ /\ here) \/ type = "SUPPRESS", !.prevLine = s.line,
                         !.errors = @ + 1, !.exit = IF type = "FATAL" THEN 1 ELSE @,
                         !.log.told = @ \cup {place}]

\* Error; FATAL calls ExitASM, nothing follows it.
Error(s, type) ==
  LET here  == s.prevLine = s.line
      place == <<s.pass, s.where>>
      heard == [s EXCEPT !.log.raised = @ \cup {place}]
  IN  IF s.exit # -1 \/ Inactive(type, s.pass) THEN s
      ELSE IF type # "FATAL" /\ here /\ (s.skip \/ type = "IF_FIRST") THEN heard
      ELSE [heard EXCEPT !.skip = (@ /\ here) \/ type = "SUPPRESS", !.prevLine = s.line,
                         !.errors = @ + 1, !.exit = IF type = "FATAL" THEN 1 ELSE @,
                         !.log.told = @ \cup {place}]

\* WarningImpl
Warning(s, type) ==
  IF s.exit # -1 \/ Inactive(type, s.pass) THEN s
  ELSE IF s.syx.WarningsAsErrors THEN Error(s, type)
  ELSE [s EXCEPT !.warnings = @ + 1]

\* WarningById, suppressedById: ok when the comment of the line has "id-ok"
WarningById(s, id, type, ok) ==
  IF ok \/ id \in s.disabled THEN s ELSE Warning(s, type)

\* CliWoption, warning_state: "fake" is a part of the syntax, the others are global.
CliWoption(s, enable, id) ==
  LET set(ids) == [s EXCEPT !.disabled = IF enable THEN @ \ ids ELSE @ \cup (ids \ {"fake"}),
                            !.syx.FakeWarning = IF "fake" \in ids THEN enable ELSE @]
  IN  CASE id = ""            -> Error(s, "PASS03")
        [] id = "all"         -> set(WarningIds)
        [] id \in WarningIds \ {"all"} -> set({id})
        [] OTHER              -> Warning(s, "PASS03")

-----------------------------------------------------------------------------
(* Syntax (sjasm.h SSyntax, sjasm.cpp).                                    *)

DefaultSyntax ==
  [IsPseudoOpBOF |-> FALSE, IsReversePOP |-> FALSE, FakeEnabled |-> TRUE, FakeWarning |-> FALSE,
   IsListingSuspended |-> FALSE, ListingType |-> "all", CaseInsensitiveInstructions |-> FALSE,
   WarningsAsErrors |-> FALSE, Is_M_Memory |-> FALSE, IsSubwordSubstitution |-> TRUE,
   MemoryBrackets |-> 0, IsNextEnabled |-> 0, MultiArg |-> ","]

\* One letter of parseSyntaxValue
SyntaxLetter(s, c) ==
  CASE c = "f" -> [s EXCEPT !.syx.FakeEnabled = TRUE, !.syx.FakeWarning = TRUE]
    [] c = "F" -> [s EXCEPT !.syx.FakeEnabled = FALSE]
    [] c = "a" -> [s EXCEPT !.syx.MultiArg = ",,"]
    [] c = "b" -> [s EXCEPT !.syx.MemoryBrackets = 1]
    [] c = "B" -> [s EXCEPT !.syx.MemoryBrackets = 2]
    [] c = "i" -> [s EXCEPT !.syx.CaseInsensitiveInstructions = TRUE]
    [] c = "w" -> [s EXCEPT !.syx.WarningsAsErrors = TRUE]
    [] c = "M" -> [s EXCEPT !.syx.Is_M_Memory = TRUE]
    [] c = "s" -> [s EXCEPT !.syx.IsSubwordSubstitution = FALSE]
    [] OTHER   -> Error(s, "PASS03")     \* l and L are not implemented

\* parseSyntaxValue
SyntaxLetters(s, letters) ==
  LET after[k \in 0..Len(letters)] == IF k = 0 THEN s ELSE SyntaxLetter(after[k - 1], letters[k])
  IN  after[Len(letters)]

IsSyntaxOption(o) ==
  o.opt \in {"zxnext", "reversepop", "dirbol", "nofakes", "syntax", "W", "cleanonerror"}

\* GetOptions, the options that OPT may give as well
SyntaxOption(s, o) ==
  CASE o.opt = "zxnext"       -> IF s.IsI8080 \/ s.IsLR35902 THEN Error(s, "FATAL")
                                 ELSE [s EXCEPT !.syx.IsNextEnabled = IF o.val = "cspect" THEN 2 ELSE 1]
    [] o.opt = "reversepop"   -> [s EXCEPT !.syx.IsReversePOP = TRUE]
    [] o.opt = "dirbol"       -> [s EXCEPT !.syx.IsPseudoOpBOF = TRUE]
    [] o.opt = "nofakes"      -> [s EXCEPT !.syx.FakeEnabled = FALSE]
    [] o.opt = "syntax"       -> SyntaxLetters(s, o.val)
    [] o.opt = "W"            -> CliWoption(s, o.val.enable, o.val.id)
    [] o.opt = "cleanonerror" -> [s EXCEPT !.DeleteOnError = TRUE]

\* The options of the command line alone; behind is the argument that follows.
LaunchOption(s, o, behind) ==
  CASE o.opt = "lr35902" -> [s EXCEPT !.IsLR35902 = TRUE, !.IsI8080 = FALSE, !.syx.IsNextEnabled = 0]
    [] o.opt = "i8080"   -> [s EXCEPT !.IsI8080 = TRUE, !.IsLR35902 = FALSE, !.syx.IsNextEnabled = 0]
    [] o.opt = "help"    -> [s EXCEPT !.ShowHelp = TRUE]
    [] o.opt = "version" -> [s EXCEPT !.ShowVersion = TRUE]
    [] o.opt = "msg"     -> IF o.val \in {"none", "err", "war", "all", "lst", "lstlab"}
                            THEN [s EXCEPT !.msg = o.val] ELSE Error(s, "ALL")
    [] o.opt = "lst"     -> IF o.val = "" THEN [s EXCEPT !.lstDefault = TRUE] ELSE [s EXCEPT !.lstName = TRUE]
    [] o.opt = "sld"     -> IF o.val = "" THEN [s EXCEPT !.sldDefault = TRUE] ELSE [s EXCEPT !.sldName = TRUE]
    [] o.opt = "sym"     -> IF o.val = "" THEN Error(s, "ALL") ELSE s
    [] o.opt = "i"       -> IF o.val # "" THEN [s EXCEPT !.includes = Append(@, o.val)]
                            ELSE IF behind = "file" THEN [s EXCEPT !.includes = Append(@, "dir")]
                            ELSE Error(s, "ALL")
    [] o.opt = "inc"     -> [s EXCEPT !.includes = <<>>]
    [] o.opt = "fullpath" -> IF o.val \in {"", "on", "rel", "off"} THEN [s EXCEPT !.fullpath = o.val]
                             ELSE Error(s, "ALL")
    [] o.opt = "define"  -> IF behind = "" THEN Error(s, "ALL") ELSE s
    [] o.opt \in {"-", "file"} -> [s EXCEPT !.sources = @ + 1]
    [] OTHER             -> Error(s, "ALL")

\* How many arguments an option takes
ArgumentsOf(o, behind) ==
  IF \/ o.opt = "define" /\ behind # ""
     \/ o.opt = "i" /\ o.val = "" /\ behind = "file" THEN 2 ELSE 1

-----------------------------------------------------------------------------
(* The listing (sjio.cpp).                                                 *)

HasListing(s) == s.lstDefault \/ s.lstName \/ s.msg \in {"lst", "lstlab"}

\* mutant: the flag donotlist is not taken back
ListFile_sticky(s, skipped) ==
  LET rows == {<<s.listAddress + k - 1, s.pending[k]>> : k \in {k \in DOMAIN s.pending : s.pending[k] # -2}}
  IN  IF s.pass # LASTPASS \/ ~HasListing(s) \/ s.donotlist \/ s.syx.IsListingSuspended
      THEN [s EXCEPT !.pending = <<>>]
      ELSE IF skipped /\ s.syx.ListingType = "active" THEN [s EXCEPT !.pending = <<>>]
      ELSE IF s.syx.ListingType = "mc" /\ s.pending = <<>> THEN s
      ELSE [s EXCEPT !.listing = @ \cup rows, !.pending = <<>>, !.listAddress = s.address]

\* ListFile: the pending bytes with their addresses; -2 shows as "..."
ListFile(s, skipped) ==
  LET rows == {<<s.listAddress + k - 1, s.pending[k]>> : k \in {k \in DOMAIN s.pending : s.pending[k] # -2}}
  IN  IF s.pass # LASTPASS \/ ~HasListing(s) \/ s.donotlist \/ s.syx.IsListingSuspended
      THEN [s EXCEPT !.pending = <<>>, !.donotlist = FALSE]
      ELSE IF skipped /\ s.syx.ListingType = "active" THEN [s EXCEPT !.pending = <<>>]
      ELSE IF s.syx.ListingType = "mc" /\ s.pending = <<>> THEN s
      ELSE [s EXCEPT !.listing = @ \cup rows, !.pending = <<>>, !.listAddress = s.address]

ListSilentOrExternalEmits(s) ==
  IF s.pending = <<>> THEN s ELSE ListFile([s EXCEPT !.line = @ + 1], FALSE)

\* A byte goes to memory in every pass; code and due are kept of the last one.
EmitByteNoListing(s, shown) ==
  [s EXCEPT !.address = @ + 1, !.count = @ + 1,
     !.log.code = IF s.pass = LASTPASS THEN @ \cup {<<s.address, s.count>>} ELSE @,
     !.log.due  = IF s.pass = LASTPASS /\ shown /\ ~s.syx.IsListingSuspended
                  THEN @ \cup {<<s.address, s.count>>} ELSE @]

\* EmitByte
EmitByte1(s) ==
  LET n == Len(s.pending)
      listed == [s EXCEPT !.pending = IF n < BufferSize - 1 THEN Append(@, s.count)
                                      ELSE IF n < BufferSize THEN Append(@, -2) ELSE @]
  IN  EmitByteNoListing(listed, n < BufferSize - 1)

\* EmitBytes of n bytes
EmitBytesTo(s, n) ==
  LET after[k \in 0..n] == IF k = 0 THEN s ELSE EmitByte1(after[k - 1])
  IN  after[n]

\* The k-th of len bytes, of which room are listed
EmitBlockByte(s, k, room, len) ==
  LET keep == s.pass = LASTPASS /\ k <= room
      dots == k = room /\ k < len
      put  == [s EXCEPT !.pending = IF ~keep THEN @ ELSE Append(@, IF dots THEN -2 ELSE s.count)]
  IN  EmitByteNoListing(put, k <= room /\ ~dots)

\* EmitBlock of len bytes, of which most are listed
EmitBlock(s, len, most) ==
  LET room == IF BufferSize <= Len(s.pending) + most THEN BufferSize - Len(s.pending) ELSE most
      after[k \in 0..len] == IF k = 0 THEN s ELSE EmitBlockByte(after[k - 1], k, room, len)
  IN  after[len]

-----------------------------------------------------------------------------
(* OPT (directives.cpp).                                                   *)

\* One command of dirOPT; r carries didReset and didList, r.stop ends the directive.
OptCommand(r, c) ==
  LET s == r.s
      filter(type) == [r EXCEPT !.s = [(IF r.didList THEN s ELSE ListFile(s, FALSE))
                                         EXCEPT !.donotlist = TRUE, !.syx.ListingType = type],
                                !.didList = TRUE]
  IN  IF r.stop \/ s.exit # -1 THEN r
      ELSE CASE c = "pop"     -> [r EXCEPT !.stop = TRUE,
                                   !.s = IF s.stack = <<>> THEN Warning(s, "PASS3")
                                         ELSE [s EXCEPT !.syx = Head(s.stack), !.stack = Tail(@)]]
             [] c = "push"    -> LET w == IF r.didReset THEN Warning(s, "PASS3") ELSE s
                                 IN  [r EXCEPT !.s = [w EXCEPT !.stack = <<w.syx>> \o @]]
             [] c = "reset"   -> [r EXCEPT !.s.syx = DefaultSyntax, !.didReset = TRUE]
             [] c = "listoff" -> [r EXCEPT !.s = [(IF r.didList THEN s ELSE ListFile(s, FALSE))
                                         EXCEPT !.donotlist = TRUE, !.syx.IsListingSuspended = TRUE],
                                           !.didList = TRUE]
             [] c = "liston"  -> [r EXCEPT !.s.syx.IsListingSuspended = FALSE]
             [] c = "listall" -> filter("all")
             [] c = "listact" -> filter("active")
             [] c = "listmc"  -> filter("mc")
             [] OTHER         -> [r EXCEPT !.s = Error(s, "PASS3"), !.stop = TRUE]

\* The options in order, up to one that only the command line may give
OptOption(r, o) ==
  IF r.stop \/ r.s.exit # -1 THEN r
  ELSE IF IsSyntaxOption(o) THEN [r EXCEPT !.s = SyntaxOption(r.s, o)]
  ELSE [r EXCEPT !.s = Error(r.s, "PASS3"), !.stop = TRUE]

\* The k-th word of the directive
OptWord(r, k, commands, options) ==
  IF k <= Len(commands) THEN OptCommand(r, commands[k]) ELSE OptOption(r, options[k - Len(commands)])

dirOPT(s, commands, options) ==
  LET start == [s |-> s, didReset |-> FALSE, didList |-> s.syx.IsListingSuspended, stop |-> FALSE]
      words == Len(commands) + Len(options)
      after[k \in 0..words] == IF k = 0 THEN start ELSE OptWord(after[k - 1], k, commands, options)
  IN  after[words].s

-----------------------------------------------------------------------------
(* The program.                                                            *)

\* mutant: the saved syntaxes of the pass before stay on the stack
InitPass_stack(s) ==
  [s EXCEPT !.pass = @ + 1, !.syx = s.system, !.line = 0, !.address = 0,
            !.listAddress = 0, !.count = 0, !.dup = FALSE]

\* InitPass, what of it the properties see
InitPass(s) ==
  [s EXCEPT !.pass = @ + 1, !.syx = s.system, !.stack = <<>>, !.line = 0, !.address = 0,
            !.listAddress = 0, !.count = 0, !.dup = FALSE]

\* main: one argument of the environment or of the command line
ReadArgument ==
  LET o == Head(args)
      behind == IF Len(args) > 1 THEN args[2].opt ELSE ""
  IN  /\ sj.exit = -1 /\ sj.pass = 0 /\ args # <<>>
      /\ sj' = IF IsSyntaxOption(o) THEN SyntaxOption(sj, o) ELSE LaunchOption(sj, o, behind)
      /\ args' = SubSeq(args, 1 + ArgumentsOf(o, behind), Len(args))
      /\ UNCHANGED <<text, pc>>

\* checkIncludePaths
checkIncludePaths(s, includes) ==
  LET after[k \in 0..Len(includes)] ==
        IF k = 0 THEN s
        ELSE IF includes[k] = "missing" THEN Error(after[k - 1], "ALL") ELSE after[k - 1]
  IN  after[Len(includes)]

\* main: what it verifies before the first pass
Launch ==
  LET wrong == \/ sj.lstDefault /\ sj.lstName
               \/ sj.msg \in {"lst", "lstlab"} /\ (sj.lstDefault \/ sj.lstName)
               \/ sj.sldDefault /\ sj.sldName
      debug == [sj EXCEPT !.system = sj.syx]
      paths == IF sj.fullpath = "off" /\ (sj.sldDefault \/ sj.sldName) THEN Warning(debug, "EARLY") ELSE debug
      ready == checkIncludePaths(paths, sj.includes)
  IN  /\ sj.exit = -1 /\ sj.pass = 0 /\ args = <<>>
      /\ sj' = IF wrong THEN Error(sj, "FATAL")
               ELSE IF sj.ShowHelp THEN [sj EXCEPT !.exit = 0]
               ELSE IF sj.sources = 0 /\ sj.ShowVersion THEN [ready EXCEPT !.exit = 0]
               ELSE IF sj.sources = 0 THEN [Error(ready, "ALL") EXCEPT !.exit = 1]
               ELSE InitPass(ready)
      /\ pc' = IF sj'.pass = 1 THEN 1 ELSE 0
      /\ UNCHANGED <<args, text>>

Running == sj.exit = -1 /\ pc \in DOMAIN text
Event == text[pc]
\* In an open DUP the lines are only recorded.
Skipped == sj.dup /\ Event[1] \notin {"line", "end"}
\* The first pass notes the syntax in front of each event.
Go1(s) ==
  /\ sj' = [s EXCEPT !.log.seen = IF s.pass = 1 THEN @ \cup {<<pc, sj.syx, sj.stack, sj.dup>>} ELSE @]
  /\ pc' = pc + 1 /\ UNCHANGED <<args, text>>

SkippedEvent == Running /\ Skipped /\ Go1(sj)

\* PrepareLine: a line of a file, a macro, a repeated line or a script
ParseLine ==
  LET s == [ListSilentOrExternalEmits(sj) EXCEPT !.where = pc]
      n == [s EXCEPT !.line = @ + 1]
  IN  /\ Running /\ ~Skipped /\ Event[1] = "line"
      /\ Go1(IF sj.dup THEN n ELSE [n EXCEPT !.listAddress = n.address])

\* The end of ParseLine lists the line.
EndLine ==
  /\ Running /\ ~Skipped /\ Event[1] = "end"
  /\ Go1(IF sj.dup THEN sj ELSE ListFile(sj, FALSE))

\* A line that becomes empty is listed as skipped.
BlankLine == Running /\ ~Skipped /\ Event[1] = "blank" /\ Go1(ListFile(sj, TRUE))

\* CMacroTable::Emit before and behind the lines of the macro
CallMacro == Running /\ ~Skipped /\ Event[1] = "call" /\ Go1(ListFile(sj, FALSE))
ReturnMacro ==
  /\ Running /\ ~Skipped /\ Event[1] = "ret"
  /\ Go1([sj EXCEPT !.line = @ + 1, !.donotlist = TRUE])

\* Behind the lines of a dot repeater
EndRepeat == Running /\ ~Skipped /\ Event[1] = "rep" /\ Go1([sj EXCEPT !.donotlist = TRUE])

\* dirLUA: the line LUA, the lines of the script, a call of sj from it, ENDLUA
LuaBlock ==
  /\ Running /\ ~Skipped /\ Event[1] = "lua"
  /\ Go1(ListFile(ListFile(sj, FALSE), TRUE))
LuaCall == Running /\ ~Skipped /\ Event[1] = "position" /\ Go1([sj EXCEPT !.line = @ + 1])
EndLua == Running /\ ~Skipped /\ Event[1] = "endlua" /\ Go1([sj EXCEPT !.line = @ + 1])

OpenDup == Running /\ ~Skipped /\ Event[1] = "dup" /\ Go1([sj EXCEPT !.dup = TRUE])

RaiseError == Running /\ ~Skipped /\ Event[1] = "error" /\ Go1(Error(sj, Event[2]))
RaiseWarning ==
  /\ Running /\ ~Skipped /\ Event[1] = "warning"
  /\ Go1(WarningById(sj, Event[2], Event[3], Event[4]))
\* noFakes(true): a fake instruction
FakeInstruction ==
  /\ Running /\ ~Skipped /\ Event[1] = "fake"
  /\ Go1(IF sj.IsI8080 \/ sj.IsLR35902 \/ ~sj.syx.FakeEnabled THEN Error(sj, "SUPPRESS")
         ELSE IF sj.syx.FakeWarning THEN WarningById(sj, "fake", "PASS3", Event[2]) ELSE sj)
EmitBytes ==
  /\ Running /\ ~Skipped /\ Event[1] = "emit"
  /\ Go1(EmitBytesTo(sj, Event[2]))
EmitABlock == Running /\ ~Skipped /\ Event[1] = "block" /\ Go1(EmitBlock(sj, Event[2], Event[3]))
Opt == Running /\ ~Skipped /\ Event[1] = "opt" /\ Go1(dirOPT(sj, Event[2], Event[3]))

\* main, behind the sources: a DUP left open, then the next pass or the end
EndPass ==
  LET s == IF sj.dup THEN Error(sj, "PASS3") ELSE sj
  IN  /\ sj.exit = -1 /\ pc > Len(text)
      /\ sj' = IF sj.pass < LASTPASS THEN InitPass(s)
               ELSE [s EXCEPT !.exit = IF s.errors # 0 THEN 1 ELSE 0]
      /\ pc' = 1
      /\ UNCHANGED <<args, text>>

-----------------------------------------------------------------------------
Start ==
  [pass |-> 0, exit |-> -1, line |-> 0, where |-> 0,
   errors |-> 0, warnings |-> 0, prevLine |-> -1, skip |-> FALSE, disabled |-> w_texts,
   syx |-> DefaultSyntax, stack |-> <<>>, system |-> DefaultSyntax,
   IsI8080 |-> FALSE, IsLR35902 |-> FALSE, DeleteOnError |-> FALSE,
   ShowHelp |-> FALSE, ShowVersion |-> FALSE, msg |-> "all", sources |-> 0,
   includes |-> <<"dir">>, fullpath |-> "off",
   lstDefault |-> FALSE, lstName |-> FALSE, sldDefault |-> FALSE, sldName |-> FALSE,
   address |-> 0, count |-> 0, listAddress |-> 0, pending |-> <<>>, donotlist |-> FALSE, dup |-> FALSE,
   listing |-> {},
   \* what the properties compare: places of errors, bytes of the last pass, options of the first one
   log |-> [raised |-> {}, told |-> {}, code |-> {}, due |-> {}, seen |-> {}]]

SessionInit ==
  /\ sj = Start /\ pc = 0
  /\ args \in CommandLines
  /\ text \in Sources

SessionNext ==
  \/ ReadArgument \/ Launch \/ ParseLine \/ EndLine \/ BlankLine \/ CallMacro \/ ReturnMacro
  \/ EndRepeat \/ LuaBlock \/ LuaCall \/ EndLua \/ OpenDup \/ SkippedEvent
  \/ RaiseError \/ RaiseWarning \/ FakeInstruction \/ EmitBytes \/ EmitABlock \/ Opt \/ EndPass

SessionSpec == SessionInit /\ [][SessionNext]_sessionVars

-----------------------------------------------------------------------------
(* Properties.                                                             *)

\* Error drops messages by the number of the line, which macros, repeaters and
\* scripts move: still a run with an active error fails, unless it only shows the
\* help or the version, and when no pass before the last one failed, every line of
\* the last pass that raised an error has at least one message of its own.  The
\* end of the pass is not a line.
EveryErrorIsTold ==
  /\ sj.log.raised # {} =>
        sj.errors > 0 /\ (sj.exit = 0 => sj.ShowHelp \/ (sj.ShowVersion /\ sj.sources = 0))
  /\ (\A place \in sj.log.told : place[1] \in {0, LASTPASS}) =>
        {place \in sj.log.raised : place[1] = LASTPASS} \subseteq sj.log.told

\* OPT works on the lines behind it: in every pass a line is read with the
\* syntax it had in the first one, whatever was pushed and never popped; and
\* the Z80N instructions are never enabled for another processor.
SyntaxIsLexical ==
  /\ (Running /\ Event[1] = "line" /\ sj.pass > 1) =>
        \A r \in sj.log.seen : r[1] = pc => r[2] = sj.syx
  /\ sj.IsI8080 \/ sj.IsLR35902 => sj.syx.IsNextEnabled = 0 /\ ~(sj.IsI8080 /\ sj.IsLR35902)

\* The listing of a finished run shows the bytes at the addresses where they were
\* emitted, and all of them that come while it is not suspended and has room.
ListingIsTrue ==
  sj.exit # -1 /\ sj.pass = LASTPASS /\ pc = 1 /\ HasListing(sj) =>
     sj.log.due \subseteq sj.listing /\ sj.listing \subseteq sj.log.code
=============================================================================
