----------------------------- MODULE SourceFlow -----------------------------
(***************************************************************************)
(* Which source lines are assembled, and in which order: conditional       *)
(* blocks, DUP and WHILE blocks, macros, INCLUDE, LUA blocks and END.      *)
(*                                                                         *)
(* The code is a set of mutually recursive loops that share global reading *)
(* positions.  Here the C++ call stack is the variable stack: a "file"     *)
(* frame is the loop of ReadBufLine, an "if" frame dirIfInternal with its  *)
(* ReadFile or SkipFile, a "dup" frame the loop of dirEDUP, a "macro"      *)
(* frame the loop of CMacroTable::Emit.  One step reads a line, the next   *)
(* one parses it.                                                          *)
(***************************************************************************)
EXTENDS Integers, Sequences, SequencesExt

CONSTANTS
    Programs,         \* records [main, inc] of two source files
    Names,            \* names of macros
    MaxIncludeLevel,  \* 20 in the code
    IntWidth,         \* 2^32 in the code, the values of an int
    StackLimit        \* calls that fit the stack of the process

\* The lines of the sources; what they say is told by their keyword.
Lines == UNION {Range(p.main) \cup Range(p.inc) : p \in Programs}
Ops == {"X", "IF", "ELSE", "ELSEIF", "ENDIF", "DUP", "WHILE", "EDUP", "MACRO", "ENDM",
        "CALL", "INCLUDE", "LUA", "ENDLUA", "END"}

ASSUME FlowAssumption ==
  /\ MaxIncludeLevel \in Nat /\ StackLimit \in Nat /\ IntWidth \in Nat \ {0}
  /\ \A p \in Programs : p.main \in Seq(Lines) /\ p.inc \in Seq(Lines)
  /\ \A l \in Lines : /\ l.op \in Ops
                      /\ l.op \in {"DUP", "WHILE"} => l.n \in Int
                      /\ l.op = "MACRO" => l.name \in Names

VARIABLES
    stack, lijst, lijstp, RepeatStack, macros, IsRunning,
    line,     \* the line that was read, or <<>>
    phase,    \* "work", "exit" or "crash"
    errors,   \* kinds of errors shown
    out,      \* identities of the ordinary lines that were assembled
    prog

blocks == <<stack, lijst, lijstp, RepeatStack>>
vars == <<blocks, macros, IsRunning, line, phase, errors, out, prog>>

None == << >>
Top == Last(stack)
Pop(s) == SubSeq(s, 1, Len(s) - 1)
TopIs(kind) == phase = "work" /\ stack # << >> /\ Top.k = kind
Show(kinds) == errors' = errors \cup kinds

\* The innermost DUP that is still collecting its lines.
Collecting == RepeatStack # << >> /\ ~Last(RepeatStack).IsInWork

----------------------------------------------------------------------------
(* Reading *)

FileFrame == SelectLastInSeq(stack, LAMBDA f : f.k = "file")

\* The lines ReadLine takes from: lines of a macro or DUP before the file.
Source == IF ~IsRunning THEN << >>
          ELSE IF lijst > 0 THEN lijstp ELSE stack[FileFrame].rest

MoveSource(rest) ==
  IF lijst > 0 THEN lijstp' = rest /\ UNCHANGED stack
               ELSE stack' = [stack EXCEPT ![FileFrame].rest = rest] /\ UNCHANGED lijstp

\* What follows the first line with this keyword, and what precedes it.
Find(lines, op) == SelectInSeq(lines, LAMBDA l : l.op = op)
After(lines, op) ==
  IF Find(lines, op) = 0 THEN << >> ELSE SubSeq(lines, Find(lines, op) + 1, Len(lines))
Before(lines, op) ==
  IF Find(lines, op) = 0 THEN lines ELSE SubSeq(lines, 1, Find(lines, op) - 1)

\* ReadBufLine(Parse = true), the loop of OpenFile
ReadBufLine ==
  /\ TopIs("file") /\ line = None
  /\ IF IsRunning /\ Top.rest # << >>
     THEN /\ line' = Head(Top.rest)
          /\ stack' = [stack EXCEPT ![Len(stack)].rest = Tail(@)]
     ELSE stack' = Pop(stack) /\ UNCHANGED line
  /\ UNCHANGED <<lijst, lijstp, RepeatStack, macros, IsRunning, phase, errors, out, prog>>

\* ReadFile and SkipFile: the next line, or "No ENDIF"
ReadLine ==
  /\ TopIs("if") /\ line = None
  /\ IF Source # << >>
     THEN line' = Head(Source) /\ MoveSource(Tail(Source)) /\ UNCHANGED errors
     ELSE /\ stack' = Pop(stack) /\ UNCHANGED <<line, lijstp>>
          /\ Show(IF IsRunning THEN {"no ENDIF"} ELSE {})
  /\ UNCHANGED <<lijst, RepeatStack, macros, IsRunning, phase, out, prog>>

----------------------------------------------------------------------------
(* DUP and WHILE *)

Entry(count, isWhile) ==
  [RepeatCount |-> count, isWhile |-> isWhile, Lines |-> << >>,
   IsInWork |-> FALSE, Level |-> 0, runs |-> 0, limit |-> count]

\* The entry that the running dirEDUP refers to.
dup == RepeatStack[Top.entry]

NextLine == /\ line' = Head(lijstp) /\ lijstp' = Tail(lijstp)
            /\ UNCHANGED <<stack, lijst, RepeatStack, errors>>

Repeat == /\ RepeatStack' = [RepeatStack EXCEPT ![Top.entry] =
                              [dup EXCEPT !.RepeatCount = @ - 1, !.runs = @ + 1]]
          /\ lijstp' = dup.Lines
          /\ UNCHANGED <<stack, lijst, line, errors>>

\* RepeatStack.pop() takes the top entry, whichever it is.
EndRepeat(kinds) ==
  /\ RepeatStack' = Pop(RepeatStack) /\ stack' = Pop(stack)
  /\ lijstp' = Top.saved /\ lijst' = lijst - 1
  /\ Show(kinds) /\ UNCHANGED line

\* shouldRepeat: the condition of a WHILE may have any value each time
shouldRepeat ==
  IF dup.RepeatCount <= 0
  THEN EndRepeat(IF dup.isWhile THEN {"infinite loop"} ELSE {})
  ELSE Repeat \/ (dup.isWhile /\ EndRepeat({}))

\* Mutant: lines of the block are read although END was.
EmitDupAfterEnd ==
  /\ TopIs("dup") /\ line = None
  /\ \/ lijstp # << >> /\ NextLine
     \/ lijstp = << >> /\ IsRunning /\ shouldRepeat
     \/ lijstp = << >> /\ ~IsRunning /\ EndRepeat({})
  /\ UNCHANGED <<macros, IsRunning, phase, out, prog>>

\* The loops of dirEDUP
EmitDup ==
  /\ TopIs("dup") /\ line = None
  /\ \/ lijstp # << >> /\ IsRunning /\ NextLine
     \/ lijstp = << >> /\ IsRunning /\ shouldRepeat
     \/ ~IsRunning /\ EndRepeat({})
  /\ UNCHANGED <<macros, IsRunning, phase, out, prog>>

\* Mutant: the loop waits for lijst instead of lijstp.
EmitMacroWhileLijst ==
  /\ TopIs("macro") /\ line = None
  /\ IF lijstp # << >> THEN NextLine ELSE lijst > 0 /\ UNCHANGED <<blocks, line, errors>>
  /\ UNCHANGED <<macros, IsRunning, phase, out, prog>>

\* The loop of CMacroTable::Emit, which does not look at IsRunning
EmitMacro ==
  /\ TopIs("macro") /\ line = None
  /\ IF lijstp # << >>
     THEN NextLine
     ELSE /\ stack' = Pop(stack) /\ lijstp' = Top.saved /\ lijst' = lijst - 1
          /\ UNCHANGED <<RepeatStack, line, errors>>
  /\ UNCHANGED <<macros, IsRunning, phase, out, prog>>

\* PrepareLine while a DUP collects its lines: nested blocks are counted
CollectLine ==
  LET n == Len(RepeatStack)
      entry == Last(RepeatStack)
      Opens == line.op \in {"DUP", "WHILE"}
      Closes == line.op \in {"EDUP", "ENDM"}
  IN  IF Closes /\ entry.Level = 0
      THEN \* dirEDUP: work starts, the EDUP line itself is dropped
           /\ RepeatStack' = [RepeatStack EXCEPT ![n].IsInWork = TRUE]
           /\ stack' = Append(stack, [k |-> "dup", saved |-> lijstp, entry |-> n])
           /\ lijst' = lijst + 1 /\ lijstp' = << >>
      ELSE /\ RepeatStack' = [RepeatStack EXCEPT ![n] =
                [entry EXCEPT !.Lines = Append(@, line),
                              !.Level = IF Opens THEN @ + 1 ELSE IF Closes THEN @ - 1 ELSE @]]
           /\ UNCHANGED <<stack, lijst, lijstp>>

----------------------------------------------------------------------------
(* Conditional blocks *)

IfFrame(val) == [k |-> "if", val |-> val, orVal |-> val, seenElse |-> FALSE, iflevel |-> 0]
SetIf(val, orVal, seenElse) ==
  stack' = [stack EXCEPT ![Len(stack)] =
              [k |-> "if", val |-> val, orVal |-> orVal \/ val,
               seenElse |-> seenElse, iflevel |-> 0]]

\* Mutant: ELSE after a true ELSEIF is assembled too.
EndOfBranchForgetsElseif ==
  LET free == ~Top.val
  IN  CASE line.op = "ENDIF" -> stack' = Pop(stack) /\ UNCHANGED errors
        [] line.op = "ELSE" -> /\ SetIf(free, Top.orVal, TRUE)
                               /\ Show(IF Top.seenElse THEN {"one ELSE only"} ELSE {})
        [] line.op = "ELSEIF" ->
             /\ SetIf(free /\ line.cond = "yes", Top.orVal, Top.seenElse)
             /\ Show(IF free /\ line.cond = "bad" THEN {"syntax error"} ELSE {})

\* dirIfInternal when ReadFile or SkipFile returns a keyword
EndOfBranch ==
  LET free == ~Top.val /\ ~Top.orVal
  IN  CASE line.op = "ENDIF" -> stack' = Pop(stack) /\ UNCHANGED errors
        [] line.op = "ELSE" -> /\ SetIf(free, Top.orVal, TRUE)
                               /\ Show(IF Top.seenElse THEN {"one ELSE only"} ELSE {})
        [] line.op = "ELSEIF" ->
             /\ SetIf(free /\ line.cond = "yes",
                      Top.orVal \/ (free /\ line.cond = "bad"), Top.seenElse)
             /\ Show(IF free /\ line.cond = "bad" THEN {"syntax error"} ELSE {})

IfKeyword == {"ELSE", "ELSEIF", "ENDIF"}

\* A keyword in a branch that ReadFile assembles, unless a DUP collects it
IfBranch ==
  /\ TopIs("if") /\ line # None /\ Top.val /\ ~Collecting /\ line.op \in IfKeyword
  /\ EndOfBranch
  /\ line' = None
  /\ UNCHANGED <<lijst, lijstp, RepeatStack, macros, IsRunning, phase, out, prog>>

\* Mutant: every ENDIF is counted, the one of the block itself too.
SkipFileNestsBelow ==
  /\ TopIs("if") /\ line # None /\ ~Top.val
  /\ LET Nest(n) == /\ stack' = [stack EXCEPT ![Len(stack)].iflevel = @ + n]
                    /\ UNCHANGED <<lijstp, errors>>
     IN  IF line.op = "IF" THEN Nest(1)
         ELSE IF line.op = "ENDIF" THEN Nest(-1)
         ELSE IF line.op \in IfKeyword /\ Top.iflevel = 0 THEN EndOfBranch /\ UNCHANGED lijstp
         ELSE IF line.op = "LUA" THEN MoveSource(After(Source, "ENDLUA")) /\ UNCHANGED errors
         ELSE UNCHANGED <<stack, lijstp, errors>>
  /\ line' = None
  /\ UNCHANGED <<lijst, RepeatStack, macros, IsRunning, phase, out, prog>>

\* SkipFile: nested blocks are counted, LUA blocks are not looked into
SkipFile ==
  /\ TopIs("if") /\ line # None /\ ~Top.val
  /\ LET Nest(n) == /\ stack' = [stack EXCEPT ![Len(stack)].iflevel = @ + n]
                    /\ UNCHANGED <<lijstp, errors>>
     IN  IF line.op = "IF" THEN Nest(1)
         ELSE IF line.op = "ENDIF" /\ Top.iflevel > 0 THEN Nest(-1)
         ELSE IF line.op \in IfKeyword /\ Top.iflevel = 0 THEN EndOfBranch /\ UNCHANGED lijstp
         ELSE IF line.op = "LUA" THEN MoveSource(After(Source, "ENDLUA")) /\ UNCHANGED errors
         ELSE UNCHANGED <<stack, lijstp, errors>>
  /\ line' = None
  /\ UNCHANGED <<lijst, RepeatStack, macros, IsRunning, phase, out, prog>>

----------------------------------------------------------------------------
(* Parsing of a line that is assembled *)

Assembling(ops) ==
  /\ phase = "work" /\ line # None /\ ~Collecting /\ line.op \in ops
  /\ TopIs("if") => Top.val /\ line.op \notin IfKeyword
  /\ line' = None

Collect ==
  /\ phase = "work" /\ line # None /\ Collecting /\ (TopIs("if") => Top.val)
  /\ CollectLine /\ line' = None
  /\ UNCHANGED <<macros, IsRunning, phase, errors, out, prog>>

Ordinary ==
  /\ Assembling({"X"})
  /\ out' = Append(out, line.id)
  /\ UNCHANGED <<blocks, macros, IsRunning, phase, errors, prog>>

dirIF ==
  /\ Assembling({"IF"})
  /\ IF line.cond = "bad"
     THEN Show({"syntax error"}) /\ UNCHANGED stack
     ELSE stack' = Append(stack, IfFrame(line.cond = "yes")) /\ UNCHANGED errors
  /\ UNCHANGED <<lijst, lijstp, RepeatStack, macros, IsRunning, phase, out, prog>>

\* dirELSE, dirELSEIF and dirENDIF: no block is open here.  The DUP block at
\* work is ended early.
StrayKeyword ==
  /\ Assembling(IfKeyword)
  /\ IF RepeatStack = << >>
     THEN Show({"without IF"}) /\ UNCHANGED blocks
     ELSE /\ Show({"without IF", "not nested completely"})
          /\ lijstp' = << >>
          /\ RepeatStack' = [RepeatStack EXCEPT ![Len(RepeatStack)].RepeatCount = 0]
          /\ UNCHANGED <<stack, lijst>>
  /\ UNCHANGED <<macros, IsRunning, phase, out, prog>>

\* The guardian value of a WHILE is one more than what was asked for.  It is
\* counted down to exactly zero: what is below zero by then comes round.
GuardianOf(n) == (n + 1) % IntWidth

\* dirDUP: a negative count opens no block, a negative guardian does.
dirDUP ==
  /\ Assembling({"DUP", "WHILE"})
  /\ \/ /\ line.op = "DUP" /\ line.n < 0
        /\ Show({"repeat value"}) /\ UNCHANGED RepeatStack
     \/ /\ line.op = "DUP" /\ line.n >= 0
        /\ RepeatStack' = Append(RepeatStack, Entry(line.n, FALSE)) /\ UNCHANGED errors
     \/ /\ line.op = "WHILE"
        /\ RepeatStack' = Append(RepeatStack, Entry(GuardianOf(line.n), TRUE))
        /\ UNCHANGED errors
  /\ UNCHANGED <<stack, lijst, lijstp, macros, IsRunning, phase, out, prog>>

\* dirEDUP and dirENDM outside of a DUP that collects, dirENDLUA
StrayEnd ==
  /\ Assembling({"EDUP", "ENDM", "ENDLUA"})
  /\ Show({"end without start"})
  /\ UNCHANGED <<blocks, macros, IsRunning, phase, out, prog>>

\* CMacroTable::Add: the body is read from the file, up to ENDM
AddMacro(name) ==
  LET text == stack[FileFrame].rest
  IN  IF name \in DOMAIN macros
      THEN Show({"duplicate macro"}) /\ UNCHANGED <<stack, macros>>
      ELSE /\ macros' = [n \in DOMAIN macros \cup {name} |->
                           IF n = name THEN Before(text, "ENDM") ELSE macros[n]]
           /\ stack' = [stack EXCEPT ![FileFrame].rest = After(text, "ENDM")]
           /\ Show(IF Find(text, "ENDM") = 0 THEN {"end of macro"} ELSE {})

dirMACRO ==
  /\ Assembling({"MACRO"})
  /\ IF lijst > 0 THEN Show({"macro not allowed here"}) /\ UNCHANGED <<stack, macros>>
                  ELSE AddMacro(line.name)
  /\ UNCHANGED <<lijst, lijstp, RepeatStack, IsRunning, phase, out, prog>>

\* A macro that calls itself without end exhausts the stack of the process.
CallMacro ==
  /\ Assembling({"CALL"})
  /\ \/ /\ line.name \notin DOMAIN macros
        /\ Show({"unrecognized instruction"}) /\ UNCHANGED <<stack, lijst, lijstp, phase>>
     \/ /\ line.name \in DOMAIN macros /\ Len(stack) < StackLimit
        /\ stack' = Append(stack, [k |-> "macro", saved |-> lijstp])
        /\ lijst' = lijst + 1 /\ lijstp' = macros[line.name]
        /\ UNCHANGED <<errors, phase>>
     \/ /\ line.name \in DOMAIN macros /\ Len(stack) >= StackLimit
        /\ phase' = "crash" /\ UNCHANGED <<stack, lijst, lijstp, errors>>
  /\ UNCHANGED <<RepeatStack, macros, IsRunning, out, prog>>

IncludeLevel == Len(SelectSeq(stack, LAMBDA f : f.k = "file")) - 1

\* dirINCLUDE, IncludeFile and the start of OpenFile
dirINCLUDE ==
  /\ Assembling({"INCLUDE"})
  /\ IF IncludeLevel + 1 > MaxIncludeLevel
     THEN Show({"files nested"}) /\ UNCHANGED stack
     ELSE stack' = Append(stack, [k |-> "file", rest |-> prog.inc]) /\ UNCHANGED errors
  /\ UNCHANGED <<lijst, lijstp, RepeatStack, macros, IsRunning, phase, out, prog>>

\* dirLUA: the script is everything up to ENDLUA
dirLUA ==
  /\ Assembling({"LUA"})
  /\ MoveSource(After(Source, "ENDLUA"))
  /\ IF Find(Source, "ENDLUA") = 0
     THEN Show({"end of lua script"}) ELSE UNCHANGED errors
  /\ out' = Append(out, "lua")
  /\ UNCHANGED <<lijst, RepeatStack, macros, IsRunning, phase, prog>>

dirEND ==
  /\ Assembling({"END"})
  /\ IsRunning' = FALSE
  /\ UNCHANGED <<blocks, macros, phase, errors, out, prog>>

ParseLine == \/ Collect \/ Ordinary \/ dirIF \/ StrayKeyword \/ dirDUP \/ StrayEnd
             \/ dirMACRO \/ CallMacro \/ dirINCLUDE \/ dirLUA \/ dirEND

\* main: blocks that are still open at the end of a pass
EndOfPass ==
  /\ phase = "work" /\ stack = << >>
  /\ phase' = "exit" /\ RepeatStack' = << >>
  /\ Show(IF RepeatStack = << >> THEN {} ELSE {"missing EDUP"})
  /\ UNCHANGED <<stack, lijst, lijstp, macros, IsRunning, line, out, prog>>

Done == phase # "work" /\ UNCHANGED vars

Init ==
  /\ prog \in Programs
  /\ stack = <<[k |-> "file", rest |-> prog.main]>>
  /\ lijst = 0 /\ lijstp = << >> /\ RepeatStack = << >> /\ macros = << >>
  /\ IsRunning = TRUE /\ line = None /\ phase = "work" /\ errors = {} /\ out = << >>

Work == \/ ReadBufLine \/ ReadLine \/ EmitDup \/ EmitMacro
        \/ IfBranch \/ SkipFile \/ ParseLine \/ EndOfPass

Next == Work \/ Done

\* The program runs on by itself: only the end of the pass stops it.
Spec == Init /\ [][Next]_vars /\ WF_vars(Work)

----------------------------------------------------------------------------
(* Properties *)

FileFrames == [k : {"file"}, rest : Seq(Lines)]
IfFrames == [k : {"if"}, val : BOOLEAN, orVal : BOOLEAN, seenElse : BOOLEAN, iflevel : Nat]
DupFrames == [k : {"dup"}, saved : Seq(Lines), entry : Nat]
MacroFrames == [k : {"macro"}, saved : Seq(Lines)]
Frames == FileFrames \cup IfFrames \cup DupFrames \cup MacroFrames
Entries == [RepeatCount : Nat, isWhile : BOOLEAN, Lines : Seq(Lines), IsInWork : BOOLEAN,
            Level : Nat, runs : Nat, limit : Nat]

\* Every reading position is at lines of the source, every counter is a count.
TypeOK ==
  /\ prog \in Programs
  /\ stack \in Seq(Frames) /\ RepeatStack \in Seq(Entries)
  /\ lijst \in Nat /\ lijstp \in Seq(Lines)
  /\ DOMAIN macros \subseteq Names /\ macros \in [DOMAIN macros -> Seq(Lines)]
  /\ line \in Lines \cup {None}
  /\ IsRunning \in BOOLEAN /\ phase \in {"work", "exit", "crash"}

\* The outermost loop reads a file, and no line is left when it returns.
FileBelow == IF stack = << >> THEN line = None ELSE stack[1].k = "file"

\* A branch that is assembled counts as the one that was taken.
BranchTaken == \A i \in 1 .. Len(stack) : stack[i].k = "if" /\ stack[i].val => stack[i].orVal

\* dirEDUP keeps a reference to an entry of RepeatStack while it runs any
\* number of lines, and pops an entry that may be another one: still the
\* entry of every running dirEDUP is there, at work, and its own.
DupFramesLive ==
  \A i \in 1 .. Len(stack) : stack[i].k = "dup" =>
    /\ stack[i].entry \in 1 .. Len(RepeatStack) /\ RepeatStack[stack[i].entry].IsInWork
    /\ \A j \in 1 .. i - 1 : stack[j].k = "dup" => stack[j].entry < stack[i].entry

\* Only the innermost block collects lines.
OnlyTopCollects == \A i \in 1 .. Len(RepeatStack) - 1 : RepeatStack[i].IsInWork

\* However badly blocks are nested, ReadLine reads from lijstp exactly while
\* a macro or a DUP is being emitted, and at the end nothing is left over.
Emitters(s) == {i \in 1 .. Len(s) : s[i].k \in {"dup", "macro"}}
LijstIsBalanced == lijst = Cardinality(Emitters(stack))

\* Iterations are counted, unless a misplaced keyword has cut a block short.
IterationsAreCounted ==
  \A i \in 1 .. Len(RepeatStack) :
    LET e == RepeatStack[i]
    IN  /\ e.runs + e.RepeatCount <= e.limit
        /\ e.runs + e.RepeatCount = e.limit \/ "not nested completely" \in errors

\* Behind END only the loop of CMacroTable::Emit reads a line.
InMacro == \E i \in 1 .. Len(stack) : stack[i].k = "macro"
OnlyMacrosReadOn == ~IsRunning /\ line # None => InMacro

\* What holds between any two steps of the reading loops.
IInv == /\ TypeOK /\ FileBelow /\ BranchTaken /\ DupFramesLive /\ OnlyTopCollects
        /\ LijstIsBalanced /\ IterationsAreCounted /\ OnlyMacrosReadOn

\* A WHILE is stopped after one more iteration than its guardian allows.  A
\* guardian below -1 counts as an unsigned int: it allows nearly IntWidth.
WhileIsBounded ==
  \A i \in 1 .. Len(RepeatStack) :
    RepeatStack[i].isWhile => RepeatStack[i].runs <= RepeatStack[i].limit

\* END: "The assembler will stop at this point", in conditional and repeated
\* blocks, too; only the lines of a macro around it still come.  A WHILE that
\* does not end is stopped by its guardian, and "infinite loop? (reaching the
\* guardian value, default 100k)" is shown for no other, except for one that a
\* misplaced ELSE or ENDIF has ended.
StopsInTime ==
  [][ /\ ~IsRunning /\ ~InMacro => out' = out
      /\ WhileIsBounded'
      /\ "infinite loop" \in errors' \ errors =>
           dup.runs = dup.limit \/ "not nested completely" \in errors ]_vars

\* Every pass over every source ends: the loops that share lijstp and the
\* RepeatStack never wait for each other.
Termination == <>(phase # "work")

=============================================================================
