------------------------------ MODULE SourcePositions ------------------------------
(***************************************************************************)
(* Where a message, a trace of the source level debugging data or a script of  *)
(* Lua is in the source: the stack of positions that files, macros and the      *)
(* functions bound to Lua push and pop, with lines split by colons, #line,      *)
(* scripts that call functions of earlier scripts, and scripts that assemble    *)
(* lines which run scripts again.                                            *)
(*                                                                         *)
(* A text is a sequence of lines [op, a, n, sub, colon]: op says what the line   *)
(* is, a is a name, n a number, sub what is inside of it (none or one line),     *)
(* colon that the next one is on the same line of the file.                    *)
(***************************************************************************)
EXTENDS Integers, Sequences, SequencesExt, FiniteSets

CONSTANTS
  Programs,         \* bound: [files: name -> text]; "base" is read in each pass
  MaxIncludeLevel,  \* 20 in the code
  SegmentWidth      \* columns of a statement and its colon

ASSUME PositionsAssumption == MaxIncludeLevel \in Nat /\ SegmentWidth \in Nat \ {0}

VARIABLES
  prog,    \* the files
  pass,
  frames,  \* what is running, the innermost last
  ps       \* the globals: see PosStart

posVars == <<prog, pass, frames, ps>>

LastPass == 3
Pos(f, l) == [f |-> f, l |-> l, b |-> 0, e |-> 0]
NoPos  == Pos("", 0)
NoLine == <<"", 0>>
Top(s) == s[Len(s)]
Get(f, x, default) == IF x \in DOMAIN f THEN f[x] ELSE default
Set1(f, x, v) == [y \in DOMAIN f \cup {x} |-> IF y = x THEN v ELSE f[y]]

\* A line of a body: where it is in the text, its stored position, its number in a script
Body(f) == [i \in DOMAIN prog.files[f] |-> [x |-> prog.files[f][i], id |-> <<f, i>>, source |-> NoPos, l |-> i]]

\* A frame: a file, a macro, a function of Lua, or a function of C that Lua called and
\* that assembles a line.  n positions were pushed, keep is the line to restore.
NoChunk == [inlined |-> FALSE, n |-> 0, f |-> ""]
Frame(k, body, keep) ==
  [k |-> k, body |-> body, i |-> 0, keep |-> keep, chunk |-> NoChunk, mode |-> "", n |-> 0]

-----------------------------------------------------------------------------
(* Positions.                                                              *)

\* mutant: every part of a line is a line
nextSegment_lines(p, colon) ==
  [p EXCEPT !.l = @ + 1, !.b = IF colon /\ p.e = 0 THEN 1 ELSE p.e, !.e = IF colon THEN @ + SegmentWidth ELSE 0]

\* TextFilePos::nextSegment
nextSegment(p, colon) ==
  LET end == IF colon /\ p.e = 0 THEN 1 ELSE p.e
  IN  [p EXCEPT !.b = end, !.l = IF end <= 1 THEN @ + 1 ELSE @, !.e = IF colon THEN end + SegmentWidth ELSE 0]

\* ReadLine: the position after k more lines of a file or a macro
PosAfter(s, fr, k) ==
  IF fr.k = "file"
  THEN FoldLeft(nextSegment, Top(s.pos), [j \in 1..k |-> fr.body[fr.i + j].x.colon])
  ELSE fr.body[fr.i + k].source
ReadLine(s, fr, k) ==
  [s EXCEPT !.pos = Append(Front(@), PosAfter(s, fr, k)), !.line = fr.body[fr.i + k].id]

\* The lines up to the end of a block, as CStringsList or the buffer of a script keep them
BlockLength(fr, end) ==
  CHOOSE k \in 1..(Len(fr.body) - fr.i) :
    /\ fr.body[fr.i + k].x.op = end
    /\ \A j \in 1..(k - 1) : fr.body[fr.i + j].x.op # end
Block(s, fr, n) ==
  [k \in 1..(n - 1) |-> [fr.body[fr.i + k] EXCEPT !.source = PosAfter(s, fr, k), !.l = k]]

-----------------------------------------------------------------------------
(* Lua on the stack.                                                       *)

binding_script_name == "lua_sjasm.cpp"

\* isInlinedScript: an inlined script is found by its number, a file by its name.
LuaPos(s, chunk, l) ==
  IF chunk.inlined THEN [s.origin[chunk.n + 1] EXCEPT !.l = @ + l] ELSE Pos(chunk.f, l)

\* addLuaSourcePositions: every level above the called function; the script that wraps
\* a binding is hidden behind the one that called it.
addLuaSourcePositions(s, fs, wrapped) ==
  LET levels == SelectSeq(Reverse(fs), LAMBDA f : f.k \in {"lua", "C"})
      known  == [i \in DOMAIN levels |-> IF levels[i].k = "C" THEN Pos("[C]", -1)
                                         ELSE LuaPos(s, levels[i].chunk, levels[i].body[levels[i].i].l)]
      luaPosTemp == (IF wrapped THEN <<Pos(binding_script_name, 1)>> ELSE <<>>) \o known
      hide_binding == Len(luaPosTemp) >= 2 /\ luaPosTemp[1].f = binding_script_name
  IN  Reverse(IF hide_binding THEN Tail(luaPosTemp) ELSE luaPosTemp)

-----------------------------------------------------------------------------
(* Messages and traces.  What the text says is kept beside what is told.      *)

LineOf(fr) == fr.body[fr.i].id
Texts(fs) == SelectSeq(fs, LAMBDA f : f.k # "C")
Files(fs) == SelectSeq(fs, LAMBDA f : f.k = "file")
Truth(fs) == [line  |-> LineOf(Top(Texts(fs))), lua |-> Top(Texts(fs)).k = "lua",
              outer |-> {LineOf(Texts(fs)[i]) : i \in 1..(Len(Texts(fs)) - 1)},
              file  |-> LineOf(Top(Files(fs)))]

\* TextFilePos::operator==
SamePos(p, q) == p.f = q.f /\ p.l = q.l

\* initErrorLine
Message(s, fs) ==
  LET n == Len(s.pos)
      p == IF SamePos(s.pos[n - 1], s.skip) /\ n > 2 THEN n - 2 ELSE n - 1
      other == /\ (IF s.level + 1 > 1 THEN s.level + 1 ELSE 1) < n
               /\ ~SamePos(s.pos[p], s.skip) /\ ~SamePos(s.pos[p], Top(s.pos))
  IN  [s EXCEPT !.msg = [top |-> Top(s.pos), from |-> IF other THEN s.pos[p] ELSE NoPos, truth |-> Truth(fs)]]

\* WriteToSldFile
WriteToSldFile(s, fs) ==
  LET outside_source == Len(s.pos) <= s.level
      has_def_pos == ~outside_source /\ s.level + 1 < Len(s.pos)
      emitting == IF outside_source THEN Top(s.pos) ELSE s.pos[s.level + 1]
  IN  IF pass # LastPass THEN s
      ELSE [s EXCEPT !.sld = [cur |-> IF s.swap <= 0 THEN emitting ELSE Top(s.pos),
                              def |-> IF ~has_def_pos THEN NoPos ELSE IF s.swap <= 0 THEN Top(s.pos) ELSE emitting,
                              swapped |-> s.swap > 0, truth |-> Truth(fs)]]

\* EmitByte at the start of an instruction
EmitInstruction(s, fs) == [WriteToSldFile(s, fs) EXCEPT !.emitted = TRUE]

-----------------------------------------------------------------------------
(* Lines of the assembler.  An operator gives [s, fs].                       *)

Result(s, fs) == [s |-> s, fs |-> fs]

\* OpenFile
OpenFile(s, fs, f) ==
  IF s.level + 1 > MaxIncludeLevel THEN Result(Message(s, fs), fs)
  ELSE Result([s EXCEPT !.level = @ + 1, !.pos = Append(@, Pos(f, 0))], Append(fs, [Frame("file", Body(f), s.line) EXCEPT !.n = s.swap]))

\* CMacroTable::Emit
EmitMacro(s, fs, m) ==
  IF m \notin DOMAIN s.macros THEN Result(Message(s, fs), fs)
  ELSE Result([s EXCEPT !.pos = Append(@, NoPos)], Append(fs, [Frame("macro", s.macros[m], s.line) EXCEPT !.n = s.swap]))

InMacro(fs) == \E i \in DOMAIN fs : fs[i].k = "macro"
Advance(fs, n) == [fs EXCEPT ![Len(fs)].i = @ + n]

\* CMacroTable::Add
AddMacro(s, fs, m) ==
  IF InMacro(fs) THEN Result(Message(s, fs), fs)
  ELSE LET fr == Top(fs)
           n  == BlockLength(fr, "endm")
       IN  Result([ReadLine(s, fr, n) EXCEPT !.macros = Set1(@, m, Block(s, fr, n))], Advance(fs, n))

\* ParseCppLineDirective
ParseCppLineDirective(s, fs, x) ==
  Result(IF InMacro(fs) \/ s.prefix THEN Message(s, fs)
         ELSE [s EXCEPT !.pos[Len(s.pos)] = Pos(IF x.a = "" THEN @.f ELSE x.a, x.n - 1)], fs)

\* dirLUA: up to ENDLUA is read, in every pass; the script is known by its number.
dirLUA(s, fs, mode) ==
  LET fr == Top(fs)
      n  == BlockLength(fr, "endlua")
      read == ReadLine(s, fr, n)
      s1 == [read EXCEPT !.skip = Top(read.pos)]
      execute == mode = "allpass" \/ (mode = "pass1" /\ pass = 1) \/ (mode = "pass3" /\ pass = LastPass)
      chunk == [inlined |-> TRUE, n |-> Len(s.origin), f |-> ""]
  IN  IF ~execute THEN Result(s1, Advance(fs, n))
      ELSE Result([s1 EXCEPT !.prefix = TRUE, !.emitted = FALSE, !.origin = Append(@, Top(s.pos))],
                  Append(Advance(fs, n), [Frame("lua", Block(s, fr, n), s1.line) EXCEPT !.chunk = chunk, !.mode = mode]))

\* dirINCLUDELUA: only in the first pass
dirINCLUDELUA(s, fs, f) ==
  IF pass # 1 THEN Result(s, fs)
  ELSE Result([s EXCEPT !.prefix = TRUE],
              Append(fs, [Frame("lua", Body(f), s.line) EXCEPT !.chunk = [NoChunk EXCEPT !.f = f], !.mode = "file"]))

Assemble(x, s, fs) ==
  CASE x.op = "instruction" -> Result(EmitInstruction(s, fs), fs)
    [] x.op = "wrong"       -> Result(Message(s, fs), fs)
    [] x.op = "swapon"      -> Result([s EXCEPT !.swap = @ + 1], fs)
    [] x.op = "swapoff"     -> Result([s EXCEPT !.swap = @ - 1], fs)
    [] x.op = "include"     -> OpenFile(s, fs, x.a)
    [] x.op = "call"        -> EmitMacro(s, fs, x.a)
    [] x.op = "macro"       -> AddMacro(s, fs, x.a)
    [] x.op = "line"        -> ParseCppLineDirective(s, fs, x)
    [] x.op = "lua"         -> dirLUA(s, fs, x.a)
    [] x.op = "includelua"  -> dirINCLUDELUA(s, fs, x.a)

-----------------------------------------------------------------------------
(* Steps.                                                                  *)

Become(r) == ps' = r.s /\ frames' = r.fs /\ UNCHANGED <<prog, pass>>
Active == frames # <<>>
Innermost == Top(frames)
AtEnd == Innermost.i = Len(Innermost.body)

ParseSourceLine ==
  /\ Active /\ Innermost.k \in {"file", "macro"} /\ ~AtEnd
  /\ Become(Assemble(Innermost.body[Innermost.i + 1].x, ReadLine(ps, Innermost, 1), Advance(frames, 1)))

\* The end of OpenFile and of CMacroTable::Emit; both warn when the swap is not undone.
EndFile ==
  /\ Active /\ Innermost.k = "file" /\ AtEnd
  /\ LET told == IF ps.swap # Innermost.n /\ ps.level > 0 THEN Message(ps, frames) ELSE ps
     IN  Become(Result([told EXCEPT !.level = @ - 1, !.pos = Front(@), !.line = NoLine], Front(frames)))

EndMacro ==
  /\ Active /\ Innermost.k = "macro" /\ AtEnd
  /\ LET told == IF ps.swap # Innermost.n THEN Message(ps, frames) ELSE ps
     IN  Become(Result([told EXCEPT !.pos = Front(@), !.line = Innermost.keep], Front(frames)))

\* A function bound to Lua that tells something, or not, or emits a byte
Binding(s, fs, x, tells) ==
  LET added == addLuaSourcePositions(s, fs, x.op = "warning")
      s1 == [s EXCEPT !.pos = @ \o added]
      s2 == CASE x.op = "warning" -> Message(s1, fs)
              [] x.op = "byte"    -> [s1 EXCEPT !.emitted = TRUE]
              [] x.op = "ask"     -> IF tells THEN Message(s1, fs) ELSE s1
  IN  [s2 EXCEPT !.pos = SubSeq(@, 1, Len(@) - Len(added))]

CallBinding ==
  /\ Active /\ Innermost.k = "lua" /\ ~AtEnd
  /\ LET fs == Advance(frames, 1)
         x  == Innermost.body[Innermost.i + 1].x
     IN  /\ x.op \in {"warning", "byte", "ask"}
         /\ \E tells \in BOOLEAN : Become(Result(Binding(ps, fs, x, tells), fs))

\* parse_line: the line is assembled with the positions of the script on the stack.
parse_line ==
  /\ Active /\ Innermost.k = "lua" /\ ~AtEnd
  /\ LET fs == Advance(frames, 1)
         x  == Innermost.body[Innermost.i + 1].x
         added == addLuaSourcePositions(ps, fs, FALSE)
     IN  /\ x.op = "_pc"
         /\ Become(Assemble(x.sub[1], [ps EXCEPT !.pos = @ \o added, !.line = NoLine],
                            Append(fs, [Frame("C", <<>>, ps.line) EXCEPT !.n = Len(added)])))

\* The end of parse_line: removeLuaSourcePositions, and the line of the source again
EndOfLine ==
  /\ Active /\ Innermost.k = "C"
  /\ Become(Result([ps EXCEPT !.pos = SubSeq(@, 1, Len(@) - Innermost.n), !.line = Innermost.keep], Front(frames)))

\* A function of Lua is defined by a script, on one line, and called by this or a later one.
DefineFunction ==
  /\ Active /\ Innermost.k = "lua" /\ ~AtEnd
  /\ LET b == Innermost.body[Innermost.i + 1]
     IN  /\ b.x.op = "function"
         /\ Become(Result([ps EXCEPT !.funcs = Set1(@, b.x.a, [chunk |-> Innermost.chunk, l |-> b.l, id |-> b.id, x |-> b.x.sub[1]])],
                          Advance(frames, 1)))

CallFunction ==
  /\ Active /\ Innermost.k = "lua" /\ ~AtEnd
  /\ LET b == Innermost.body[Innermost.i + 1]
         f == ps.funcs[b.x.a]
     IN  /\ b.x.op = "do" /\ b.x.a \in DOMAIN ps.funcs
         /\ Become(Result(ps, Append(Advance(frames, 1),
              [Frame("lua", <<[x |-> f.x, id |-> f.id, source |-> NoPos, l |-> f.l]>>, ps.line) EXCEPT !.chunk = f.chunk])))

\* mutant: the error of a function is looked for in the script that called it
ScriptOf_caller(fs) ==
  LET base == CHOOSE i \in DOMAIN fs : fs[i].mode # "" /\ \A j \in (i + 1)..Len(fs) : fs[j].mode = ""
  IN  [chunk |-> fs[base].chunk, l |-> Top(fs).body[Top(fs).i].l]

\* The script and line in the text of an error of Lua
ScriptOf(fs) == [chunk |-> Top(fs).chunk, l |-> Top(fs).body[Top(fs).i].l]

\* An error of Lua ends the script: lua_impl_splitLuaErrorMessage, lua_impl_showLoadError
LuaError ==
  /\ Active /\ Innermost.k = "lua" /\ ~AtEnd
  /\ LET x  == Innermost.body[Innermost.i + 1].x
         fs == Advance(frames, 1)
         base == CHOOSE i \in DOMAIN fs : fs[i].mode # "" /\ \A j \in (i + 1)..Len(fs) : fs[j].mode = ""
         at == ScriptOf(fs)
         told == Message([ps EXCEPT !.pos = Append(@, LuaPos(ps, at.chunk, at.l))], fs)
     IN  /\ x.op = "raise" \/ (x.op = "do" /\ x.a \notin DOMAIN ps.funcs)
         /\ Become(Result([told EXCEPT !.pos = ps.pos],
                          Append(SubSeq(fs, 1, base - 1), [fs[base] EXCEPT !.i = Len(fs[base].body)])))

EndFunction ==
  /\ Active /\ Innermost.k = "lua" /\ AtEnd /\ Innermost.mode = ""
  /\ Become(Result(ps, Front(frames)))

\* The end of dirLUA or dirINCLUDELUA; code of a script that is not ALLPASS is warned about.
EndScript ==
  /\ Active /\ Innermost.k = "lua" /\ AtEnd /\ Innermost.mode # ""
  /\ LET s1 == [ps EXCEPT !.prefix = FALSE]
         fs == Front(frames)
     IN  Become(Result(IF Innermost.mode = "file" THEN s1
                       ELSE [(IF ps.emitted /\ Innermost.mode # "allpass" THEN Message(s1, fs) ELSE s1)
                             EXCEPT !.emitted = FALSE], fs))

NoTruth   == [line |-> NoLine, lua |-> FALSE, outer |-> {}, file |-> NoLine]
NoMessage == [top |-> NoPos, from |-> NoPos, truth |-> NoTruth]
NoTrace   == [cur |-> NoPos, def |-> NoPos, swapped |-> FALSE, truth |-> NoTruth]

\* The globals: sourcePosStack, IncludeLevel, sldSwapSrcPos, scripts_origin, the functions
\* of Lua, the macros, skipEmitMessagePos, someByteEmitted, extraErrorWarningPrefix, line;
\* and the last message and trace.
PosStart ==
  [pos |-> <<>>, level |-> -1, swap |-> 0, origin |-> <<Pos(binding_script_name, 0)>>, funcs |-> <<>>,
   macros |-> <<>>, skip |-> NoPos, emitted |-> FALSE, prefix |-> FALSE, line |-> NoLine,
   msg |-> NoMessage, sld |-> NoTrace]

PosInit == prog \in Programs /\ pass = 0 /\ frames = <<>> /\ ps = PosStart

\* InitPass; the state of Lua and the list of the scripts stay.
NextPass ==
  /\ ~Active /\ pass < LastPass
  /\ pass' = pass + 1 /\ UNCHANGED prog
  /\ LET r == OpenFile([ps EXCEPT !.swap = 0, !.macros = <<>>, !.emitted = FALSE, !.msg = NoMessage, !.sld = NoTrace], <<>>, "base")
     IN  ps' = r.s /\ frames' = r.fs

PosNext ==
  \/ ParseSourceLine \/ EndFile \/ EndMacro \/ CallBinding \/ parse_line \/ EndOfLine
  \/ DefineFunction \/ CallFunction \/ LuaError \/ EndFunction \/ EndScript \/ NextPass

PosSpec == PosInit /\ [][PosNext]_posVars

-----------------------------------------------------------------------------
(* Where the lines of a text are, by counting.                              *)

Physical(text, i) == Cardinality({j \in 1..i : j = 1 \/ ~text[j - 1].colon})
TruePos(id) ==
  LET text == prog.files[id[1]]
      i    == id[2]
      before == {j \in 1..(i - 1) : text[j].op = "line"}
      last == CHOOSE j \in before : \A k \in before : k <= j
      named == {j \in before : text[j].a # ""}
      fake == CHOOSE j \in named : \A k \in named : k <= j
  IN  [f |-> IF named = {} THEN id[1] ELSE text[fake].a,
       l |-> IF before = {} THEN Physical(text, i)
             ELSE text[last].n + Physical(text, i) - Physical(text, last) - 1]
TrueColumn(id) ==
  LET text == prog.files[id[1]]
      part == Cardinality({j \in 1..(id[2] - 1) : Physical(text, j) = Physical(text, id[2])})
  IN  IF part = 0 /\ ~text[id[2]].colon THEN 0 ELSE 1 + part * SegmentWidth

At(p, id) == p.f = TruePos(id).f /\ p.l = TruePos(id).l

-----------------------------------------------------------------------------
(* Properties.                                                             *)

\* A message names the line of the text that is running, be it in a file behind a #line, in a
\* macro, or in a function of Lua that another script defined in another pass; the
\* line it says this was emitted from is running too; and every step back to a
\* file or macro finds its own position and line again.
PositionsAreTrue ==
  /\ ps.msg # NoMessage =>
       /\ At(ps.msg.top, ps.msg.truth.line)
       /\ ps.msg.from \in {NoPos, Pos("[C]", -1)} \/ \E o \in ps.msg.truth.outer : At(ps.msg.from, o)
  /\ Active /\ Innermost.k \in {"file", "macro"} /\ Innermost.i > 0 /\ Innermost.body[Innermost.i].x.op # "line" =>
       /\ At(Top(ps.pos), LineOf(Innermost))
       /\ ps.line \in {LineOf(Innermost), NoLine}
       /\ ps.line = NoLine => Innermost.body[Innermost.i].x.op = "include"

\* A trace of the debugging data names the line of the file that is read, with its
\* column when the line has several parts, and the line of the macro or script that
\* has the instruction; SLDOPT SWAPON exchanges the two.
SldIsTrue ==
  LET d == ps.sld
      t == d.truth
      source == IF d.swapped /\ d.def # NoPos THEN d.def ELSE d.cur
      inner  == IF d.def = NoPos \/ d.swapped THEN d.cur ELSE d.def
  IN  d # NoTrace =>
        /\ At(source, t.file) /\ source.b = TrueColumn(t.file)
        /\ At(inner, t.line) /\ (~t.lua => inner.b = TrueColumn(t.line))
=============================================================================
