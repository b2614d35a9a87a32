----------------------------- MODULE MCSession -----------------------------
(***************************************************************************)
(* A run of the program, the streams of its last pass, the positions in its    *)
(* sources and the devices they select, on small instances.  They share no     *)
(* state: a behaviour is about one of them.                                  *)
(***************************************************************************)
EXTENDS Session, OutputFiles, SourcePositions, MCDevices

VARIABLE part   \* the component this behaviour is about

mcVars == <<part, sessionVars, outVars, posVars, deviceVars>>

-----------------------------------------------------------------------------
(* Texts for the model of source positions.                                 *)
L(op, a) == [op |-> op, a |-> a, n |-> 0, sub |-> <<>>, colon |-> FALSE]
Holding(op, a, x) == [L(op, a) EXCEPT !.sub = <<x>>]
Colon(x) == [x EXCEPT !.colon = TRUE]
Line(n, f) == [L("line", f) EXCEPT !.n = n]
Ins   == L("instruction", "")
Wrong == L("wrong", "")
Call  == L("call", "m")
Pc(x) == Holding("_pc", "", x)
Fun(x) == Holding("function", "fn", x)
Do    == L("do", "fn")
Script(mode, body) == <<L("lua", mode)>> \o body \o <<L("endlua", "")>>

\* Functions of Lua, defined in the first pass by a file or by a script
MCFunctions == {<<L("includelua", "x")>>} \cup
  {Script("pass1", <<L("byte", ""), Fun(x)>>) : x \in {L("raise", ""), Pc(Ins), Pc(Call)}}
MCScripts ==
  {Script(t[1], t[2]) : t \in {<<"allpass", <<L("ask", ""), Pc(Call)>>>>, <<"pass3", <<Do, L("warning", "")>>>>,
                               <<"allpass", <<Pc(Wrong), Do>>>>, <<"pass3", <<L("byte", ""), Pc(Call), L("raise", "")>>>>}}
MCMacros == {<<Ins, Wrong>>, <<Wrong, L("swapon", ""), Ins, L("swapoff", "")>>, <<Colon(Ins), Wrong, L("swapon", ""), Ins>>}
MCMacrosWithScripts ==
  {<<Wrong>> \o x \o <<Ins>> : x \in {Script("allpass", <<L("warning", ""), Pc(Ins)>>), Script("pass3", <<Do>>)}}
MCItems == {<<Call>>, <<Colon(Ins), Colon(Call), Wrong>>, <<Line(9, "g"), Ins, Line(5, "")>>, <<L("include", "f")>>} \cup MCScripts
MCIncluded == {<<Colon(Wrong), Call>> \o Script("allpass", <<Do>>), <<Line(3, "h"), Ins, Call, L("include", "f")>>}

\* No macro runs a function that calls the macro.
MCPrograms ==
  {[files |-> [base |-> p[1] \o <<L("macro", "m")>> \o p[2] \o <<L("endm", "")>> \o a \o b, f |-> f,
               x |-> <<L("ask", ""), Fun(L("warning", ""))>>]] :
     p \in (MCFunctions \X MCMacros) \cup ({x \in MCFunctions : x[Len(x)].op # "endlua" \/ x[3].sub # <<Pc(Call)>>} \X MCMacrosWithScripts),
     a \in MCItems, b \in MCItems, f \in MCIncluded}

-----------------------------------------------------------------------------
(* Command lines and lines of a run, as events of the session.              *)
MCSeeks == {0, 1, 3}

opt(name) == [opt |-> name, val |-> ""]
with(name, value) == [opt |-> name, val |-> value]
warn(enable, id) == [opt |-> "W", val |-> [enable |-> enable, id |-> id]]
file == opt("file")

MCCommandLines ==
  { <<with("lst", "a"), with("syntax", <<"f">>), file>>,
    <<opt("lr35902"), opt("i8080"), opt("lst"), with("syntax", <<"w">>), opt("cleanonerror"), file>>,
    <<opt("nofakes"), warn(FALSE, "all"), warn(TRUE, "out0"), opt("lst"), opt("-")>> }

\* Other processors and command lines that fail before the first pass, with shorter texts
MCEarlyEnds ==
  { <<with("zxnext", ""), opt("i8080"), with("msg", "lst"), file>>,
    <<opt("i8080"), with("zxnext", "cspect"), file>>, <<opt("lst"), with("lst", "a"), file>>,
    <<with("msg", "lstlab"), opt("lst"), file>>, <<opt("sld"), with("sld", "a"), file>>,
    <<with("msg", "x"), opt("help")>>, <<opt("version")>>, <<with("msg", "x")>>,
    <<with("i", "missing"), opt("i"), file, opt("define"), file, opt("sld"), file>>,
    <<opt("inc"), opt("fullpath"), opt("sym"), opt("i"), opt("reversepop"), opt("x"), opt("dirbol"), opt("define")>>,
    <<with("syntax", <<"F", "a", "b", "B", "i", "M", "s", "l">>), warn(TRUE, ""), warn(TRUE, "none"), file>> }

line(events) == <<<<"line">>>> \o events \o <<<<"end">>>>
optline(commands, options) == line(<<<<"opt", commands, options>>>>)

MCLines ==
  { line(<<<<"emit", 2>>>>),
    line(<<<<"emit", 7>>>>),
    line(<<<<"emit", 1>>, <<"block", 4, 3>>>>),
    line(<<<<"error", "IF_FIRST">>>>),
    line(<<<<"error", "SUPPRESS">>, <<"error", "PASS3">>>>),
    line(<<<<"error", "EARLY">>, <<"error", "IF_FIRST">>>>),
    line(<<<<"warning", "out0", "PASS3", FALSE>>, <<"emit", 1>>>>),
    line(<<<<"warning", "rdlow", "EARLY", TRUE>>, <<"fake", FALSE>>>>),
    line(<<<<"call">>>> \o line(<<<<"emit", 1>>>>) \o line(<<<<"error", "SUPPRESS">>>>)
           \o <<<<"ret">>, <<"error", "IF_FIRST">>>>),
    line(line(<<<<"emit", 1>>>>) \o <<<<"rep">>>>),
    line(<<<<"lua">>, <<"position">>, <<"emit", 1>>, <<"position">>>> \o line(<<<<"emit", 1>>>>)
           \o <<<<"position">>, <<"emit", 1>>, <<"endlua">>>>),
    <<<<"line">>, <<"blank">>>>,
    line(<<<<"dup">>>>),
    optline(<<"push", "listoff">>, <<warn(FALSE, "out0")>>),
    optline(<<"pop">>, <<>>),
    optline(<<"reset", "push", "liston", "listmc">>, <<with("syntax", <<"w">>)>>),
    optline(<<"listact">>, <<with("zxnext", ""), opt("lst")>>),
    optline(<<"listall", "wrong">>, <<>>) }

SessionTexts ==
  \/ args \in MCCommandLines
  \/ Len(text) = 2 /\ args \in MCEarlyEnds

\* Sources of at most three lines
MCMaxLines == 3
MCEventTexts == UNION {{FlattenSeq(t) : t \in [1..n -> MCLines]} : n \in 1..MCMaxLines}

\* The parts a behaviour is not about have one initial state.
MCInit ==
  /\ part \in {"session", "output", "positions", "devices"}
  /\ IF part = "session" THEN SessionInit /\ SessionTexts
     ELSE sj = Start /\ pc = 0 /\ args = <<>> /\ text = <<>>
  /\ OutInit
  /\ IF part = "positions" THEN PosInit ELSE prog = <<>> /\ pass = 0 /\ frames = <<>> /\ ps = PosStart
  /\ IF part = "devices" THEN DevicesInit ELSE devProg = <<>> /\ dv = NoDevices

MCNext ==
  /\ UNCHANGED part
  /\ \/ part = "session"   /\ SessionNext /\ UNCHANGED <<outVars, posVars, deviceVars>>
     \/ part = "output"    /\ OutNext     /\ UNCHANGED <<sessionVars, posVars, deviceVars>>
     \/ part = "positions" /\ PosNext     /\ UNCHANGED <<sessionVars, outVars, deviceVars>>
     \/ part = "devices"   /\ DevicesNext /\ UNCHANGED <<sessionVars, outVars, posVars>>

MCSpec == MCInit /\ [][MCNext]_mcVars

MCAllCommandLines == MCCommandLines \cup MCEarlyEnds

\* Messages and debugging data name the place in the text that is assembled
\* (io_err.cpp, TextFilePos, CDefinitions of macros and Lua chunks).
PlacesAreTrue == PositionsAreTrue /\ SldIsTrue
=============================================================================
