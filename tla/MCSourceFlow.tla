---------------------------- MODULE MCSourceFlow ----------------------------
(***************************************************************************)
(* Programs for SourceFlow.  Some are arbitrary lines; others are written  *)
(* down from a tree of blocks, and the tree tells what they should mean.   *)
(***************************************************************************)
EXTENDS SourceFlow

Op(o) == [op |-> o]
X(i) == [op |-> "X", id |-> i]
If(c) == [op |-> "IF", cond |-> c]
Elseif(c) == [op |-> "ELSEIF", cond |-> c]
Dup(n) == [op |-> "DUP", n |-> n]
While(n) == [op |-> "WHILE", n |-> n]
Macro(m) == [op |-> "MACRO", name |-> m]
Call(m) == [op |-> "CALL", name |-> m]

(* Arbitrary programs *)

\* A shorter program is one that ends with ordinary lines.
Include == <<X(8), Op("ENDIF")>>
Texts(lines, n) == [main : [1 .. n -> lines], inc : {Include}]

\* Blocks that are not nested, in a file and across the end of a macro; some
\* begin with the definition of a macro.
BlockLines == {X(1), If("yes"), Op("ELSE"), Op("ENDIF"), Dup(2), Op("EDUP")}
BrokenPrograms ==
  {[main |-> head \o text, inc |-> Include] :
     head \in {<< >>, <<Macro("m")>>},
     text \in [1 .. 5 -> BlockLines \cup {Op("ENDM"), Call("m")}]}

ConditionPrograms ==
  Texts({X(1), If("yes"), If("no"), If("bad"), Elseif("yes"), Elseif("bad"), Op("ELSE"),
         Op("ENDIF"), Op("LUA"), Op("ENDLUA"), Op("INCLUDE"), Op("END")}, 4)

WhilePrograms ==
  Texts({X(1), While(1), Op("EDUP"), Dup(1), Op("END"), If("no"), Op("ELSE")}, 5)

\* Counts below zero: a DUP without a block, a WHILE that counts round
GuardianPrograms ==
  Texts({X(1), While(-2), While(-1), Dup(-1), Op("EDUP"), Op("END")}, 4)

\* END inside of a macro
EndInMacroPrograms ==
  {[main |-> <<Macro("m"), Op("END"), X(7), Op("ENDM")>> \o text, inc |-> Include] :
     text \in [1 .. 3 -> BlockLines \cup {Call("m")}]}

(* Programs written down from blocks *)

\* A branch is <<condition, body>>; the last branch of a block may be an ELSE.
IfNode(branches, else) == [t |-> "if", branches |-> branches, else |-> else]
DupNode(n, body) == [t |-> "dup", n |-> n, body |-> body]
Leaf(l) == [t |-> "leaf", line |-> l]
Lua == [t |-> "lua"]

RECURSIVE Text(_)
Text(body) ==
  LET Node(d) ==
        CASE d.t = "leaf" -> <<d.line>>
          [] d.t = "lua" -> <<Op("LUA"), If("yes"), Op("ENDLUA")>>
          [] d.t = "dup" -> <<Dup(d.n)>> \o Text(d.body) \o <<Op("EDUP")>>
          [] d.t = "if" ->
               FlattenSeq([i \in DOMAIN d.branches |->
                 <<IF i = 1 THEN If(d.branches[i][1]) ELSE Elseif(d.branches[i][1])>>
                   \o Text(d.branches[i][2])])
               \o (IF d.else = << >> THEN << >> ELSE <<Op("ELSE")>> \o Text(d.else))
               \o <<Op("ENDIF")>>
  IN  FlattenSeq([i \in DOMAIN body |-> Node(body[i])])

\* What a body assembles to, given what the macro and the included file do.
RECURSIVE Meaning(_, _, _)
Meaning(body, macro, inc) ==
  LET Node(d) ==
        CASE d.t = "leaf" -> (CASE d.line.op = "X" -> <<d.line.id>>
                                [] d.line.op = "CALL" -> macro
                                [] d.line.op = "INCLUDE" -> inc)
          [] d.t = "lua" -> <<"lua">>
          [] d.t = "dup" -> FlattenSeq([i \in 1 .. d.n |-> Meaning(d.body, macro, inc)])
          [] d.t = "if" ->
               LET true == SelectInSeq(d.branches, LAMBDA b : b[1] = "yes")
               IN  Meaning(IF true = 0 THEN d.else ELSE d.branches[true][2], macro, inc)
  IN  FlattenSeq([i \in DOMAIN body |-> Node(body[i])])

Program(macro, main, inc) ==
  [main |-> <<Macro("m")>> \o Text(macro) \o <<Op("ENDM")>> \o Text(main),
   inc |-> Text(inc),
   means |-> LET m == Meaning(macro, << >>, << >>)
             IN  Meaning(main, m, Meaning(inc, m, << >>))]

L(i) == Leaf(X(i))
M == Leaf(Call("m"))
Conds == {"yes", "no"}

Ifs == {IfNode(<< <<c, <<L(1)>> >> >>, e) : c \in Conds, e \in {<< >>, <<L(2)>>}}
       \cup {IfNode(<< <<c, <<Lua, M>> >>, <<d, <<L(3)>> >> >>, <<L(4)>>) :
               c \in Conds, d \in Conds}
Dups == {DupNode(n, b) : n \in 0 .. 2, b \in {<<L(5)>>, <<M, Lua>>}}
Inner == Ifs \cup Dups
Outer == {DupNode(2, <<a, b>>) : a \in Inner, b \in Inner}
         \cup {IfNode(<< <<c, <<a>> >>, <<d, <<b, L(6)>> >> >>, <<a>>) :
                 a \in Inner, b \in Inner, c \in Conds, d \in Conds}

NestedPrograms ==
  {Program(m, <<d>>, <<>>) :
     m \in {<<L(7)>>} \cup {<<d, L(7)>> : d \in {DupNode(2, <<L(5)>>),
                                IfNode(<< <<"no", <<L(1)>> >> >>, <<L(2)>>)}},
     d \in Outer}
  \cup {Program(<<L(7)>>, <<Leaf(Op("INCLUDE")), d>>, <<d, M>>) : d \in Inner}

\* A source whose blocks are nested completely is assembled without an error
\* into what its blocks mean: conditional blocks, repeated blocks, macros,
\* scripts and included files in each other.
ExpandsAsWritten ==
  phase = "exit" /\ "means" \in DOMAIN prog => errors = {} /\ out = prog.means

\* What the blocks mean, and how END and WHILE end them.
EndingPrograms ==
  NestedPrograms \cup ConditionPrograms \cup WhilePrograms \cup GuardianPrograms
    \cup EndInMacroPrograms

(* Accepted programs *)

\* The text from line i on read as blocks: what it assembles to, and the line
\* that ends it.  Line 0 stands for text that is not nested properly.
Opened(text, i) == IF i <= Len(text) THEN text[i].op ELSE "eof"
Ill == [out |-> << >>, at |-> 0]

\* The ENDIF that belongs to an ELSE before line i, or 0.
RECURSIVE EndOfElse(_, _, _)
EndOfElse(text, i, level) ==
  CASE Opened(text, i) = "eof" -> 0
    [] Opened(text, i) = "ELSE" /\ level = 0 -> 0
    [] Opened(text, i) = "ENDIF" /\ level = 0 -> i
    [] Opened(text, i) = "ENDIF" /\ level > 0 -> EndOfElse(text, i + 1, level - 1)
    [] Opened(text, i) = "IF" -> EndOfElse(text, i + 1, level + 1)
    [] OTHER -> EndOfElse(text, i + 1, level)

RECURSIVE Blocks(_, _)
Blocks(text, i) ==
  LET Then(o, k) == IF k = 0 THEN Ill
                    ELSE LET r == Blocks(text, k) IN [out |-> o \o r.out, at |-> r.at]
      b == Blocks(text, i + 1)
      ends == Opened(text, b.at)
  IN  CASE Opened(text, i) \in {"eof", "ELSE", "ENDIF", "EDUP"} -> [out |-> << >>, at |-> i]
        [] Opened(text, i) = "X" -> Then(<<text[i].id>>, i + 1)
        [] Opened(text, i) = "DUP" ->
             IF b.at = 0 \/ ends # "EDUP" THEN Ill ELSE Then(b.out \o b.out, b.at + 1)
        [] Opened(text, i) = "IF" ->
             IF b.at = 0 THEN Ill
             ELSE CASE ends = "ENDIF" -> Then(b.out, b.at + 1)
                    [] ends = "ELSE" ->
                         LET e == EndOfElse(text, b.at + 1, 0)
                         IN  IF e = 0 THEN Ill ELSE Then(b.out, e + 1)
                    [] OTHER -> Ill

OnlyBlocks(text) == \A i \in 1 .. Len(text) : text[i] \in BlockLines

\* A source of IF (true), ELSE, ENDIF, DUP 2 and EDUP lines in any order is
\* assembled without an error only if its blocks are nested completely, and
\* then to what they mean: no misplaced keyword goes unnoticed, although
\* RepeatStack collects them before the conditional block looks at them.
AcceptedIsNested ==
  phase = "exit" /\ errors = {} /\ OnlyBlocks(prog.main) =>
    LET r == Blocks(prog.main, 1) IN r.at = Len(prog.main) + 1 /\ out = r.out

\* Both ways: nested sources mean their blocks, and only nested ones are accepted.
FlowIsLexical == ExpandsAsWritten /\ AcceptedIsNested

FlowPrograms == EndingPrograms \cup BrokenPrograms
=============================================================================
