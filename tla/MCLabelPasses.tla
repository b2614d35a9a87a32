--------------------------- MODULE MCLabelPasses ---------------------------
(* Small programs for LabelPasses *)
EXTENDS LabelPasses

val(n) == [kind |-> "const", n |-> n]
here == [kind |-> "here"]
ref(l, n) == [kind |-> "label", name |-> l, n |-> n]

always == [if |-> "ALWAYS"]
when(c, l) == [if |-> c, name |-> l]

line(c, s) == [cond |-> c, stmt |-> s]
label(l) == [op |-> "LABEL", name |-> l]
equ(l, e) == [op |-> "EQU", name |-> l, expr |-> e]
defl(l, e) == [op |-> "DEFL", name |-> l, expr |-> e]
dw(e) == [op |-> "DW", expr |-> e]
ds(e) == [op |-> "DS", expr |-> e]

\* Values that depend on each other and on the size of the code, and lines that
\* are there in some passes only.
DependentLines == {line(always, label("a")), line(always, label("b")),
                   line(always, equ("a", ref("b", 0))), line(always, equ("b", ref("a", 1))),
                   line(always, equ("b", here)), line(always, defl("c", ref("a", 1))),
                   line(always, defl("c", ref("c", 1))), line(always, defl("a", val(1))),
                   line(always, dw(ref("a", 0))), line(always, dw(ref("c", 0))),
                   line(always, ds(ref("b", 0))),
                   line(when("IF", "b"), equ("a", val(1))),
                   line(when("IFN", "a"), dw(ref("b", 0))),
                   line(when("EXIST", "b"), dw(ref("a", 0))),
                   line(when("EXIST", "a"), label("b")),
                   line(when("IFUSED", "b"), equ("a", val(2))),
                   line(when("IFUSED", "a"), dw(ref("b", 0))),
                   line(when("IFNUSED", "b"), label("a"))}
=============================================================================
