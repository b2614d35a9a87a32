---------------------------- MODULE MCRelocTable ----------------------------
(* Small sets of source lines for RelocTable *)
EXTENDS RelocTable

Start(h, p) == [op |-> "START", high |-> h, in |-> p]
Op(o, p) == [op |-> o, in |-> p]
Disp(a, p) == [op |-> "DISP", addr |-> a, in |-> p]
Word(e, p) == [op |-> "DW", expr |-> e, in |-> p]
Byte(e, p) == [op |-> "DB", expr |-> e, in |-> p]

\* Lines that are the same in every pass, and lines that appear late or
\* disappear, but none that is there in pass 2 only.
ChangingLines == {Start(FALSE, Passes), Start(TRUE, Passes), Op("END", Passes),
                  Op("TABLE", Passes), Disp(20, Passes), Op("ENT", Passes),
                  Word("label", Passes), Word("unstable", Passes), Byte("high", Passes),
                  Word("label", {2, 3}), Word("label", {3}), Word("label", {1})}
=============================================================================
