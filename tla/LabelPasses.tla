---------------------------- MODULE LabelPasses ----------------------------
(***************************************************************************)
(* The symbol table over three passes.                                     *)
(*                                                                         *)
(* The table survives from pass to pass.  A label may be read before its   *)
(* definition was met, its value may depend on the size of what precedes   *)
(* it, and IF, IFUSED and EXIST let the values and the used flags decide   *)
(* which lines exist at all.  ParseLabel treats a definition differently   *)
(* in each pass; only the third one emits code.                            *)
(*                                                                         *)
(* A line of a program is one statement under one condition (a line        *)
(* outside of any IF block has the condition "ALWAYS").  No device is      *)
(* selected, so a label has a page as soon as it is defined.  Pass 1 lets   *)
(* the program grow out of the set Lines.                                  *)
(***************************************************************************)
EXTENDS Integers, Sequences

CONSTANTS
    Labels,      \* names
    Lines,       \* source lines a program may consist of
    MaxLines     \* bound: number of lines of a program

LASTPASS == 3

Exprs ==
       [kind : {"const"}, n : Nat]
  \cup [kind : {"here"}]
  \cup [kind : {"label"}, name : Labels, n : Nat]

Conditions ==
       [if : {"ALWAYS"}]
  \cup [if : {"IF", "IFN", "EXIST", "IFUSED", "IFNUSED"}, name : Labels]

Statements ==
       [op : {"LABEL"}, name : Labels]
  \cup [op : {"EQU", "DEFL"}, name : Labels, expr : Exprs]
  \cup [op : {"DW", "DS"}, expr : Exprs]

ASSUME LinesAssumption == /\ Lines \subseteq [cond : Conditions, stmt : Statements]
                          /\ MaxLines \in Nat

VARIABLES
    table,       \* LabelTable
    pass, pc,    \* current pass and line
    phase,       \* "line", "condition", "statement" or "exit"
    CurAddress,
    errors, warnings,   \* kinds of diagnostics shown so far
    prog,        \* the lines read so far
    reads,       \* ghost: label values read in this pass, <<name, value>>
    defs,        \* ghost: definitions met in this pass, <<name, value>>
    code,        \* ghost: what each pass emitted
    starts,      \* ghost: the table each pass started with
    trace        \* ghost: the moments of pass 2

vars == <<table, pass, pc, phase, CurAddress, errors, warnings, prog,
          reads, defs, code, starts, trace>>

\* SLabelTableEntry; "defined" stands for page # LABEL_PAGE_UNDEFINED.
Entries == [present : BOOLEAN, defined : BOOLEAN, value : Int, used : BOOLEAN,
            updatePass : 0 .. LASTPASS, defl : BOOLEAN]

Absent == [present |-> FALSE, defined |-> FALSE, value |-> 0, used |-> FALSE,
           updatePass |-> 0, defl |-> FALSE]

Line == prog[pc]

\* What the rest of a pass depends on.
View(t) == [n \in Labels |-> [present |-> t[n].present, defined |-> t[n].defined,
                              value |-> t[n].value, used |-> t[n].used]]
At(p, ph, adr, view, out) == [pc |-> p, phase |-> ph, adr |-> adr, view |-> view, out |-> out]
Moment == At(pc, phase, CurAddress, View(table), code[pass])
Remember == trace' = IF pass' = 2 THEN trace \cup {Moment'} ELSE trace

----------------------------------------------------------------------------
(* CLabelTable *)

\* A label that is read is marked, or a placeholder for it is inserted.
Marked(e) == [e EXCEPT !.used = e.used \/ pass < LASTPASS]

Placeholder == [present |-> TRUE, defined |-> FALSE, value |-> 0, used |-> TRUE,
                updatePass |-> pass, defl |-> FALSE]

GetLabel(t, n) ==
  [t EXCEPT ![n] = IF t[n].present THEN Marked(t[n]) ELSE Placeholder]

needsUpdate(t, n) == t[n].defl \/ ~t[n].defined \/ t[n].updatePass < pass

\* Mutant: the entry claims to be of the pass to come.
RefreshedAhead(e, value, defl) ==
  [present |-> TRUE, defined |-> TRUE, value |-> value, used |-> e.used,
   updatePass |-> pass + 1, defl |-> defl]

Refreshed(e, value, defl) ==
  [present |-> TRUE, defined |-> TRUE, value |-> value, used |-> e.used,
   updatePass |-> pass, defl |-> defl]

Insert(t, n, value, defl) ==
  IF needsUpdate(t, n) THEN [t EXCEPT ![n] = Refreshed(t[n], value, defl)] ELSE t

Update(t, n, value) == [t EXCEPT ![n].value = value]

----------------------------------------------------------------------------
(* Expressions of at most one label *)

LabelsOf(e) == IF e.kind = "label" THEN {e.name} ELSE {}

\* A label that is not found counts as zero.
ValueOf(e) ==
  CASE e.kind = "const" -> e.n
    [] e.kind = "here" -> CurAddress
    [] OTHER -> table[e.name].value + e.n

IsLabelNotFound(e) == \E n \in LabelsOf(e) : ~table[n].defined

\* The table after the expression was parsed.
AfterParsing(e) == IF e.kind = "label" THEN GetLabel(table, e.name) ELSE table

\* "Label not found" is an IF_FIRST error: the early passes stay silent.
ErrorsOf(e) ==
  IF IsLabelNotFound(e) /\ pass = LASTPASS THEN {"Label not found"} ELSE {}

Read(e) == reads' = reads \cup {<<n, table[n].value>> : n \in LabelsOf(e)}

----------------------------------------------------------------------------
(* Conditions *)

\* The statement is assembled or skipped.
Branch(val) == phase' = IF val THEN "statement" ELSE "line"

Always == /\ phase = "condition" /\ Line.cond.if = "ALWAYS"
          /\ Branch(TRUE)
          /\ UNCHANGED <<table, errors, warnings, reads>>

Asks(e) == [kind |-> "label", name |-> e.name, n |-> 0]

\* dirIF, dirIFN: the label counts as used, a forward reference is a warning
\* of the early passes.
dirIF ==
  /\ phase = "condition" /\ Line.cond.if \in {"IF", "IFN"}
  /\ LET e == Asks(Line.cond)
     IN  /\ table' = AfterParsing(e)
         /\ errors' = errors \cup ErrorsOf(e)
         /\ warnings' = IF IsLabelNotFound(e) /\ pass < LASTPASS
                        THEN warnings \cup {"fwdref"} ELSE warnings
         /\ Read(e)
         /\ Branch((ValueOf(e) # 0) = (Line.cond.if = "IF"))

\* IF EXIST label: LabelExist only searches the table.
IfExist ==
  /\ phase = "condition" /\ Line.cond.if = "EXIST"
  /\ Branch(table[Line.cond.name].defined)
  /\ UNCHANGED <<table, errors, warnings, reads>>

dirIFUSED ==
  /\ phase = "condition" /\ Line.cond.if \in {"IFUSED", "IFNUSED"}
  /\ Branch(table[Line.cond.name].used = (Line.cond.if = "IFUSED"))
  /\ UNCHANGED <<table, errors, warnings, reads>>

Condition == /\ Always \/ dirIF \/ IfExist \/ dirIFUSED
             /\ UNCHANGED <<pass, pc, CurAddress, prog, defs, code, starts>>
             /\ Remember

----------------------------------------------------------------------------
(* ParseLabel: what a definition does to the table t in each pass *)

\* DEFL labels can be defined as late as needed, others before the last pass.
Resolved(t, n, val, defl) == IF defl THEN Insert(t, n, val, TRUE) ELSE t
IsMissing(t, n, defl) == ~defl /\ ~t[n].defined
Drifts(t, n, val, defl) ==
  ~IsMissing(t, n, defl) /\ Resolved(t, n, val, defl)[n].value # val

\* Mutant: a drifting label is reported, the old value stays.
LastPassTableKeepsOld(t, n, val, defl) ==
  IF IsMissing(t, n, defl) THEN t
  ELSE IF Drifts(t, n, val, defl) THEN Resolved(t, n, val, defl)
  ELSE [Resolved(t, n, val, defl) EXCEPT ![n].updatePass = pass]

LastPassTable(t, n, val, defl) ==
  IF IsMissing(t, n, defl) THEN t
  ELSE IF Drifts(t, n, val, defl) THEN Update(Resolved(t, n, val, defl), n, val)
  ELSE [Resolved(t, n, val, defl) EXCEPT ![n].updatePass = pass]

\* A duplicate label is an error of pass 1 only, pass 2 takes the new value.
EarlyPassTable(t, n, val, defl) ==
  IF pass = 2 /\ ~needsUpdate(t, n) THEN Update(t, n, val) ELSE Insert(t, n, val, defl)

LabelErrors(t, n, val, defl) ==
  IF pass = LASTPASS /\ IsMissing(t, n, defl) THEN {"Label not found"}
  ELSE IF pass = 1 /\ ~needsUpdate(t, n) THEN {"Duplicate label"}
  ELSE {}

\* Mutant: the value of pass 2 is trusted.
LabelWarningsNone(t, n, val, defl) == {}

LabelWarnings(t, n, val, defl) ==
  IF pass = LASTPASS /\ Drifts(t, n, val, defl)
  THEN {"Label has different value in pass 3"} ELSE {}

ParseLabel(t, n, val, defl, found) ==
  /\ table' = IF pass = LASTPASS THEN LastPassTable(t, n, val, defl)
                                 ELSE EarlyPassTable(t, n, val, defl)
  /\ errors' = errors \cup found \cup LabelErrors(t, n, val, defl)
  /\ warnings' = warnings \cup LabelWarnings(t, n, val, defl)
  /\ defs' = defs \cup {<<n, val>>}
  /\ phase' = "line"
  /\ UNCHANGED <<pass, pc, CurAddress, prog, code, starts>>
  /\ Remember

Assembling(ops) == phase = "statement" /\ Line.stmt.op \in ops

LABEL ==
  /\ Assembling({"LABEL"})
  /\ ParseLabel(table, Line.stmt.name, CurAddress, FALSE, {})
  /\ UNCHANGED reads

\* EQU and DEFL; only DEFL insists on known labels.
EQU ==
  /\ Assembling({"EQU", "DEFL"})
  /\ LET e == Line.stmt.expr
         defl == Line.stmt.op = "DEFL"
         forward == IF IsLabelNotFound(e) /\ defl /\ pass < LASTPASS
                    THEN {"Forward reference"} ELSE {}
     IN  /\ ParseLabel(AfterParsing(e), Line.stmt.name, ValueOf(e), defl,
                       ErrorsOf(e) \cup forward)
         /\ Read(e)

----------------------------------------------------------------------------
(* Emission: one word, or as many bytes as the expression says *)

Emit ==
  /\ Assembling({"DW", "DS"})
  /\ LET e == Line.stmt.expr
     IN  /\ table' = AfterParsing(e)
         /\ errors' = errors \cup ErrorsOf(e)
         /\ Read(e)
         /\ code' = [code EXCEPT ![pass] = Append(@, <<pc, CurAddress, ValueOf(e)>>)]
         /\ CurAddress' = CurAddress + (IF Line.stmt.op = "DW" THEN 2 ELSE ValueOf(e))
  /\ phase' = "line"
  /\ UNCHANGED <<pass, pc, warnings, prog, defs, starts>>
  /\ Remember

----------------------------------------------------------------------------
(* Passes: InitPass keeps the label table *)

ReadLine ==
  /\ phase = "line"
  /\ \/ pc < Len(prog) /\ prog' = prog
     \/ /\ pass = 1 /\ pc = Len(prog) /\ pc < MaxLines
        /\ \E line \in Lines : prog' = Append(prog, line)
  /\ pc' = pc + 1 /\ phase' = "condition"
  /\ UNCHANGED <<table, pass, CurAddress, errors, warnings, reads, defs, code, starts>>
  /\ Remember

NextPass ==
  /\ phase = "line" /\ pc = Len(prog) /\ pass < LASTPASS
  /\ pass' = pass + 1 /\ pc' = 0
  /\ CurAddress' = 0
  /\ reads' = {} /\ defs' = {}
  /\ starts' = [starts EXCEPT ![pass + 1] = table]
  /\ UNCHANGED <<table, phase, errors, warnings, prog, code>>
  /\ Remember

LastPassDone ==
  /\ phase = "line" /\ pc = Len(prog) /\ pass = LASTPASS
  /\ phase' = "exit"
  /\ UNCHANGED <<table, pass, pc, CurAddress, errors, warnings, prog, reads, defs,
                 code, starts, trace>>

Exited == phase = "exit" /\ UNCHANGED vars

Init ==
  /\ prog = << >>
  /\ table = [n \in Labels |-> Absent]
  /\ pass = 1 /\ pc = 0 /\ phase = "line"
  /\ CurAddress = 0 /\ errors = {} /\ warnings = {}
  /\ reads = {} /\ defs = {}
  /\ code = [p \in 1 .. LASTPASS |-> << >>]
  /\ starts = [p \in 1 .. LASTPASS |-> [n \in Labels |-> Absent]]
  /\ trace = {}

Next == \/ ReadLine \/ Condition \/ LABEL \/ EQU \/ Emit
        \/ NextPass \/ LastPassDone \/ Exited

Spec == Init /\ [][Next]_vars

----------------------------------------------------------------------------
(* Properties *)

\* Nothing went wrong: what the user sees of a successful assembly.
Clean == errors = {} /\ warnings = {}

\* Labels that some line re-assigns.
Modifiable ==
  {n \in Labels : \E i \in 1 .. Len(prog) : prog[i].stmt.op = "DEFL"
                                             /\ prog[i].stmt.name = n}

\* The table holds entries; a defined one is present, and none claims to be
\* of a pass to come.
TypeOK ==
  /\ table \in [Labels -> Entries]
  /\ \A n \in Labels : (table[n].defined => table[n].present)
                         /\ table[n].updatePass <= pass
  /\ prog \in Seq(Lines)
  /\ pass \in 1 .. LASTPASS /\ pc \in 0 .. Len(prog)
  /\ phase \in {"line", "condition", "statement", "exit"}
  /\ CurAddress \in Int

\* Every value the last pass read was the value of every definition of that
\* label which the last pass met before or after: a silent assembly never
\* mixes values of two passes.
ReadsAreTrue ==
  phase = "exit" /\ Clean =>
    \A r \in reads : \A d \in defs :
      r[1] = d[1] /\ r[1] \notin Modifiable => r[2] = d[2]

\* What makes ReadsAreTrue inductive: as long as the last pass is silent, the
\* table itself holds the value of every read and of every definition.
TableHoldsLastPass ==
  pass = LASTPASS /\ Clean =>
    \A r \in reads \cup defs :
      r[1] \notin Modifiable => table[r[1]].defined /\ table[r[1]].value = r[2]

\* The inductive invariant of the proofs.
IInv ==
  /\ TypeOK
  /\ phase \in {"condition", "statement"} => pc > 0
  /\ phase = "exit" => pass = LASTPASS
  /\ reads \cup defs \subseteq Labels \X Int
  /\ TableHoldsLastPass

Content(t) == [n \in Labels |-> [t[n] EXCEPT !.updatePass = 0]]

\* A pass that changed nothing in the table will be repeated exactly: when
\* pass 2 ends with the table it started with, pass 3 emits the same code.
SettledRepeats ==
  phase = "exit" /\ Content(starts[2]) = Content(starts[3]) => code[3] = code[2]

=============================================================================
