------------------------- MODULE LabelPassesProofs -------------------------
(***************************************************************************)
(* A silent assembly never mixes values of two passes, for every set of    *)
(* labels, every program and every condition in it.  The invariant is that *)
(* the table holds what the last pass read and defined so far: a read of   *)
(* an undefined label and a definition with another value are reported,    *)
(* everything else leaves value and definedness of an unmodifiable label   *)
(* alone.                                                                  *)
(*                                                                         *)
(* A pass that changed nothing in the table is repeated exactly.  What a   *)
(* pass does next is a function After of its moment: the line, the address *)
(* and what is known of the labels.  The ghost trace holds the moments of  *)
(* pass 2; flags only grow in it, so they are constant when it ends as it  *)
(* began, and then pass 3 goes through the same moments.                   *)
(***************************************************************************)
EXTENDS LabelPasses, TLAPS

\* A table as TypeOK wants it.
Proper(t) == /\ t \in [Labels -> Entries]
             /\ \A k \in Labels : /\ t[k].defined => t[k].present
                                  /\ t[k].updatePass <= pass

\* No defined label of K is lost or changed between two tables.
Keeps(t, u, K) == \A k \in K : t[k].defined => /\ u[k].defined
                                               /\ u[k].value = t[k].value

\* Parsing an expression marks or inserts one label and keeps all values.
LEMMA GetLabelFacts ==
  ASSUME NEW t, Proper(t), NEW n \in Labels, pass \in 1 .. LASTPASS
  PROVE  Proper(GetLabel(t, n)) /\ Keeps(t, GetLabel(t, n), Labels)
<1>0. t[n] \in Entries
  BY DEF Proper
<1>1. ASSUME t[n].present
      PROVE  /\ Marked(t[n]) \in Entries /\ Marked(t[n]).present
             /\ Marked(t[n]).updatePass = t[n].updatePass
             /\ Marked(t[n]).defined = t[n].defined
             /\ Marked(t[n]).value = t[n].value
  <2>1. (t[n].used \/ pass < LASTPASS) \in BOOLEAN
    OBVIOUS
  <2> QED BY <1>0, <1>1, <2>1 DEF Entries, Marked
<1>2. Placeholder \in Entries /\ ~Placeholder.defined /\ Placeholder.updatePass = pass
  <2>1. pass \in 0 .. LASTPASS
    BY DEF LASTPASS
  <2> QED BY <2>1 DEF Entries, Placeholder
<1>3. CASE t[n].present
  BY <1>1, <1>3 DEF GetLabel, Proper, Keeps
<1>4. CASE ~t[n].present
  BY <1>2, <1>4 DEF GetLabel, LASTPASS, Proper, Keeps
<1> QED BY <1>3, <1>4

\* Defining a label rewrites its own entry only.
LEMMA InsertFacts ==
  ASSUME NEW t, Proper(t), NEW n \in Labels, pass \in 1 .. LASTPASS,
         NEW v \in Int, NEW d \in BOOLEAN
  PROVE  Proper(Insert(t, n, v, d)) /\ Keeps(t, Insert(t, n, v, d), Labels \ {n})
<1>1. /\ Refreshed(t[n], v, d) \in Entries
      /\ Refreshed(t[n], v, d).present
      /\ Refreshed(t[n], v, d).updatePass = pass
  <2>1. t[n].used \in BOOLEAN
    BY DEF Entries, Proper
  <2>2. pass \in 0 .. LASTPASS
    BY DEF LASTPASS
  <2> QED BY <2>1, <2>2 DEF Entries, Refreshed
<1> QED BY <1>1 DEF Insert, LASTPASS, Proper, Keeps

\* So does replacing its value.
LEMMA UpdateFacts ==
  ASSUME NEW t, Proper(t), NEW n \in Labels, NEW v \in Int
  PROVE  Proper(Update(t, n, v)) /\ Keeps(t, Update(t, n, v), Labels \ {n})
<1> DEFINE e == [t[n] EXCEPT !.value = v]
<1>0. t[n] \in Entries
  BY DEF Proper
<1>1. e \in Entries /\ e.defined = t[n].defined /\ e.present = t[n].present
      /\ e.updatePass = t[n].updatePass
  BY <1>0 DEF Entries
<1>2. Update(t, n, v) = [t EXCEPT ![n] = e]
  BY DEF Update
<1> HIDE DEF e
<1> QED BY <1>1, <1>2 DEF Proper, Keeps

\* Touching an entry keeps all values.
LEMMA TouchFacts ==
  ASSUME NEW t, Proper(t), NEW n \in Labels, pass \in 1 .. LASTPASS
  PROVE  LET u == [t EXCEPT ![n].updatePass = pass]
         IN  Proper(u) /\ Keeps(t, u, Labels)
<1> DEFINE e == [t[n] EXCEPT !.updatePass = pass]
<1>0. t[n] \in Entries /\ pass \in 0 .. LASTPASS
  BY DEF Proper, LASTPASS
<1>1. /\ e \in Entries /\ e.present = t[n].present /\ e.updatePass = pass
      /\ e.defined = t[n].defined /\ e.value = t[n].value
  BY <1>0 DEF Entries
<1>2. [t EXCEPT ![n].updatePass = pass] = [t EXCEPT ![n] = e]
  OBVIOUS
<1> HIDE DEF e
<1> QED BY <1>0, <1>1, <1>2 DEF Proper, Keeps, LASTPASS

\* The last pass: only a DEFL and a reported definition change a value.
LEMMA LastPassFacts ==
  ASSUME NEW t, Proper(t), NEW n \in Labels, pass \in 1 .. LASTPASS,
         NEW v \in Int, NEW d \in BOOLEAN
  PROVE  /\ Proper(LastPassTable(t, n, v, d))
         /\ Keeps(t, LastPassTable(t, n, v, d), Labels \ {n})
         /\ ~d /\ ~IsMissing(t, n, d) /\ ~Drifts(t, n, v, d)
              => /\ Keeps(t, LastPassTable(t, n, v, d), Labels)
                 /\ t[n].defined /\ t[n].value = v
<1> DEFINE r == Resolved(t, n, v, d)
<1>1. Proper(r) /\ Keeps(t, r, Labels \ {n}) /\ (~d => r = t)
  BY InsertFacts DEF Resolved, Keeps
<1> HIDE DEF r
<1>2. Proper(Update(r, n, v)) /\ Keeps(r, Update(r, n, v), Labels \ {n})
  BY <1>1, UpdateFacts
<1> DEFINE u == [r EXCEPT ![n].updatePass = pass]
<1>3. Proper(u) /\ Keeps(r, u, Labels)
  BY <1>1, TouchFacts
<1> HIDE DEF u
<1>4. LastPassTable(t, n, v, d) \in {t, Update(r, n, v), u}
  BY DEF LastPassTable, r, u
<1>5. Keeps(t, Update(r, n, v), Labels \ {n}) /\ Keeps(t, u, Labels \ {n})
  BY <1>1, <1>2, <1>3 DEF Keeps
<1>6. ASSUME ~d, ~IsMissing(t, n, d), ~Drifts(t, n, v, d)
      PROVE  /\ Keeps(t, LastPassTable(t, n, v, d), Labels)
             /\ t[n].defined /\ t[n].value = v
  <2>1. LastPassTable(t, n, v, d) = u
    BY <1>6 DEF LastPassTable, u, r
  <2>2. t[n].defined /\ r[n].value = v
    BY <1>6 DEF IsMissing, Drifts, r
  <2> QED BY <1>1, <1>3, <1>6, <2>1, <2>2
<1>7. Keeps(t, t, Labels \ {n})
  BY DEF Keeps
<1> QED BY <1>1, <1>2, <1>3, <1>4, <1>5, <1>6, <1>7

\* Passes 1 and 2 keep the table typed.
LEMMA EarlyPassFacts ==
  ASSUME NEW t, Proper(t), NEW n \in Labels, pass \in 1 .. LASTPASS,
         NEW v \in Int, NEW d \in BOOLEAN
  PROVE  Proper(EarlyPassTable(t, n, v, d))
BY InsertFacts, UpdateFacts DEF EarlyPassTable

\* An expression evaluates to an integer and reads labels of the table.
LEMMA ExprFacts ==
  ASSUME TypeOK, NEW e \in Exprs
  PROVE  /\ ValueOf(e) \in Int /\ LabelsOf(e) \subseteq Labels
         /\ Proper(AfterParsing(e)) /\ Keeps(table, AfterParsing(e), Labels)
<1>0. Proper(table) /\ pass \in 1 .. LASTPASS /\ Keeps(table, table, Labels)
  BY DEF TypeOK, Proper, Keeps
<1>1. CASE e.kind = "const"
  BY <1>0, <1>1 DEF Exprs, ValueOf, LabelsOf, AfterParsing
<1>2. CASE e.kind = "here"
  BY <1>0, <1>2 DEF Exprs, ValueOf, LabelsOf, AfterParsing, TypeOK
<1>3. CASE e.kind = "label"
  <2>1. e.name \in Labels /\ e.n \in Nat
    BY <1>3 DEF Exprs
  <2>2. table[e.name].value \in Int
    BY <2>1 DEF TypeOK, Entries
  <2>3. ValueOf(e) = table[e.name].value + e.n
    BY <1>3 DEF ValueOf
  <2>4. Proper(AfterParsing(e)) /\ Keeps(table, AfterParsing(e), Labels)
    BY <1>0, <1>3, <2>1, GetLabelFacts DEF AfterParsing
  <2> QED BY <1>3, <2>1, <2>2, <2>3, <2>4 DEF LabelsOf
<1> QED BY <1>1, <1>2, <1>3 DEF Exprs

----------------------------------------------------------------------------

\* The current line and its parts.
LEMMA LineFacts ==
  ASSUME IInv, phase \in {"condition", "statement"}
  PROVE  Line.cond \in Conditions /\ Line.stmt \in Statements
<1>1. Line \in Lines
  BY DEF IInv, TypeOK, Line
<1> QED BY <1>1, LinesAssumption

\* What a silent step of the last pass read was defined.
LEMMA SilentRead ==
  ASSUME NEW e, pass = LASTPASS, ErrorsOf(e) = {}
  PROVE  \A k \in LabelsOf(e) : table[k].defined
BY DEF ErrorsOf, IsLabelNotFound

\* A step that reads an expression and defines nothing.
LEMMA ReadingStep ==
  ASSUME IInv, NEW e \in Exprs,
         table' = AfterParsing(e), errors' = errors \cup ErrorsOf(e),
         warnings \subseteq warnings', Read(e),
         defs' = defs, prog' = prog, pass' = pass, pc' = pc,
         CurAddress' \in Int, phase' \in {"line", "statement"}, phase # "line", phase # "exit"
  PROVE  IInv'
<1>1. /\ ValueOf(e) \in Int /\ LabelsOf(e) \subseteq Labels
      /\ Proper(table') /\ Keeps(table, table', Labels)
  BY ExprFacts DEF IInv
<1>2. TypeOK'
  BY <1>1 DEF IInv, TypeOK, Proper
<1>3. (reads \cup defs \subseteq Labels \X Int)'
  <2>1. \A k \in LabelsOf(e) : table[k].value \in Int
    BY <1>1 DEF IInv, TypeOK, Entries
  <2> QED BY <1>1, <2>1 DEF IInv, Read
<1>4. TableHoldsLastPass'
  <2> SUFFICES ASSUME pass' = LASTPASS, Clean', NEW r \in (reads \cup defs)',
                      r[1] \notin Modifiable'
               PROVE  table'[r[1]].defined /\ table'[r[1]].value = r[2]
    BY DEF TableHoldsLastPass
  <2>1. pass = LASTPASS /\ Clean /\ ErrorsOf(e) = {}
    BY DEF Clean
  <2>2. Modifiable' = Modifiable
    BY DEF Modifiable
  <2>3. CASE r \in reads \cup defs
    <3>1. table[r[1]].defined /\ table[r[1]].value = r[2] /\ r[1] \in Labels
      BY <2>1, <2>2, <2>3 DEF IInv, TableHoldsLastPass
    <3> QED BY <1>1, <3>1 DEF Keeps
  <2>4. CASE r \notin reads \cup defs
    <3>1. PICK k \in LabelsOf(e) : r = <<k, table[k].value>>
      BY <2>4 DEF Read
    <3>2. table[k].defined
      BY <2>1, SilentRead
    <3> QED BY <1>1, <3>1, <3>2 DEF Keeps
  <2> QED BY <2>3, <2>4
<1>5. /\ (phase \in {"condition", "statement"} => pc > 0)'
      /\ (phase = "exit" => pass = LASTPASS)'
  BY DEF IInv, TypeOK
<1> QED BY <1>2, <1>3, <1>4, <1>5 DEF IInv

\* A step that defines a label, after it read the labels R.
LEMMA DefiningStep ==
  ASSUME IInv, phase = "statement",
         NEW t, Proper(t), Keeps(table, t, Labels),
         NEW n \in Labels, NEW v \in Int, NEW d \in BOOLEAN, NEW f,
         NEW R \in SUBSET Labels,
         reads' = reads \cup {<<k, table[k].value>> : k \in R},
         pass = LASTPASS /\ f = {} => \A k \in R : table[k].defined,
         d => n \in Modifiable,
         ParseLabel(t, n, v, d, f)
  PROVE  IInv'
<1>0. pass \in 1 .. LASTPASS /\ pass' = pass /\ prog' = prog
  BY DEF IInv, TypeOK, ParseLabel
<1>1. Proper(table')
  BY <1>0, LastPassFacts, EarlyPassFacts DEF ParseLabel
<1>2. TypeOK'
  BY <1>0, <1>1 DEF IInv, TypeOK, Proper, ParseLabel
<1>3. (reads \cup defs \subseteq Labels \X Int)'
  <2>1. \A k \in R : table[k].value \in Int
    BY DEF IInv, TypeOK, Entries
  <2> QED BY <2>1 DEF IInv, ParseLabel
<1>4. TableHoldsLastPass'
  <2> SUFFICES ASSUME pass' = LASTPASS, Clean', NEW r \in (reads \cup defs)',
                      r[1] \notin Modifiable'
               PROVE  table'[r[1]].defined /\ table'[r[1]].value = r[2]
    BY DEF TableHoldsLastPass
  <2>1. pass = LASTPASS /\ Clean /\ f = {}
    BY <1>0 DEF Clean, ParseLabel
  <2>2. ~IsMissing(t, n, d) /\ ~Drifts(t, n, v, d)
    <3>1. LabelErrors(t, n, v, d) = {} /\ LabelWarnings(t, n, v, d) = {}
      BY DEF Clean, ParseLabel
    <3> QED BY <2>1, <3>1 DEF LabelErrors, LabelWarnings
  <2>3. table' = LastPassTable(t, n, v, d) /\ Modifiable' = Modifiable
    BY <1>0, <2>1 DEF ParseLabel, Modifiable
  <2>4. Keeps(t, table', Labels \ {n})
    BY <1>0, <2>3, LastPassFacts
  <2>5. ~d => Keeps(t, table', Labels) /\ t[n].defined /\ t[n].value = v
    BY <1>0, <2>2, <2>3, LastPassFacts
  <2>6. ASSUME NEW k \in Labels \ Modifiable, table[k].defined
        PROVE  table'[k].defined /\ table'[k].value = table[k].value
    <3>1. t[k].defined /\ t[k].value = table[k].value
      BY <2>6 DEF Keeps
    <3>2. CASE k = n
      BY <2>5, <2>6, <3>1, <3>2 DEF Keeps
    <3>3. CASE k # n
      BY <2>4, <2>6, <3>1, <3>3 DEF Keeps
    <3> QED BY <3>2, <3>3
  <2>7. CASE r \in reads \cup defs
    <3>1. table[r[1]].defined /\ table[r[1]].value = r[2] /\ r[1] \in Labels
      BY <2>1, <2>3, <2>7 DEF IInv, TableHoldsLastPass
    <3> QED BY <2>3, <2>6, <3>1
  <2>8. CASE r \in reads' /\ r \notin reads
    <3>1. PICK k \in R : r = <<k, table[k].value>>
      BY <2>8
    <3>2. table[k].defined
      BY <2>1
    <3> QED BY <2>3, <2>6, <3>1, <3>2
  <2>9. CASE r = <<n, v>>
    BY <2>3, <2>5, <2>9 DEF Keeps
  <2> QED BY <2>7, <2>8, <2>9 DEF ParseLabel
<1>5. /\ (phase \in {"condition", "statement"} => pc > 0)'
      /\ (phase = "exit" => pass = LASTPASS)'
  BY DEF ParseLabel
<1> QED BY <1>2, <1>3, <1>4, <1>5 DEF IInv

\* The invariant holds initially.
LEMMA InitInvariant == Init => IInv
<1> SUFFICES ASSUME Init PROVE IInv
  OBVIOUS
<1>1. Absent \in Entries
  BY DEF Absent, Entries, LASTPASS
<1>2. TypeOK
  <2>1. table \in [Labels -> Entries]
    BY <1>1 DEF Init
  <2>2. \A n \in Labels : /\ table[n].defined = FALSE
                           /\ table[n].updatePass <= pass
    <3>1. \A n \in Labels : table[n] = Absent
      BY DEF Init
    <3>2. Absent.defined = FALSE /\ Absent.updatePass <= 1
      BY DEF Absent
    <3>3. pass = 1
      BY DEF Init
    <3> QED BY <3>1, <3>2, <3>3
  <2> QED BY <2>1, <2>2 DEF Init, TypeOK, LASTPASS
<1> QED BY <1>2 DEF Init, IInv, TableHoldsLastPass, LASTPASS

\* Every step preserves it.
LEMMA NextInvariant == IInv /\ [Next]_vars => IInv'
<1> SUFFICES ASSUME IInv, [Next]_vars PROVE IInv'
  OBVIOUS
<1>1. CASE UNCHANGED vars
  BY <1>1 DEF vars, IInv, TypeOK, TableHoldsLastPass, Clean, Modifiable
<1>2. CASE ReadLine
  <2>1. TypeOK'
    BY <1>2 DEF ReadLine, IInv, TypeOK, LASTPASS
  <2>2. TableHoldsLastPass'
    <3>1. CASE pass = LASTPASS
      <4>1. prog' = prog
        BY <1>2, <3>1 DEF ReadLine, LASTPASS
      <4> QED BY <1>2, <4>1 DEF ReadLine, IInv, TableHoldsLastPass, Clean, Modifiable
    <3>2. CASE pass # LASTPASS
      BY <1>2, <3>2 DEF ReadLine, TableHoldsLastPass
    <3> QED BY <3>1, <3>2
  <2> QED BY <1>2, <2>1, <2>2 DEF ReadLine, IInv, TypeOK
<1>3. CASE Condition
  <2>1. CASE Always \/ IfExist \/ dirIFUSED
    <3>1. /\ UNCHANGED <<table, errors, warnings, reads, pass, pc, CurAddress, prog,
                         defs>>
          /\ phase = "condition" /\ phase' \in {"line", "statement"}
      BY <1>3, <2>1 DEF Condition, Always, IfExist, dirIFUSED, Branch
    <3> QED BY <3>1 DEF IInv, TypeOK, TableHoldsLastPass, Clean, Modifiable
  <2>2. CASE dirIF
    <3> DEFINE e == Asks(Line.cond)
    <3>1. e \in Exprs
      <4>1. Line.cond \in Conditions /\ Line.cond.if \in {"IF", "IFN"}
        BY <2>2, LineFacts DEF dirIF
      <4>2. Line.cond.name \in Labels
        BY <4>1 DEF Conditions
      <4> QED BY <4>2 DEF Asks, Exprs
    <3>2. /\ table' = AfterParsing(e) /\ errors' = errors \cup ErrorsOf(e)
          /\ warnings \subseteq warnings' /\ Read(e)
          /\ phase = "condition" /\ phase' \in {"line", "statement"}
      BY <2>2 DEF dirIF, Branch
    <3> HIDE DEF e
    <3>3. UNCHANGED <<pass, pc, CurAddress, prog, defs>>
      BY <1>3 DEF Condition
    <3>4. CurAddress' \in Int
      BY <3>3 DEF IInv, TypeOK
    <3> QED BY <3>1, <3>2, <3>3, <3>4, ReadingStep
  <2> QED BY <1>3, <2>1, <2>2 DEF Condition
<1>4. CASE LABEL
  <2>1. phase = "statement" /\ Line.stmt.op = "LABEL"
    BY <1>4 DEF LABEL, Assembling
  <2>2. Line.stmt.name \in Labels
    BY <2>1, LineFacts DEF Statements
  <2>3. Proper(table) /\ Keeps(table, table, Labels) /\ CurAddress \in Int
    BY DEF IInv, TypeOK, Proper, Keeps
  <2>4. reads' = reads \cup {<<k, table[k].value>> : k \in {}}
    BY <1>4 DEF LABEL
  <2>5. ParseLabel(table, Line.stmt.name, CurAddress, FALSE, {})
    BY <1>4 DEF LABEL
  <2> QED BY <2>1, <2>2, <2>3, <2>4, <2>5, DefiningStep
<1>5. CASE EQU
  <2> DEFINE e == Line.stmt.expr
             d == Line.stmt.op = "DEFL"
             f == ErrorsOf(e) \cup (IF IsLabelNotFound(e) /\ d /\ pass < LASTPASS
                                    THEN {"Forward reference"} ELSE {})
  <2>1. phase = "statement" /\ Line.stmt.op \in {"EQU", "DEFL"}
    BY <1>5 DEF EQU, Assembling
  <2>2. Line.stmt.name \in Labels /\ e \in Exprs
    BY <2>1, LineFacts DEF Statements
  <2>3. ParseLabel(AfterParsing(e), Line.stmt.name, ValueOf(e), d, f) /\ Read(e)
    BY <1>5 DEF EQU
  <2>4. d => Line.stmt.name \in Modifiable
    <3>1. pc \in 1 .. Len(prog)
      BY <2>1 DEF IInv, TypeOK
    <3> QED BY <2>2, <3>1 DEF Modifiable, Line
  <2>5. f = {} => ErrorsOf(e) = {}
    OBVIOUS
  <2>6. d \in BOOLEAN
    OBVIOUS
  <2> HIDE DEF e, d, f
  <2>7. /\ ValueOf(e) \in Int /\ LabelsOf(e) \in SUBSET Labels
        /\ Proper(AfterParsing(e)) /\ Keeps(table, AfterParsing(e), Labels)
    BY <2>2, ExprFacts DEF IInv
  <2>8. reads' = reads \cup {<<k, table[k].value>> : k \in LabelsOf(e)}
    BY <2>3 DEF Read
  <2>9. pass = LASTPASS /\ f = {} => \A k \in LabelsOf(e) : table[k].defined
    BY <2>5, SilentRead
  <2> QED BY <2>1, <2>2, <2>3, <2>4, <2>6, <2>7, <2>8, <2>9, DefiningStep
<1>6. CASE Emit
  <2> DEFINE e == Line.stmt.expr
  <2>1. phase = "statement" /\ Line.stmt.op \in {"DW", "DS"}
    BY <1>6 DEF Emit, Assembling
  <2>2. e \in Exprs
    BY <2>1, LineFacts DEF Statements
  <2>3. /\ table' = AfterParsing(e) /\ errors' = errors \cup ErrorsOf(e) /\ Read(e)
        /\ phase' = "line" /\ UNCHANGED <<pass, pc, warnings, prog, defs>>
        /\ CurAddress' = CurAddress + (IF Line.stmt.op = "DW" THEN 2 ELSE ValueOf(e))
    BY <1>6 DEF Emit
  <2> HIDE DEF e
  <2>4. CurAddress' \in Int
    BY <2>2, <2>3, ExprFacts DEF IInv, TypeOK
  <2> QED BY <2>1, <2>2, <2>3, <2>4, ReadingStep
<1>7. CASE NextPass
  <2>1. pass \in {1, 2} /\ pass' = pass + 1
    BY <1>7 DEF NextPass, IInv, TypeOK, LASTPASS
  <2>2. TypeOK'
    <3>1. \A n \in Labels : table[n].updatePass <= pass'
      BY <2>1 DEF IInv, TypeOK, Entries
    <3> QED BY <1>7, <2>1, <3>1 DEF NextPass, IInv, TypeOK, LASTPASS
  <2> QED BY <1>7, <2>2 DEF NextPass, IInv, TableHoldsLastPass
<1>8. CASE LastPassDone
  BY <1>8 DEF LastPassDone, IInv, TypeOK, TableHoldsLastPass, Clean, Modifiable
<1>9. CASE Exited
  BY <1>1, <1>9 DEF Exited
<1> QED BY <1>1, <1>2, <1>3, <1>4, <1>5, <1>6, <1>7, <1>8, <1>9 DEF Next

\* The table stays typed and, while the last pass is silent, holds what the
\* pass read and defined (ParseLabel, GetLabel, CLabelTable).
THEOREM LabelPassesInvariant == Spec => []IInv
BY InitInvariant, NextInvariant, PTL DEF Spec

\* A silent assembly used one value per label, the one of its definition
\* ("Label has different value in pass 3" is complete).
THEOREM LabelPassesReadsAreTrue == Spec => []ReadsAreTrue
<1>1. IInv => ReadsAreTrue
  <2> SUFFICES ASSUME IInv, phase = "exit", Clean, NEW r \in reads, NEW d \in defs,
                      r[1] = d[1], r[1] \notin Modifiable
               PROVE  r[2] = d[2]
    BY DEF ReadsAreTrue
  <2> QED BY DEF IInv, TableHoldsLastPass
<1> QED BY <1>1, LabelPassesInvariant, PTL

----------------------------------------------------------------------------
(* Pass 3 repeats pass 2 *)

\* The moment that comes after m in a pass that marks every label it reads.
LineOf(m) == prog[m.pc]

ValueAt(m, e) ==
  CASE e.kind = "const" -> e.n
    [] e.kind = "here" -> m.adr
    [] OTHER -> m.view[e.name].value + e.n

Touched(v, e) ==
  IF e.kind # "label" THEN v
  ELSE [v EXCEPT ![e.name] = [present |-> TRUE, defined |-> v[e.name].defined,
                              value |-> IF v[e.name].present THEN v[e.name].value ELSE 0,
                              used |-> TRUE]]

Defined(v, n, val) ==
  [v EXCEPT ![n] = [present |-> TRUE, defined |-> TRUE, value |-> val, used |-> v[n].used]]

Holds(m) ==
  LET c == LineOf(m).cond
  IN  CASE c.if = "ALWAYS" -> TRUE
        [] c.if = "IF" -> m.view[c.name].value # 0
        [] c.if = "IFN" -> m.view[c.name].value = 0
        [] c.if = "EXIST" -> m.view[c.name].defined
        [] c.if = "IFUSED" -> m.view[c.name].used
        [] c.if = "IFNUSED" -> ~m.view[c.name].used

AfterLine(m) == At(m.pc + 1, "condition", m.adr, m.view, m.out)

AfterCondition(m) ==
  At(m.pc, IF Holds(m) THEN "statement" ELSE "line", m.adr,
     IF LineOf(m).cond.if \in {"IF", "IFN"} THEN Touched(m.view, Asks(LineOf(m).cond)) ELSE m.view,
     m.out)

AfterLabel(m, n) == At(m.pc, "line", m.adr, Defined(m.view, n, m.adr), m.out)
AfterEqu(m, n, e) == At(m.pc, "line", m.adr, Defined(Touched(m.view, e), n, ValueAt(m, e)), m.out)
AfterEmit(m, op, e) ==
  At(m.pc, "line", m.adr + (IF op = "DW" THEN 2 ELSE ValueAt(m, e)), Touched(m.view, e),
     Append(m.out, <<m.pc, m.adr, ValueAt(m, e)>>))

AfterStatement(m) ==
  LET s == LineOf(m).stmt
  IN  IF s.op = "LABEL" THEN AfterLabel(m, s.name)
      ELSE IF s.op \in {"EQU", "DEFL"} THEN AfterEqu(m, s.name, s.expr)
      ELSE AfterEmit(m, s.op, s.expr)

After(m) == IF m.phase = "line" THEN AfterLine(m)
            ELSE IF m.phase = "condition" THEN AfterCondition(m)
            ELSE AfterStatement(m)

Ends(m) == m.phase = "line" /\ m.pc = Len(prog)

\* What only grows in a pass that marks labels: nothing of a table is lost.
Below(v, w) == \A n \in Labels : /\ v[n].present => w[n].present
                                 /\ v[n].defined => w[n].defined
                                 /\ v[n].used => w[n].used
SameFlags(v, w) == Below(v, w) /\ Below(w, v)

Begin == At(0, "line", 0, View(starts[2]), << >>)

Settled == View(starts[2]) = View(starts[3])

\* The ghosts have their types.
Typed == /\ code \in [1 .. LASTPASS -> Seq(Nat \X Int \X Int)]
         /\ starts \in [1 .. LASTPASS -> [Labels -> Entries]]

\* Pass 2 went from its first moment to the present one.
PassTwo ==
  /\ Begin \in trace /\ Moment \in trace
  /\ \A m \in trace : /\ Below(Begin.view, m.view) /\ Below(m.view, View(table))
                      /\ m = Moment \/ (~Ends(m) /\ After(m) \in trace)

\* Pass 3 goes through the same moments when pass 2 changed nothing.
PassThree ==
  /\ Begin \in trace
  /\ \A m \in trace : /\ Below(Begin.view, m.view) /\ Below(m.view, View(starts[3]))
                      /\ IF Ends(m) THEN m.out = code[2] ELSE After(m) \in trace
  /\ Settled /\ phase # "exit" => Moment \in trace
  /\ Settled /\ phase = "exit" => code[3] = code[2]

\* The inductive invariant of SettledRepeats.
RepeatInv == /\ Typed
             /\ pass = 1 => code[2] = << >> /\ trace = {}
             /\ pass < LASTPASS => code[3] = << >>
             /\ pass = 2 => PassTwo
             /\ pass = 3 => PassThree

\* A view has the fields of its table.
LEMMA ViewFields ==
  ASSUME NEW t, NEW n \in Labels
  PROVE  /\ View(t)[n].present = t[n].present /\ View(t)[n].defined = t[n].defined
         /\ View(t)[n].value = t[n].value /\ View(t)[n].used = t[n].used
BY DEF View

\* Tables that agree in the four fields have the same view.
LEMMA ViewChanged ==
  ASSUME NEW t, NEW n \in Labels, NEW e, t \in [Labels -> Entries]
  PROVE  View([t EXCEPT ![n] = e]) =
           [View(t) EXCEPT ![n] = [present |-> e.present, defined |-> e.defined,
                                   value |-> e.value, used |-> e.used]]
BY DEF View

\* Parsing an expression: in pass 3 only a label that is marked already.
LEMMA ViewTouched ==
  ASSUME NEW e \in Exprs, TypeOK,
         pass < LASTPASS \/ Below(Touched(View(table), e), View(table))
  PROVE  View(AfterParsing(e)) = Touched(View(table), e)
<1>1. CASE e.kind # "label"
  BY <1>1 DEF AfterParsing, Touched
<1>2. CASE e.kind = "label"
  <2> DEFINE n == e.name
             w == [present |-> TRUE, defined |-> View(table)[n].defined,
                   value |-> IF View(table)[n].present THEN View(table)[n].value ELSE 0,
                   used |-> TRUE]
             g == IF table[n].present THEN Marked(table[n]) ELSE Placeholder
  <2>1. n \in Labels
    BY <1>2 DEF Exprs
  <2>2. Touched(View(table), e) = [View(table) EXCEPT ![n] = w]
    BY <1>2 DEF Touched
  <2>3. AfterParsing(e) = [table EXCEPT ![n] = g]
    BY <1>2 DEF AfterParsing, GetLabel
  <2>4. /\ table \in [Labels -> Entries] /\ table[n] \in Entries
        /\ table[n].defined => table[n].present
        /\ pass \in 1 .. LASTPASS
    BY <2>1 DEF TypeOK
  <2>5. pass < LASTPASS \/ (table[n].present /\ table[n].used)
    <3>1. DOMAIN View(table) = Labels
      BY DEF View
    <3>2. Touched(View(table), e)[n] = w
      BY <2>1, <2>2, <3>1
    <3>3. w.present /\ w.used
      OBVIOUS
    <3> QED BY <2>1, <3>2, <3>3, ViewFields DEF Below
  <2>6. /\ g.present = w.present /\ g.defined = w.defined
        /\ g.value = w.value /\ g.used = w.used
    <3>1. CASE table[n].present
      BY <2>1, <2>4, <2>5, <3>1, ViewFields DEF Marked, Entries
    <3>2. CASE ~table[n].present
      BY <2>1, <2>4, <2>5, <3>2, ViewFields DEF Placeholder, Entries
    <3> QED BY <3>1, <3>2
  <2>7. View([table EXCEPT ![n] = g]) =
          [View(table) EXCEPT ![n] = [present |-> g.present, defined |-> g.defined,
                                      value |-> g.value, used |-> g.used]]
    BY <2>1, <2>4, ViewChanged
  <2> HIDE DEF w, g
  <2> DEFINE x == [present |-> g.present, defined |-> g.defined,
                   value |-> g.value, used |-> g.used]
  <2>8. w = x
    BY <2>6 DEF w
  <2> QED BY <2>2, <2>3, <2>7, <2>8
<1> QED BY <1>1, <1>2

\* A definition leaves its value in the table, in both passes: pass 2 inserts
\* or updates it, pass 3 corrects it.
LEMMA ViewDefined ==
  ASSUME NEW t, Proper(t), NEW n \in Labels, NEW v \in Int, NEW d \in BOOLEAN,
         pass = 2 \/ (pass = LASTPASS /\ t[n].defined)
  PROVE  LET u == IF pass = LASTPASS THEN LastPassTable(t, n, v, d)
                                     ELSE EarlyPassTable(t, n, v, d)
         IN  View(u) = Defined(View(t), n, v)
<1> DEFINE u == IF pass = LASTPASS THEN LastPassTable(t, n, v, d)
                                   ELSE EarlyPassTable(t, n, v, d)
           Good(e) == /\ e.present /\ e.present \in BOOLEAN /\ e.defined
                      /\ e.defined \in BOOLEAN /\ e.value = v /\ e.used = t[n].used
<1>1. /\ t \in [Labels -> Entries] /\ t[n] \in Entries
      /\ t[n].defined => t[n].present
  BY DEF Proper
<1>2. t[n].defined => Good([t[n] EXCEPT !.value = v])
  BY <1>1 DEF Refreshed, Entries
<1>3. Good(Refreshed(t[n], v, d))
  BY <1>1 DEF Refreshed, Entries
<1>4. \E e : Good(e) /\ View(u) = View([t EXCEPT ![n] = e])
  <2>1. CASE pass = 2 /\ ~needsUpdate(t, n)
    <3>1. u = [t EXCEPT ![n] = [t[n] EXCEPT !.value = v]] /\ t[n].defined
      BY <2>1 DEF EarlyPassTable, Update, needsUpdate, LASTPASS
    <3> QED BY <1>2, <3>1
  <2>2. CASE pass = 2 /\ needsUpdate(t, n)
    <3>1. u = [t EXCEPT ![n] = Refreshed(t[n], v, d)]
      BY <2>2 DEF EarlyPassTable, Insert, LASTPASS
    <3> QED BY <1>3, <3>1
  <2>3. CASE pass = LASTPASS
    <3> DEFINE r == Resolved(t, n, v, d)
    <3>1. \E e : r = [t EXCEPT ![n] = e] /\ Good([e EXCEPT !.value = v]) /\ e \in Entries
      <4>1. CASE d /\ needsUpdate(t, n)
        <5>1. r = [t EXCEPT ![n] = Refreshed(t[n], v, d)]
          BY <4>1 DEF Resolved, Insert
        <5>2. Refreshed(t[n], v, d) \in Entries
          BY <1>1, <2>3 DEF Refreshed, Entries, LASTPASS
        <5>3. Good([Refreshed(t[n], v, d) EXCEPT !.value = v])
          BY <1>1 DEF Refreshed, Entries
        <5> QED BY <5>1, <5>2, <5>3
      <4>2. CASE ~(d /\ needsUpdate(t, n))
        <5>1. r = [t EXCEPT ![n] = t[n]]
          BY <1>1, <4>2 DEF Resolved, Insert
        <5>2. Good([t[n] EXCEPT !.value = v])
          BY <1>2, <2>3 DEF LASTPASS
        <5> QED BY <1>1, <5>1, <5>2
      <4> QED BY <4>1, <4>2
    <3>2. PICK e : r = [t EXCEPT ![n] = e] /\ Good([e EXCEPT !.value = v]) /\ e \in Entries
      BY <3>1
    <3> HIDE DEF r
    <3>3. r[n] = e
      BY <1>1, <3>2
    <3>4. ~IsMissing(t, n, d)
      BY <2>3 DEF IsMissing, LASTPASS
    <3>5. CASE Drifts(t, n, v, d)
      <4>1. u = [r EXCEPT ![n].value = v]
        BY <2>3, <3>4, <3>5 DEF LastPassTable, Update, r
      <4>2. u = [t EXCEPT ![n] = [e EXCEPT !.value = v]]
        BY <1>1, <3>2, <3>3, <4>1
      <4> QED BY <3>2, <4>2
    <3>6. CASE ~Drifts(t, n, v, d)
      <4>1. u = [r EXCEPT ![n].updatePass = pass] /\ r[n].value = v
        BY <2>3, <3>4, <3>6 DEF LastPassTable, Drifts, r
      <4>2. u = [t EXCEPT ![n] = [e EXCEPT !.updatePass = pass]] /\ e.value = v
        BY <1>1, <3>2, <3>3, <4>1
      <4>3. Good([e EXCEPT !.updatePass = pass])
        BY <3>2, <4>2 DEF Entries
      <4> QED BY <4>2, <4>3
    <3> QED BY <3>5, <3>6
  <2> QED BY <2>1, <2>2, <2>3 DEF LASTPASS
<1> HIDE DEF u
<1>5. PICK e : Good(e) /\ View(u) = View([t EXCEPT ![n] = e])
  BY <1>4
<1>6. View([t EXCEPT ![n] = e]) =
        [View(t) EXCEPT ![n] = [present |-> e.present, defined |-> e.defined,
                                value |-> e.value, used |-> e.used]]
  BY <1>1, ViewChanged
<1>7. e.present = TRUE /\ e.defined = TRUE /\ e.value = v /\ e.used = View(t)[n].used
  BY <1>5, ViewFields
<1>8. View(u) = Defined(View(t), n, v)
  BY ONLY <1>5, <1>6, <1>7 DEF Defined
<1> QED BY <1>8 DEF u

\* The fields of the present moment.
LEMMA MomentFields ==
  /\ Moment.pc = pc /\ Moment.phase = phase /\ Moment.adr = CurAddress
  /\ Moment.view = View(table) /\ Moment.out = code[pass] /\ LineOf(Moment) = Line
BY DEF Moment, At, LineOf, Line

\* Values and conditions only look at the view.
LEMMA ValueOfMoment ==
  ASSUME NEW e \in Exprs PROVE ValueAt(Moment, e) = ValueOf(e)
<1>1. CASE e.kind = "label"
  <2>1. e.name \in Labels
    BY <1>1 DEF Exprs
  <2> QED BY <1>1, <2>1, MomentFields, ViewFields DEF ValueAt, ValueOf
<1>2. CASE e.kind # "label"
  BY <1>2, MomentFields DEF ValueAt, ValueOf, Exprs
<1> QED BY <1>1, <1>2

\* A definition marks nothing that the expression in front of it did not.
LEMMA BelowDefined ==
  ASSUME NEW v, NEW n \in Labels, NEW x
  PROVE  /\ Below(Defined(View(v), n, x), View(v)) => v[n].defined
         /\ \A e \in Exprs : Below(Defined(Touched(View(v), e), n, x), View(v)) =>
                              Below(Touched(View(v), e), View(v))
<1>1. Below(Defined(View(v), n, x), View(v)) => v[n].defined
  <2>1. Defined(View(v), n, x)[n].defined
    BY DEF Defined, View
  <2> QED BY <2>1, ViewFields DEF Below
<1>2. ASSUME NEW e \in Exprs, Below(Defined(Touched(View(v), e), n, x), View(v))
      PROVE  Below(Touched(View(v), e), View(v))
  <2> DEFINE w == Touched(View(v), e)
             u == Defined(w, n, x)
  <2>1. DOMAIN w = Labels
    BY DEF Touched, View
  <2> HIDE DEF w
  <2>2. \A k \in Labels \ {n} : u[k] = w[k]
    BY <2>1 DEF Defined
  <2>3. u[n].present /\ u[n].defined /\ u[n].used = w[n].used
    BY <2>1 DEF Defined
  <2> QED BY <1>2, <2>2, <2>3 DEF Below, w
<1> QED BY <1>1, <1>2

\* What the lemmas below need of a step of a pass.
Steady == pass = 2 \/ (pass = LASTPASS /\ Below(After(Moment).view, View(table)))

LEMMA ReadLineFollows ==
  ASSUME pass \in {2, LASTPASS}, TypeOK, ReadLine
  PROVE  Moment' = After(Moment) /\ ~Ends(Moment)
<1>1. /\ phase = "line" /\ pc < Len(prog) /\ pc' = pc + 1 /\ phase' = "condition"
      /\ UNCHANGED <<table, CurAddress, code, pass>>
  BY DEF ReadLine, LASTPASS
<1>2. Moment' = At(pc + 1, "condition", CurAddress, View(table), code[pass])
  BY <1>1 DEF Moment, View
<1>3. After(Moment) = AfterLine(Moment) /\ ~Ends(Moment)
  BY <1>1, MomentFields DEF After, Ends, TypeOK
<1> QED BY <1>2, <1>3, MomentFields DEF AfterLine

LEMMA ConditionFollows ==
  ASSUME IInv, Steady, Condition
  PROVE  Moment' = After(Moment) /\ ~Ends(Moment)
<1> DEFINE c == Line.cond
           v == IF c.if \in {"IF", "IFN"} THEN Touched(View(table), Asks(c)) ELSE View(table)
           ph == IF Holds(Moment) THEN "statement" ELSE "line"
<1>1. phase = "condition" /\ UNCHANGED <<pass, pc, CurAddress, code>>
  BY DEF Condition, Always, dirIF, IfExist, dirIFUSED
<1>2. /\ c \in Conditions /\ TypeOK /\ pass \in 1 .. LASTPASS
      /\ pass < LASTPASS \/ Below(After(Moment).view, View(table))
  BY <1>1, LineFacts DEF Steady, IInv, TypeOK, LASTPASS
<1>3. After(Moment) = At(pc, ph, CurAddress, v, code[pass]) /\ ~Ends(Moment)
  <2>1. After(Moment) = AfterCondition(Moment) /\ ~Ends(Moment)
    BY <1>1, MomentFields DEF After, Ends
  <2> QED BY <2>1, MomentFields DEF AfterCondition
<1>4. View(table') = v /\ phase' = ph
  <2>1. CASE c.if \in {"IF", "IFN"}
    <3>1. c.name \in Labels
      BY <1>2, <2>1 DEF Conditions
    <3>2. Asks(c) \in Exprs
      BY <3>1 DEF Asks, Exprs
    <3>3. table' = AfterParsing(Asks(c)) /\ phase' = IF (ValueOf(Asks(c)) # 0) = (c.if = "IF")
                                                     THEN "statement" ELSE "line"
      BY <2>1 DEF Condition, Always, dirIF, IfExist, dirIFUSED, Branch
    <3>4. pass < LASTPASS \/ Below(Touched(View(table), Asks(c)), View(table))
      BY <1>2, <1>3, <2>1 DEF At
    <3>5. View(table') = v
      BY <1>2, <2>1, <3>2, <3>3, <3>4, ViewTouched
    <3>6. ValueOf(Asks(c)) = View(table)[c.name].value
      <4>1. table[c.name].value \in Int
        BY <1>2, <3>1 DEF TypeOK, Entries
      <4> QED BY <3>1, <4>1, ViewFields DEF ValueOf, Asks
    <3>7. Holds(Moment) = ((View(table)[c.name].value # 0) = (c.if = "IF"))
      BY <2>1, MomentFields DEF Holds
    <3> QED BY <3>3, <3>5, <3>6, <3>7
  <2>2. CASE c.if = "EXIST"
    <3>1. c.name \in Labels
      BY <1>2, <2>2 DEF Conditions
    <3>2. table' = table /\ phase' = IF table[c.name].defined THEN "statement" ELSE "line"
      BY <2>2 DEF Condition, Always, dirIF, IfExist, dirIFUSED, Branch
    <3>3. Holds(Moment) = table[c.name].defined
      BY <2>2, <3>1, MomentFields, ViewFields DEF Holds
    <3> QED BY <2>2, <3>2, <3>3
  <2>3. CASE c.if \in {"IFUSED", "IFNUSED"}
    <3>1. c.name \in Labels
      BY <1>2, <2>3 DEF Conditions
    <3>2. table' = table /\ phase' = IF table[c.name].used = (c.if = "IFUSED")
                                     THEN "statement" ELSE "line"
      BY <2>3 DEF Condition, Always, dirIF, IfExist, dirIFUSED, Branch
    <3>3. table[c.name].used \in BOOLEAN
      BY <1>2, <3>1 DEF TypeOK, Entries
    <3>4. Holds(Moment) = (table[c.name].used = (c.if = "IFUSED"))
      <4>1. CASE c.if = "IFUSED"
        BY <3>1, <3>3, <4>1, MomentFields, ViewFields DEF Holds
      <4>2. CASE c.if = "IFNUSED"
        BY <3>1, <3>3, <4>2, MomentFields, ViewFields DEF Holds
      <4> QED BY <2>3, <4>1, <4>2
    <3> QED BY <2>3, <3>2, <3>4
  <2>4. CASE c.if = "ALWAYS"
    <3>1. table' = table /\ phase' = "statement"
      BY <2>4 DEF Condition, Always, dirIF, IfExist, dirIFUSED, Branch
    <3>2. Holds(Moment) = TRUE
      BY <2>4, MomentFields DEF Holds
    <3> QED BY <2>4, <3>1, <3>2
  <2> QED BY <1>2, <2>1, <2>2, <2>3, <2>4 DEF Conditions
<1> HIDE DEF v, ph
<1>5. Moment' = At(pc, ph, CurAddress, v, code[pass])
  BY <1>1, <1>4 DEF Moment, View
<1> QED BY <1>3, <1>5

LEMMA StatementFollows ==
  ASSUME IInv, Typed, Steady, LABEL \/ EQU \/ Emit
  PROVE  Moment' = After(Moment) /\ ~Ends(Moment)
<1> DEFINE s == Line.stmt
<1>1. phase = "statement" /\ s \in Statements /\ TypeOK /\ Proper(table) /\ pass \in 1 .. LASTPASS
  BY LineFacts DEF LABEL, EQU, Emit, Assembling, IInv, TypeOK, Proper
<1>2. After(Moment) = AfterStatement(Moment) /\ ~Ends(Moment)
  BY <1>1, MomentFields DEF After, Ends
<1>3. pass = 2 \/ (pass = LASTPASS /\ Below(AfterStatement(Moment).view, View(table)))
  BY <1>2 DEF Steady
<1>4. CASE LABEL
  <2> DEFINE u == IF pass = LASTPASS THEN LastPassTable(table, s.name, CurAddress, FALSE)
                                     ELSE EarlyPassTable(table, s.name, CurAddress, FALSE)
  <2>1. s.op = "LABEL" /\ s.name \in Labels
    BY <1>1, <1>4 DEF LABEL, Assembling, Statements
  <2>2. /\ table' = u /\ phase' = "line" /\ UNCHANGED <<pass, pc, CurAddress, code>>
    BY <1>4 DEF LABEL, ParseLabel
  <2>3. AfterStatement(Moment) = At(pc, "line", CurAddress, Defined(View(table), s.name, CurAddress), code[pass])
    BY <2>1, MomentFields DEF AfterStatement, AfterLabel
  <2>4. pass = 2 \/ (pass = LASTPASS /\ table[s.name].defined)
    BY <1>3, <2>1, <2>3, BelowDefined DEF At
  <2>5. CurAddress \in Int
    BY <1>1 DEF TypeOK
  <2>6. View(u) = Defined(View(table), s.name, CurAddress)
    BY <1>1, <2>1, <2>4, <2>5, ViewDefined
  <2> HIDE DEF u
  <2>7. Moment' = At(pc, "line", CurAddress, View(u), code[pass])
    BY <2>2 DEF Moment, View
  <2> QED BY <1>2, <2>3, <2>6, <2>7
<1>5. CASE EQU
  <2> DEFINE e == s.expr
             x == ValueOf(e)
             d == s.op = "DEFL"
             t == AfterParsing(e)
             u == IF pass = LASTPASS THEN LastPassTable(t, s.name, x, d)
                                     ELSE EarlyPassTable(t, s.name, x, d)
  <2>1. s.op \in {"EQU", "DEFL"} /\ s.name \in Labels /\ e \in Exprs
    BY <1>1, <1>5 DEF EQU, Assembling, Statements
  <2>2. /\ table' = u /\ phase' = "line" /\ UNCHANGED <<pass, pc, CurAddress, code>>
    BY <1>5 DEF EQU, ParseLabel
  <2>3. ValueAt(Moment, e) = x /\ x \in Int /\ Proper(t) /\ Keeps(table, t, Labels)
    BY <1>1, <2>1, ValueOfMoment, ExprFacts
  <2>4. AfterStatement(Moment) =
          At(pc, "line", CurAddress, Defined(Touched(View(table), e), s.name, x), code[pass])
    BY <2>1, <2>3, MomentFields DEF AfterStatement, AfterEqu
  <2>5. pass = 2 \/ Below(Defined(Touched(View(table), e), s.name, x), View(table))
    BY <1>3, <2>4 DEF At
  <2>6. View(t) = Touched(View(table), e)
    <3>1. pass < LASTPASS \/ Below(Touched(View(table), e), View(table))
      <4>1. \A n \in Labels : \A y : Below(Defined(Touched(View(table), e), n, y), View(table)) =>
                                 Below(Touched(View(table), e), View(table))
        BY <2>1, BelowDefined
      <4> QED BY <2>1, <2>5, <4>1 DEF LASTPASS
    <3> QED BY <1>1, <2>1, <3>1, ViewTouched
  <2>7. pass = 2 \/ (pass = LASTPASS /\ t[s.name].defined)
    <3> SUFFICES ASSUME pass # 2 PROVE pass = LASTPASS /\ t[s.name].defined
      OBVIOUS
    <3>1. Defined(View(t), s.name, x)[s.name].defined
      BY <2>1 DEF Defined, View
    <3>2. table[s.name].defined
      BY <2>1, <2>5, <2>6, <3>1, ViewFields DEF Below
    <3> QED BY <1>3, <2>1, <2>3, <3>2 DEF Keeps
  <2>8. View(u) = Defined(View(t), s.name, x)
    <3>1. d \in BOOLEAN
      OBVIOUS
    <3> HIDE DEF t, x, d
    <3> QED BY <1>1, <2>1, <2>3, <2>7, <3>1, ViewDefined
  <2> HIDE DEF u
  <2>9. Moment' = At(pc, "line", CurAddress, View(u), code[pass])
    BY <2>2 DEF Moment, View
  <2> QED BY <1>2, <2>4, <2>6, <2>8, <2>9
<1>6. CASE Emit
  <2> DEFINE e == s.expr
             x == ValueOf(e)
             a == CurAddress + (IF s.op = "DW" THEN 2 ELSE x)
             o == Append(code[pass], <<pc, CurAddress, x>>)
  <2>1. s.op \in {"DW", "DS"} /\ e \in Exprs
    BY <1>1, <1>6 DEF Emit, Assembling, Statements
  <2>2. /\ table' = AfterParsing(e) /\ phase' = "line" /\ UNCHANGED <<pass, pc>>
        /\ CurAddress' = a /\ code' = [code EXCEPT ![pass] = o]
    BY <1>6 DEF Emit
  <2>3. code'[pass] = o
    BY <1>1, <2>2 DEF Typed
  <2>4. AfterStatement(Moment) = At(pc, "line", a, Touched(View(table), e), o)
    <3>1. AfterStatement(Moment) = AfterEmit(Moment, s.op, e)
      BY <2>1, MomentFields DEF AfterStatement
    <3>2. ValueAt(Moment, e) = x
      BY <2>1, ValueOfMoment
    <3> QED BY <3>1, <3>2, MomentFields DEF AfterEmit
  <2>5. pass < LASTPASS \/ Below(Touched(View(table), e), View(table))
    BY <1>3, <2>4 DEF At, LASTPASS
  <2>6. View(AfterParsing(e)) = Touched(View(table), e)
    BY <1>1, <2>1, <2>5, ViewTouched
  <2> HIDE DEF a, o
  <2>7. Moment' = At(pc, "line", a, View(AfterParsing(e)), o)
    BY <2>2, <2>3 DEF Moment, View
  <2> QED BY <1>2, <2>4, <2>6, <2>7
<1> QED BY <1>4, <1>5, <1>6

\* A step within a pass
Walks == ReadLine \/ Condition \/ LABEL \/ EQU \/ Emit

LEMMA WalkFollows ==
  ASSUME IInv, Typed, Steady, Walks
  PROVE  Moment' = After(Moment)
BY ReadLineFollows, ConditionFollows, StatementFollows DEF Walks, IInv, Steady

LEMMA WalkFacts ==
  ASSUME IInv, Walks
  PROVE  /\ ~(pass # 1 /\ Ends(Moment)) /\ phase # "exit" /\ phase' # "exit"
         /\ UNCHANGED <<pass, starts>> /\ Remember
         /\ pass # 1 => prog' = prog
<1>1. CASE ReadLine
  BY <1>1, MomentFields DEF ReadLine, Ends, IInv, TypeOK
<1>2. CASE Condition
  BY <1>2, MomentFields DEF Condition, Always, dirIF, IfExist, dirIFUSED, Branch, Ends
<1>3. CASE LABEL \/ EQU \/ Emit
  BY <1>3, MomentFields DEF LABEL, EQU, Emit, ParseLabel, Assembling, Ends
<1> QED BY <1>1, <1>2, <1>3 DEF Walks

\* The program does not change after pass 1.
LEMMA SameProgram ==
  ASSUME prog' = prog
  PROVE  \A m : After(m)' = After(m) /\ Ends(m)' = Ends(m)
BY DEF After, AfterLine, AfterCondition, AfterStatement, AfterLabel, AfterEqu, AfterEmit,
       Holds, LineOf, Ends, Touched, Defined, ValueAt, Asks, At

\* The flags of a table only grow in a step that defines or marks.
LEMMA AfterGrows ==
  ASSUME IInv, Walks
  PROVE  Below(View(table), After(Moment).view)
<1> DEFINE v == View(table)
<1>1. ASSUME NEW e \in Exprs PROVE Below(v, Touched(v, e)) /\ DOMAIN Touched(v, e) = Labels
  BY DEF Below, Touched, View
<1>2. ASSUME NEW w, DOMAIN w = Labels, Below(v, w), NEW n \in Labels, NEW x
      PROVE  Below(v, Defined(w, n, x))
  <2>1. \A k \in Labels \ {n} : Defined(w, n, x)[k] = w[k]
    BY <1>2 DEF Defined
  <2>2. /\ Defined(w, n, x)[n].present /\ Defined(w, n, x)[n].defined
        /\ Defined(w, n, x)[n].used = w[n].used
    BY <1>2 DEF Defined
  <2> QED BY <1>2, <2>1, <2>2 DEF Below
<1>3. Below(v, v) /\ DOMAIN v = Labels
  BY DEF Below, View
<1> HIDE DEF v
<1>4. CASE ReadLine
  <2>1. After(Moment) = AfterLine(Moment)
    BY <1>4, MomentFields DEF After, ReadLine
  <2> QED BY <1>3, <2>1, MomentFields DEF AfterLine, At, v
<1>5. CASE Condition
  <2>1. phase = "condition"
    BY <1>5 DEF Condition, Always, dirIF, IfExist, dirIFUSED
  <2>2. After(Moment) = AfterCondition(Moment) /\ Line.cond \in Conditions
    BY <2>1, MomentFields, LineFacts DEF After
  <2>3. CASE Line.cond.if \in {"IF", "IFN"}
    <3>1. Asks(Line.cond) \in Exprs
      BY <2>2, <2>3 DEF Asks, Exprs, Conditions
    <3>2. AfterCondition(Moment).view = Touched(v, Asks(Line.cond))
      BY <2>3, MomentFields DEF AfterCondition, At, v
    <3> QED BY <1>1, <2>2, <3>1, <3>2 DEF v
  <2>4. CASE Line.cond.if \notin {"IF", "IFN"}
    <3>1. AfterCondition(Moment).view = v
      BY <2>4, MomentFields DEF AfterCondition, At, v
    <3> QED BY <1>3, <2>2, <3>1 DEF v
  <2> QED BY <2>3, <2>4
<1>6. CASE LABEL \/ EQU \/ Emit
  <2> DEFINE s == Line.stmt
  <2>1. phase = "statement" /\ s \in Statements
    BY <1>6, LineFacts DEF LABEL, EQU, Emit, Assembling
  <2>2. After(Moment) = AfterStatement(Moment)
    BY <2>1, MomentFields DEF After
  <2>3. CASE s.op = "LABEL"
    <3>1. s.name \in Labels
      BY <2>1, <2>3 DEF Statements
    <3>2. AfterStatement(Moment).view = Defined(v, s.name, CurAddress)
      BY <2>3, MomentFields DEF AfterStatement, AfterLabel, At, v
    <3> QED BY <1>2, <1>3, <2>2, <3>1, <3>2 DEF v
  <2>4. CASE s.op \in {"EQU", "DEFL"}
    <3>1. s.name \in Labels /\ s.expr \in Exprs
      BY <2>1, <2>4 DEF Statements
    <3>2. AfterStatement(Moment).view = Defined(Touched(v, s.expr), s.name, ValueAt(Moment, s.expr))
      BY <2>4, MomentFields DEF AfterStatement, AfterEqu, At, v
    <3> QED BY <1>1, <1>2, <2>2, <3>1, <3>2 DEF v
  <2>5. CASE s.op \in {"DW", "DS"}
    <3>1. s.expr \in Exprs
      BY <2>1, <2>5 DEF Statements
    <3>2. AfterStatement(Moment).view = Touched(v, s.expr)
      BY <2>5, MomentFields DEF AfterStatement, AfterEmit, At, v
    <3> QED BY <1>1, <2>2, <3>1, <3>2 DEF v
  <2> QED BY <2>1, <2>3, <2>4, <2>5 DEF Statements
<1> QED BY <1>4, <1>5, <1>6 DEF Walks

LEMMA BelowTransitive ==
  \A u, v, w : Below(u, v) /\ Below(v, w) => Below(u, w)
BY DEF Below

LEMMA TypedStep ==
  ASSUME IInv, Typed, Next
  PROVE  Typed'
<1>1. CASE Emit
  <2> DEFINE e == Line.stmt.expr
             x == <<pc, CurAddress, ValueOf(e)>>
  <2>1. Line.stmt \in Statements /\ Line.stmt.op \in {"DW", "DS"} /\ TypeOK
    BY <1>1, LineFacts DEF Emit, Assembling, IInv
  <2>2. ValueOf(e) \in Int
    BY <2>1, ExprFacts DEF Statements
  <2>3. x \in Nat \X Int \X Int
    <3>1. pc \in Nat /\ CurAddress \in Int
      BY <2>1 DEF TypeOK
    <3> QED BY <2>2, <3>1
  <2>4. code' = [code EXCEPT ![pass] = Append(code[pass], x)] /\ UNCHANGED starts
    BY <1>1 DEF Emit
  <2> HIDE DEF x
  <2> QED BY <2>1, <2>3, <2>4 DEF Typed, TypeOK
<1>2. CASE NextPass
  <2>1. starts' = [starts EXCEPT ![pass + 1] = table] /\ UNCHANGED code
    BY <1>2 DEF NextPass
  <2> QED BY <2>1 DEF Typed, IInv, TypeOK
<1>3. CASE ~Emit /\ ~NextPass
  <2>1. UNCHANGED <<code, starts>>
    BY <1>3 DEF Next, ReadLine, Condition, LABEL, EQU, ParseLabel, LastPassDone, Exited, vars
  <2> QED BY <2>1 DEF Typed
<1> QED BY <1>1, <1>2, <1>3

\* A step of pass 2 adds the moment after the last one.
LEMMA PassTwoStep ==
  ASSUME IInv, Typed, PassTwo, pass = 2, Walks
  PROVE  PassTwo'
<1>1. Moment' = After(Moment)
  BY WalkFollows DEF Steady
<1>2. ~Ends(Moment) /\ UNCHANGED <<pass, starts, prog>> /\ trace' = trace \cup {Moment'}
  BY WalkFacts DEF Remember
<1>3. Begin' = Begin
  BY <1>2 DEF Begin
<1>4. Moment.view = View(table) /\ Moment'.view = View(table')
  BY MomentFields DEF Moment, At, View
<1>5. Below(View(table), Moment'.view)
  BY <1>1, AfterGrows
<1>6. ASSUME NEW m \in trace'
      PROVE  /\ Below(Begin.view, m.view) /\ Below(m.view, View(table'))
             /\ m = Moment' \/ (~Ends(m) /\ After(m) \in trace')
  <2>1. CASE m = Moment'
    <3>1. Below(Begin.view, View(table))
      BY <1>4 DEF PassTwo
    <3>2. Below(m.view, m.view)
      BY DEF Below
    <3> QED BY <1>4, <1>5, <2>1, <3>1, <3>2, BelowTransitive
  <2>2. CASE m \in trace
    <3>1. Below(Begin.view, m.view) /\ Below(m.view, View(table))
      BY <2>2 DEF PassTwo
    <3>2. m = Moment \/ (~Ends(m) /\ After(m) \in trace)
      BY <2>2 DEF PassTwo
    <3>3. ~Ends(m) /\ After(m) \in trace'
      BY <1>1, <1>2, <3>2
    <3> QED BY <1>4, <1>5, <3>1, <3>3, BelowTransitive
  <2> QED BY <1>2, <2>1, <2>2
<1>7. \A m : After(m)' = After(m) /\ Ends(m)' = Ends(m)
  BY <1>2, SameProgram
<1>8. Begin \in trace' /\ Moment' \in trace'
  BY <1>2 DEF PassTwo
<1>9. \A m \in trace' : /\ Below(Begin'.view, m.view) /\ Below(m.view, View(table'))
                        /\ m = Moment' \/ (~Ends(m)' /\ After(m)' \in trace')
  BY <1>3, <1>6, <1>7
<1> QED BY <1>3, <1>8, <1>9 DEF PassTwo, Below, View

\* When pass 2 changed no flag and no value, a step of pass 3 stays on the
\* moments of pass 2.
LEMMA PassThreeStep ==
  ASSUME IInv, Typed, PassThree, pass = LASTPASS, Walks
  PROVE  PassThree'
<1>1. /\ ~Ends(Moment) /\ phase # "exit" /\ phase' # "exit"
      /\ UNCHANGED <<pass, starts, prog, trace>>
  BY WalkFacts DEF Remember, LASTPASS
<1>2. code'[2] = code[2]
  <2>1. CASE Emit
    BY <2>1 DEF Emit, Typed, LASTPASS
  <2>2. CASE ReadLine \/ Condition \/ LABEL \/ EQU
    BY <2>2 DEF ReadLine, Condition, LABEL, EQU, ParseLabel
  <2> QED BY <2>1, <2>2 DEF Walks
<1>3. Begin' = Begin /\ Settled' = Settled
  BY <1>1 DEF Begin, Settled, View
<1>4. \A m : After(m)' = After(m) /\ Ends(m)' = Ends(m)
  BY <1>1, SameProgram
<1>5. ASSUME Settled PROVE Moment' \in trace
  <2>1. Moment \in trace /\ After(Moment) \in trace
    BY <1>1, <1>5 DEF PassThree
  <2>2. Below(After(Moment).view, View(starts[3])) /\ Below(Begin.view, View(table))
    BY <2>1, MomentFields DEF PassThree
  <2>3. View(starts[3]) = Begin.view
    BY <1>5 DEF Settled, Begin, At
  <2>4. Below(After(Moment).view, View(table))
    BY <2>2, <2>3, BelowTransitive
  <2> QED BY <2>1, <2>4, WalkFollows DEF Steady
<1>6. \A m \in trace' : /\ Below(Begin'.view, m.view) /\ Below(m.view, View(starts[3])')
                        /\ IF Ends(m)' THEN m.out = code'[2] ELSE After(m)' \in trace'
  BY <1>1, <1>2, <1>3, <1>4 DEF PassThree, View
<1>7. Begin' \in trace' /\ (Settled' => Moment' \in trace')
  BY <1>1, <1>3, <1>5 DEF PassThree
<1> QED BY <1>1, <1>6, <1>7 DEF PassThree, Below, View

LEMMA NextPassStep ==
  ASSUME IInv, RepeatInv, NextPass
  PROVE  RepeatInv'
<1>1. /\ phase = "line" /\ pc = Len(prog) /\ pass \in {1, 2} /\ pass' = pass + 1
      /\ pc' = 0 /\ CurAddress' = 0 /\ UNCHANGED <<table, phase, prog, code>>
      /\ starts' = [starts EXCEPT ![pass + 1] = table] /\ Remember
  BY DEF NextPass, IInv, TypeOK, LASTPASS
<1>2. Typed /\ Typed'
  BY TypedStep DEF RepeatInv, Next
<1>3. starts'[pass + 1] = table /\ \A q \in 1 .. LASTPASS : q # pass + 1 => starts'[q] = starts[q]
  BY <1>1, <1>2 DEF Typed, LASTPASS
<1>4. Moment' = At(0, "line", 0, View(table), code[pass + 1])
  BY <1>1 DEF Moment, View
<1>5. CASE pass = 1
  <2>1. pass' = 2 /\ trace' = {Moment'} /\ code[2] = << >> /\ code[3] = << >>
    BY <1>1, <1>5 DEF Remember, RepeatInv, LASTPASS
  <2>2. Begin' = Moment'
    <3>1. View(starts[2])' = View(table)
      BY <1>3, <1>5 DEF View
    <3> QED BY <1>4, <1>5, <2>1, <3>1 DEF Begin
  <2>3. Moment'.view = View(table')
    BY <1>1, <1>4 DEF At, View
  <2>4. Below(View(table'), View(table'))
    BY DEF Below
  <2>5. \A m \in trace' : /\ Below(Begin'.view, m.view) /\ Below(m.view, View(table'))
                          /\ m = Moment' \/ (~Ends(m)' /\ After(m)' \in trace')
    BY <2>1, <2>2, <2>3, <2>4
  <2>6. PassTwo'
    BY <2>1, <2>2, <2>5 DEF PassTwo, Below, View
  <2> QED BY <1>1, <1>2, <2>1, <2>6 DEF RepeatInv, LASTPASS
<1>6. CASE pass = 2
  <2>1. pass' = 3 /\ trace' = trace /\ PassTwo /\ code[3] = << >>
    BY <1>1, <1>6 DEF Remember, RepeatInv, LASTPASS
  <2>2. starts'[3] = table /\ starts'[2] = starts[2]
    BY <1>3, <1>6 DEF LASTPASS
  <2>3. View(starts[3])' = View(table) /\ View(starts[2])' = View(starts[2])
    BY <2>2 DEF View
  <2>4. Begin' = Begin
    BY <2>3 DEF Begin
  <2>5. \A m : After(m)' = After(m) /\ Ends(m)' = Ends(m)
    BY <1>1, SameProgram
  <2>6. Ends(Moment) /\ Moment.out = code[2] /\ Moment.view = View(table)
    BY <1>1, <1>6, MomentFields DEF Ends
  <2>7. \A m \in trace : /\ Below(Begin.view, m.view) /\ Below(m.view, View(table))
                         /\ IF Ends(m) THEN m.out = code[2] ELSE After(m) \in trace
    BY <2>1, <2>6 DEF PassTwo
  <2>8. \A m \in trace' : /\ Below(Begin'.view, m.view) /\ Below(m.view, View(starts[3])')
                          /\ IF Ends(m)' THEN m.out = code'[2] ELSE After(m)' \in trace'
    BY <1>1, <2>1, <2>3, <2>4, <2>5, <2>7
  <2>9. Settled' => Moment' = Begin
    <3> SUFFICES ASSUME Settled' PROVE Moment' = Begin
      OBVIOUS
    <3>1. View(table) = View(starts[2])
      BY <2>3 DEF Settled
    <3> QED BY <1>4, <1>6, <2>1, <3>1 DEF Begin
  <2>10. Begin \in trace /\ phase' # "exit"
    BY <1>1, <2>1 DEF PassTwo
  <2>11. PassThree'
    BY <2>1, <2>4, <2>8, <2>9, <2>10 DEF PassThree, Below, View
  <2> QED BY <1>2, <2>1, <2>11 DEF RepeatInv, LASTPASS
<1> QED BY <1>1, <1>5, <1>6

LEMMA LastPassDoneStep ==
  ASSUME IInv, RepeatInv, LastPassDone
  PROVE  RepeatInv'
<1>1. /\ phase = "line" /\ pc = Len(prog) /\ pass = LASTPASS /\ phase' = "exit"
      /\ UNCHANGED <<table, pass, pc, CurAddress, prog, code, starts, trace>>
  BY DEF LastPassDone
<1>2. Typed /\ Typed'
  BY TypedStep DEF RepeatInv, Next
<1>3. Ends(Moment) /\ Moment.out = code[3] /\ PassThree
  BY <1>1, MomentFields DEF Ends, RepeatInv, LASTPASS
<1>4. Settled => code[3] = code[2]
  BY <1>1, <1>3 DEF PassThree
<1>5. \A m : After(m)' = After(m) /\ Ends(m)' = Ends(m)
  BY <1>1, SameProgram
<1>6. Begin' = Begin /\ Settled' = Settled /\ View(starts[3])' = View(starts[3])
  BY <1>1 DEF Begin, Settled, View
<1>7. \A m \in trace' : /\ Below(Begin'.view, m.view) /\ Below(m.view, View(starts[3])')
                        /\ IF Ends(m)' THEN m.out = code'[2] ELSE After(m)' \in trace'
  BY <1>1, <1>3, <1>5, <1>6 DEF PassThree
<1>8. PassThree'
  BY <1>1, <1>3, <1>4, <1>6, <1>7 DEF PassThree, Below, View
<1> QED BY <1>1, <1>2, <1>8 DEF RepeatInv, LASTPASS

LEMMA InitRepeats == Init => RepeatInv
<1> SUFFICES ASSUME Init PROVE RepeatInv
  OBVIOUS
<1>1. Absent \in Entries
  BY DEF Absent, Entries, LASTPASS
<1>2. << >> \in Seq(Nat \X Int \X Int)
  OBVIOUS
<1> QED BY <1>1, <1>2 DEF Init, RepeatInv, Typed, LASTPASS

LEMMA NextRepeats == IInv /\ RepeatInv /\ [Next]_vars => RepeatInv'
<1> SUFFICES ASSUME IInv, RepeatInv, [Next]_vars PROVE RepeatInv'
  OBVIOUS
<1>1. CASE Walks
  <2>1. /\ phase # "exit" /\ phase' # "exit" /\ UNCHANGED <<pass, starts>> /\ Remember
        /\ pass # 1 => prog' = prog
    BY <1>1, WalkFacts
  <2>2. Typed'
    BY <1>1, TypedStep DEF RepeatInv, Next, Walks
  <2>3. \A q \in 1 .. LASTPASS : q # pass => code'[q] = code[q]
    BY <1>1 DEF Walks, ReadLine, Condition, LABEL, EQU, ParseLabel, Emit, RepeatInv, Typed
  <2>4. CASE pass = 1
    BY <2>1, <2>2, <2>3, <2>4 DEF RepeatInv, Remember, LASTPASS
  <2>5. CASE pass = 2
    <3>1. PassTwo'
      BY <1>1, <2>5, PassTwoStep DEF RepeatInv
    <3> QED BY <2>1, <2>2, <2>3, <2>5, <3>1 DEF RepeatInv, LASTPASS
  <2>6. CASE pass = LASTPASS
    <3>1. PassThree'
      BY <1>1, <2>6, PassThreeStep DEF RepeatInv, LASTPASS
    <3> QED BY <2>1, <2>2, <2>6, <3>1 DEF RepeatInv, LASTPASS
  <2> QED BY <2>4, <2>5, <2>6 DEF IInv, TypeOK, LASTPASS
<1>2. CASE NextPass
  BY <1>2, NextPassStep
<1>3. CASE LastPassDone
  BY <1>3, LastPassDoneStep
<1>4. CASE UNCHANGED vars
  <2>1. UNCHANGED <<code, trace, pass, phase, starts, prog, table, pc, CurAddress>>
    BY <1>4 DEF vars
  <2>2. \A m : After(m)' = After(m) /\ Ends(m)' = Ends(m)
    BY <2>1, SameProgram
  <2>3. Begin' = Begin /\ Moment' = Moment /\ Settled' = Settled
    BY <2>1 DEF Begin, Moment, Settled, View
  <2>4. PassTwo => PassTwo'
    BY <2>1, <2>2, <2>3 DEF PassTwo, Below, View
  <2>5. PassThree => PassThree'
    BY <2>1, <2>2, <2>3 DEF PassThree, Below, View
  <2>6. Typed => Typed'
    BY <2>1 DEF Typed
  <2> QED BY <2>1, <2>4, <2>5, <2>6 DEF RepeatInv
<1> QED BY <1>1, <1>2, <1>3, <1>4 DEF Next, Walks, Exited

\* A pass that changed nothing is repeated exactly: when pass 2 ends with the
\* table it started with, the last pass emits the same code at the same
\* addresses, whatever IF, IFUSED and DS make of the labels
\* (CLabelTable::GetLabelValue, ParseLabel, main's loop over the passes).
THEOREM LabelPassesSettledRepeats == Spec => []SettledRepeats
<1>1. IInv /\ RepeatInv => SettledRepeats
  <2> SUFFICES ASSUME IInv, RepeatInv, phase = "exit", Content(starts[2]) = Content(starts[3])
               PROVE  code[3] = code[2]
    BY DEF SettledRepeats
  <2>1. PassThree
    BY DEF IInv, RepeatInv, LASTPASS
  <2>2. Settled
    <3>1. starts[2] \in [Labels -> Entries] /\ starts[3] \in [Labels -> Entries]
      BY DEF RepeatInv, Typed, LASTPASS
    <3>2. ASSUME NEW n \in Labels
          PROVE  /\ starts[2][n].present = starts[3][n].present
                 /\ starts[2][n].defined = starts[3][n].defined
                 /\ starts[2][n].value = starts[3][n].value
                 /\ starts[2][n].used = starts[3][n].used
      <4>1. [starts[2][n] EXCEPT !.updatePass = 0] = [starts[3][n] EXCEPT !.updatePass = 0]
        BY DEF Content
      <4>2. starts[2][n] \in Entries /\ starts[3][n] \in Entries
        BY <3>1
      <4> QED BY <4>1, <4>2 DEF Entries
    <3> QED BY <3>2 DEF Settled, View
  <2> QED BY <2>1, <2>2 DEF PassThree
<1>2. Spec => [](IInv /\ RepeatInv)
  <2>1. Init => IInv /\ RepeatInv
    BY InitInvariant, InitRepeats
  <2>2. (IInv /\ RepeatInv) /\ [Next]_vars => (IInv /\ RepeatInv)'
    BY NextInvariant, NextRepeats
  <2> QED BY <2>1, <2>2, PTL DEF Spec
<1> QED BY <1>1, <1>2, PTL

=============================================================================
