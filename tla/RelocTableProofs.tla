-------------------------- MODULE RelocTableProofs --------------------------
(***************************************************************************)
(* Proofs about RelocTable for every program, of any number of lines and   *)
(* with any lines hidden from any pass: reading the table of the previous  *)
(* pass stays inside of it, and a table that the last pass emitted without *)
(* a warning has all the offsets of that pass.                             *)
(*                                                                         *)
(* For a source with the same lines in every pass, three passes are        *)
(* enough.  Which lines open blocks and add offsets follows from the       *)
(* control alone, never from an address: pass 2 goes through the controls  *)
(* of pass 1 and collects as many offsets.  So every table of pass 2 has   *)
(* its final size, and pass 3 goes through the moments of pass 2.          *)
(***************************************************************************)
EXTENDS RelocTable, SequenceTheorems, TLAPS

\* The initial state has empty tables.
LEMMA InitIInv == Init => IInv
<1> SUFFICES ASSUME Init PROVE IInv
  OBVIOUS
<1> USE LinesAssumption DEF Init
<1>1. /\ offsets \in Seq(Words) /\ offsetsPrevious \in Seq(Words) /\ prog \in Seq(Lines)
  BY SMT
<1>2. TypeOK
  <2>1. /\ offsets = << >> /\ prog = << >> /\ pc = 0 /\ pass = 1
        /\ maxTableCount = 0 /\ CurAddress = 0 /\ adrdisp = 0
        /\ type = OFF /\ mode = OFF /\ PseudoORG = "DISP_NONE" /\ phase = "line"
    OBVIOUS
  <2>2. warnAboutContentChange \in BOOLEAN /\ inconsistent \in BOOLEAN
    OBVIOUS
  <2>3. QED
    BY ONLY <1>1, <2>1, <2>2 DEF TypeOK, Passes, LASTPASS, OFF, REGULAR, HIGH
<1>3. QED
  BY <1>2 DEF IInv, CountIsBacked, CountCoversPrevious, TablesAreWatched, SilentTablesAgree

\* A line of the program has one of the shapes of LineType.
LEMMA LineIsTyped ==
  ASSUME TypeOK, phase = "parse" PROVE Line \in LineType
BY LinesAssumption DEF TypeOK, Line

\* What the tables say does not change while the table variables do not.
LEMMA TablesKept ==
  ASSUME IInv, UNCHANGED <<offsets, offsetsPrevious, maxTableCount,
                           warnAboutContentChange, inconsistent, tables, pass>>
  PROVE  /\ CountIsBacked' /\ CountCoversPrevious' /\ TablesAreWatched'
         /\ SilentTablesAgree'
BY DEF IInv, CountIsBacked, CountCoversPrevious, TablesAreWatched, SilentTablesAgree, Entry

\* RELOCATE_START and RELOCATE_END only raise the count to the offsets of
\* the current pass.
LEMMA CountRefreshed ==
  ASSUME IInv, refreshMaxTableCount,
         UNCHANGED <<offsets, offsetsPrevious, warnAboutContentChange,
                     inconsistent, tables, pass>>
  PROVE  /\ maxTableCount' \in Nat
         /\ CountIsBacked' /\ CountCoversPrevious' /\ TablesAreWatched'
         /\ SilentTablesAgree'
BY DEF IInv, TypeOK, refreshMaxTableCount, CountIsBacked, CountCoversPrevious,
       TablesAreWatched, SilentTablesAgree, Entry

\* addOffsetToRelocate: an offset that contradicts an emitted table is
\* reported, any other one is already in it.
LEMMA OffsetAdded ==
  ASSUME IInv, NEW offset \in Int, addOffsetToRelocate(offset),
         UNCHANGED <<offsetsPrevious, maxTableCount, tables, pass>>
  PROVE  /\ offsets' \in Seq(Words)
         /\ warnAboutContentChange' \in BOOLEAN /\ inconsistent' \in BOOLEAN
         /\ CountIsBacked' /\ CountCoversPrevious' /\ TablesAreWatched'
         /\ SilentTablesAgree'
<1> DEFINE w == offset % WordRange
<1>1. w \in Words
  BY LinesAssumption DEF Words
<1>2. /\ offsets \in Seq(Words) /\ offsets' = Append(offsets, w)
      /\ offsetsPrevious \in Seq(Words) /\ maxTableCount \in Nat
  BY DEF addOffsetToRelocate, IInv, TypeOK
<1> HIDE DEF w
<1>3. /\ offsets' \in Seq(Words) /\ Len(offsets') = Len(offsets) + 1
      /\ offsets'[Len(offsets) + 1] = w
      /\ \A i \in 1 .. Len(offsets) : offsets'[i] = offsets[i]
  BY <1>1, <1>2
<1>4. warnAboutContentChange' \in BOOLEAN /\ inconsistent' \in BOOLEAN
  BY DEF addOffsetToRelocate
<1>5. CountIsBacked' /\ CountCoversPrevious'
  BY <1>2, <1>3 DEF IInv, CountIsBacked, CountCoversPrevious
<1>6. TablesAreWatched'
  BY DEF IInv, TypeOK, TablesAreWatched, addOffsetToRelocate
<1>7. ASSUME ~inconsistent', NEW t \in tables
      PROVE  /\ t \in Seq(Words) /\ Len(offsets') <= Len(t)
             /\ Len(offsetsPrevious) <= Len(t)
             /\ \A i \in 1 .. Len(t) :
                  t[i] = IF i <= Len(offsets') THEN offsets'[i] ELSE offsetsPrevious[i]
  <2>1. ~inconsistent /\ ~Differs(offset)
    BY <1>7 DEF addOffsetToRelocate
  <2>2. warnAboutContentChange
    BY <1>7, <2>1 DEF IInv, TablesAreWatched
  <2>3. /\ Len(offsets) + 1 <= Len(offsetsPrevious)
        /\ offsetsPrevious[Len(offsets) + 1] = offset
    BY <1>2, <2>1, <2>2 DEF Differs
  <2>4. offset \in Words
    BY <1>2, <2>3
  <2>5. w = offset
    BY <2>4, LinesAssumption DEF w, Words
  <2>6. /\ t \in Seq(Words) /\ Len(offsets) <= Len(t) /\ Len(offsetsPrevious) <= Len(t)
        /\ \A i \in 1 .. Len(t) : t[i] = Entry(i)
    BY <1>7, <2>1 DEF IInv, SilentTablesAgree
  <2>7. ASSUME NEW i \in 1 .. Len(t)
        PROVE  t[i] = IF i <= Len(offsets') THEN offsets'[i] ELSE offsetsPrevious[i]
    <3>1. t[i] = IF i <= Len(offsets) THEN offsets[i] ELSE offsetsPrevious[i]
      BY <2>6 DEF Entry
    <3>2. i = Len(offsets) + 1 => offsetsPrevious[i] = offsets'[i]
      BY <1>3, <2>3, <2>5
    <3>3. QED
      BY <1>2, <1>3, <2>6, <3>1, <3>2
  <2>8. QED
    BY <1>2, <1>3, <2>3, <2>6, <2>7
<1>8. SilentTablesAgree'
  BY <1>7 DEF SilentTablesAgree, Entry
<1>9. QED
  BY <1>3, <1>4, <1>5, <1>6, <1>8

\* RELOCATE_TABLE: the new table has every offset of both passes.
LEMMA TableEmitted ==
  ASSUME IInv, dirRELOCATE_TABLE, UNCHANGED pass
  PROVE  /\ maxTableCount' \in Nat /\ warnAboutContentChange' \in BOOLEAN
         /\ CountIsBacked' /\ CountCoversPrevious' /\ TablesAreWatched'
         /\ SilentTablesAgree'
<1> DEFINE n == maxTableCount'
           table == [i \in 1 .. n |-> Entry(i)]
<1>1. /\ offsets \in Seq(Words) /\ offsetsPrevious \in Seq(Words)
      /\ n \in Nat /\ Len(offsets) <= n /\ Len(offsetsPrevious) <= n
      /\ n <= Len(offsets) \/ n <= Len(offsetsPrevious)
  BY DEF dirRELOCATE_TABLE, refreshMaxTableCount, IInv, TypeOK, CountIsBacked,
         CountCoversPrevious
<1>2. UNCHANGED <<offsets, offsetsPrevious, inconsistent>>
  BY DEF dirRELOCATE_TABLE
<1>3. CountIsBacked' /\ CountCoversPrevious'
  BY <1>1, <1>2 DEF CountIsBacked, CountCoversPrevious
<1>4. /\ warnAboutContentChange' = (pass = LASTPASS)
      /\ tables' = IF pass = LASTPASS THEN tables \cup {table} ELSE tables
  BY DEF dirRELOCATE_TABLE
<1>5. warnAboutContentChange' \in BOOLEAN
  BY <1>4
<1>6. TablesAreWatched'
  BY <1>4, <1>2 DEF IInv, TablesAreWatched
<1> HIDE DEF n
<1>7. \A i \in 1 .. n : Entry(i) \in Words
  BY <1>1 DEF Entry
<1>8. /\ table \in Seq(Words) /\ Len(table) = n
      /\ \A i \in 1 .. Len(table) : table[i] = Entry(i)
  BY <1>1, <1>7
<1> HIDE DEF table
<1>9. ASSUME ~inconsistent, NEW t \in tables'
      PROVE  /\ t \in Seq(Words) /\ Len(offsets) <= Len(t)
             /\ Len(offsetsPrevious) <= Len(t)
             /\ \A i \in 1 .. Len(t) : t[i] = Entry(i)
  <2>1. CASE t \in tables
    BY <1>9, <2>1 DEF IInv, SilentTablesAgree
  <2>2. CASE t = table
    BY <1>1, <1>8, <2>2
  <2>3. QED
    BY <1>4, <1>9, <2>1, <2>2
<1>10. SilentTablesAgree'
  BY <1>2, <1>9 DEF SilentTablesAgree, Entry
<1>11. QED
  BY <1>1, <1>3, <1>5, <1>6, <1>10 DEF n

\* No source line breaks the invariant.
LEMMA ParseLinePreserves == ASSUME IInv, ParseLine PROVE IInv'
<1>1. TypeOK /\ phase' = "line" /\ UNCHANGED <<pass, pc, prog>>
  BY DEF IInv, ParseLine, source
<1>2. phase = "parse"
  BY DEF ParseLine, Data, dirRELOCATE_START, dirRELOCATE_END, dirRELOCATE_TABLE,
         DISP, ENT, Skipped, Parsing
<1>3. Line \in LineType
  BY <1>1, <1>2, LineIsTyped
<1> DEFINE Blocks == /\ type \in {OFF, REGULAR, HIGH} /\ mode \in {OFF, REGULAR, HIGH}
                     /\ CurAddress \in Nat /\ adrdisp \in Nat
                     /\ PseudoORG \in {"DISP_NONE", "DISP_ACTIVE", "DISP_INSIDE_RELOCATE"}
           Collected == /\ offsets \in Seq(Words) /\ offsetsPrevious \in Seq(Words)
                        /\ maxTableCount \in Nat /\ warnAboutContentChange \in BOOLEAN
                        /\ inconsistent \in BOOLEAN
           Agreed == /\ CountIsBacked /\ CountCoversPrevious /\ TablesAreWatched
                     /\ SilentTablesAgree
<1>4. Blocks /\ Collected
  BY <1>1 DEF TypeOK
<1>5. SUFFICES Blocks' /\ Collected' /\ Agreed'
  <2>1. ASSUME Blocks', Collected' PROVE TypeOK'
    BY <1>1, <2>1 DEF TypeOK
  <2>2. QED
    BY <2>1, <1>5 DEF IInv
<1>6. ASSUME UNCHANGED <<reloc, place, inconsistent, tables>>
      PROVE  Blocks' /\ Collected' /\ Agreed'
  BY <1>1, <1>4, <1>6, TablesKept DEF reloc, place
<1>7. CASE Data
  <2> DEFINE minType == IF Line.op = "DB" THEN HIGH ELSE REGULAR
             delta == deltaType(Line.expr)
  <2>1. delta \in Int /\ Address \in Int /\ type \in Int
    BY <1>4 DEF deltaType, Address, OFF, REGULAR, HIGH
  <2>2. /\ resolveRelocationAffected(minType, delta)
        /\ UNCHANGED <<offsetsPrevious, maxTableCount, type, mode, tables>>
    BY <1>7 DEF Data
  <2>3. Blocks'
    BY <1>4, <1>7 DEF Data, Advance
  <2> HIDE DEF minType, delta
  <2>4. \/ addOffsetToRelocate(Address + type - delta)
        \/ UNCHANGED <<offsets, inconsistent, warnAboutContentChange>>
    BY <2>2 DEF resolveRelocationAffected, Ignore, Complain
  <2>5. CASE addOffsetToRelocate(Address + type - delta)
    <3>1. Address + type - delta \in Int
      BY <2>1
    <3>2. QED
      BY <1>1, <1>4, <2>2, <2>3, <2>5, <3>1, OffsetAdded
  <2>6. CASE UNCHANGED <<offsets, inconsistent, warnAboutContentChange>>
    BY <1>1, <1>4, <2>2, <2>3, <2>6, TablesKept
  <2>7. QED
    BY <2>4, <2>5, <2>6
<1>8. CASE dirRELOCATE_START
  <2>1. CASE UNCHANGED <<reloc, place, inconsistent, tables>>
    BY <1>6, <2>1
  <2>2. CASE /\ type' \in {OFF, REGULAR, HIGH} /\ mode' \in {OFF, REGULAR, HIGH}
             /\ refreshMaxTableCount
             /\ UNCHANGED <<offsets, offsetsPrevious, warnAboutContentChange, place,
                            inconsistent, tables>>
    BY <1>1, <1>4, <2>2, CountRefreshed DEF place
  <2>3. QED
    BY <1>8, <2>1, <2>2 DEF dirRELOCATE_START, Rejected
<1>9. CASE dirRELOCATE_END
  <2>1. CASE UNCHANGED <<reloc, place, inconsistent, tables>>
    BY <1>6, <2>1
  <2>2. CASE /\ type' = OFF /\ mode' = mode /\ refreshMaxTableCount
             /\ UNCHANGED <<offsets, offsetsPrevious, warnAboutContentChange, place,
                            inconsistent, tables>>
    BY <1>1, <1>4, <2>2, CountRefreshed DEF place
  <2>3. QED
    BY <1>9, <2>1, <2>2 DEF dirRELOCATE_END, Rejected
<1>10. CASE dirRELOCATE_TABLE
  <2>1. /\ maxTableCount' \in Nat /\ warnAboutContentChange' \in BOOLEAN /\ Agreed'
    BY <1>1, <1>10, TableEmitted
  <2>2. Blocks'
    <3> DEFINE size == 2 * maxTableCount'
    <3>1. size \in Nat
      <4>1. \A n \in Nat : 2 * n \in Nat
        OBVIOUS
      <4>2. maxTableCount' \in Nat
        BY <2>1
      <4>3. QED
        BY ONLY <4>1, <4>2, Zenon
    <3>2. Advance(size) /\ UNCHANGED <<type, mode>>
      BY <1>10 DEF dirRELOCATE_TABLE
    <3> HIDE DEF size
    <3>3. CurAddress' \in Nat /\ adrdisp' \in Nat /\ UNCHANGED PseudoORG
      BY <1>4, <3>1, <3>2 DEF Advance
    <3>4. QED
      BY <1>4, <3>2, <3>3
  <2>3. Collected'
    BY <1>4, <1>10, <2>1 DEF dirRELOCATE_TABLE
  <2>4. QED
    BY <2>1, <2>2, <2>3
<1>11. CASE DISP
  <2>1. UNCHANGED <<reloc, inconsistent, tables>>
    BY <1>11 DEF DISP
  <2>2. Collected' /\ Agreed' /\ type' = type /\ mode' = mode
    BY <1>1, <1>4, <2>1, TablesKept DEF reloc
  <2>3. Line.addr \in Nat
    BY <1>3, <1>11 DEF DISP, Parsing, LineType
  <2>4. Blocks'
    BY <1>4, <1>11, <2>2, <2>3 DEF DISP, place
  <2>5. QED
    BY <2>2, <2>4
<1>12. CASE ENT
  <2>1. UNCHANGED <<reloc, inconsistent, tables>>
    BY <1>12 DEF ENT, Rejected
  <2>2. Collected' /\ Agreed' /\ type' = type /\ mode' = mode
    BY <1>1, <1>4, <2>1, TablesKept DEF reloc
  <2>3. Blocks'
    BY <1>4, <1>12, <2>2 DEF ENT, Rejected, place
  <2>4. QED
    BY <2>2, <2>3
<1>13. CASE Skipped
  BY <1>6, <1>13 DEF Skipped
<1>14. QED
  BY <1>7, <1>8, <1>9, <1>10, <1>11, <1>12, <1>13 DEF ParseLine

\* The next pass starts with the offsets of this one as its previous table.
LEMMA NextPassPreserves == ASSUME IInv, NextPass PROVE IInv'
<1>1. /\ offsetsPrevious' = offsets /\ offsets' = << >> /\ type' = OFF
      /\ maxTableCount' = Len(offsets)
      /\ UNCHANGED <<warnAboutContentChange, mode, prog, phase, inconsistent, tables>>
      /\ phase = "line" /\ pass < LASTPASS /\ pass' = pass + 1 /\ pc' = 0
      /\ CurAddress' = 0 /\ adrdisp' = 0 /\ PseudoORG' = "DISP_NONE"
  BY DEF NextPass, InitPass
<1>2. TypeOK
  BY DEF IInv
<1>3. TypeOK'
  BY ONLY <1>1, <1>2 DEF TypeOK, Passes, LASTPASS, OFF, REGULAR, HIGH
<1>4. CountIsBacked' /\ CountCoversPrevious'
  BY ONLY <1>1, <1>2 DEF TypeOK, CountIsBacked, CountCoversPrevious
<1>5. tables = {}
  <2>1. pass # LASTPASS
    BY ONLY <1>1, <1>2 DEF TypeOK, Passes, LASTPASS
  <2>2. QED
    BY <2>1 DEF IInv, TablesAreWatched
<1>6. TablesAreWatched' /\ SilentTablesAgree'
  BY ONLY <1>1, <1>5 DEF TablesAreWatched, SilentTablesAgree
<1>7. QED
  BY <1>3, <1>4, <1>6 DEF IInv

\* Reading a line, ending the last pass and stuttering leave the tables alone.
LEMMA OtherStepsPreserve ==
  ASSUME IInv, ReadLine \/ LastPassDone \/ Exited \/ UNCHANGED vars PROVE IInv'
<1>1. UNCHANGED <<reloc, place, pass, inconsistent, tables>>
  BY DEF ReadLine, LastPassDone, Exited, vars, source
<1>2. CountIsBacked' /\ CountCoversPrevious' /\ TablesAreWatched' /\ SilentTablesAgree'
  BY <1>1, TablesKept DEF reloc
<1>3. /\ prog' \in Seq(Lines) /\ pc' \in 0 .. Len(prog')
      /\ phase' \in {"line", "parse", "exit"} /\ (phase' = "parse" => pc' > 0)
  <2>1. CASE ReadLine
    <3>1. CASE pc < Len(prog) /\ prog' = prog
      BY <2>1, <3>1 DEF IInv, TypeOK, ReadLine
    <3>2. CASE pc = Len(prog) /\ \E line \in Lines : prog' = Append(prog, line)
      BY <2>1, <3>2 DEF IInv, TypeOK, ReadLine
    <3>3. QED
      BY <2>1, <3>1, <3>2 DEF ReadLine
  <2>2. CASE LastPassDone \/ Exited \/ UNCHANGED vars
    BY <2>2 DEF IInv, TypeOK, LastPassDone, Exited, vars, source
  <2>3. QED
    BY <2>1, <2>2
<1>4. TypeOK'
  BY <1>1, <1>3 DEF IInv, TypeOK, reloc, place
<1>5. QED
  BY <1>2, <1>4 DEF IInv

\* The inductive invariant of relocate.cpp, for every program.
THEOREM RelocTableInvariant == Spec => []IInv
<1>1. IInv /\ [Next]_vars => IInv'
  BY ParseLinePreserves, NextPassPreserves, OtherStepsPreserve DEF Next
<1>2. QED
  BY <1>1, InitIInv, PTL DEF Spec

\* RELOCATE_TABLE never reads offsetsPrevious behind its end.
THEOREM RelocTableCountIsBacked == Spec => []CountIsBacked
<1>1. IInv => CountIsBacked
  BY DEF IInv
<1>2. QED
  BY <1>1, RelocTableInvariant, PTL

\* Without "table content differs in last pass", every emitted table has all
\* the offsets of the last pass, in order.
THEOREM RelocTableSilentTableHasAll == Spec => []SilentTableHasAll
<1>1. IInv => SilentTableHasAll
  BY DEF IInv, TypeOK, SilentTablesAgree, SilentTableHasAll, Entry
<1>2. QED
  BY <1>1, RelocTableInvariant, PTL

----------------------------------------------------------------------------
(* Three passes are enough *)

\* What a line does to the blocks, in a pass that does not skip it.
LineOf(m) == prog[m.pc]
Kind(l) == IF l.high THEN HIGH ELSE REGULAR
Starts(ty, md, l) == l.op = "START" /\ ty = OFF /\ md \in {OFF, Kind(l)}
ToType(ty, md, org, l) ==
  IF Starts(ty, md, l) THEN Kind(l)
  ELSE IF l.op = "END" /\ org # "DISP_INSIDE_RELOCATE" THEN OFF ELSE ty
ToMode(ty, md, l) == IF Starts(ty, md, l) THEN Kind(l) ELSE md
Displaces(org, l) == l.op = "DISP" /\ org = "DISP_NONE"
Returns(ty, org, l) == l.op = "ENT" /\ org # "DISP_NONE" /\ ~((org = "DISP_ACTIVE") = (ty # OFF))
ToOrg(ty, org, l) ==
  IF Displaces(org, l) THEN (IF ty = OFF THEN "DISP_ACTIVE" ELSE "DISP_INSIDE_RELOCATE")
  ELSE IF Returns(ty, org, l) THEN "DISP_NONE" ELSE org

\* Does a line add an offset, and which?
DeltaOf(ty, l) == IF l.expr = "label" THEN REGULAR
                  ELSE IF l.expr = "high" /\ ty = HIGH THEN HIGH ELSE OFF
Least(l) == IF l.op = "DB" THEN HIGH ELSE REGULAR
Collects(ty, l) ==
  l.op \in {"DW", "DB"} /\ ty # OFF /\ Least(l) <= ty /\ Least(l) <= DeltaOf(ty, l)
OffsetOf(m, l) == (IF m.org = "DISP_INSIDE_RELOCATE" THEN m.disp ELSE m.adr)
                  + m.type - DeltaOf(m.type, l)

\* The control that comes after c, and the moment after m when every table
\* has size words.
AfterControl(c) ==
  LET l == LineOf(c)
  IN  IF c.phase = "line" THEN Ctl(c.pc + 1, "parse", c.type, c.mode, c.org, c.n)
      ELSE Ctl(c.pc, "line", ToType(c.type, c.mode, c.org, l), ToMode(c.type, c.mode, l),
               ToOrg(c.type, c.org, l), IF Collects(c.type, l) THEN c.n + 1 ELSE c.n)

Emits(l, size) == IF l.op = "DW" THEN 2 ELSE IF l.op = "DB" THEN 1
                  ELSE IF l.op = "TABLE" THEN 2 * size ELSE 0
ToAddress(m, l, size) ==
  IF Displaces(m.org, l) THEN l.addr
  ELSE IF Returns(m.type, m.org, l) THEN m.disp ELSE m.adr + Emits(l, size)
ToDisplaced(m, l, size) ==
  IF Displaces(m.org, l) THEN m.adr
  ELSE IF m.org = "DISP_NONE" THEN m.disp ELSE m.disp + Emits(l, size)
ToOffsets(m, l) ==
  IF Collects(m.type, l) THEN Append(m.out, OffsetOf(m, l) % WordRange) ELSE m.out

AfterMoment(m, size) ==
  LET l == LineOf(m)
  IN  IF m.phase = "line" THEN At(m.pc + 1, "parse", m.type, m.org, m.adr, m.disp, m.out)
      ELSE At(m.pc, "line", ToType(m.type, mode, m.org, l), ToOrg(m.type, m.org, l),
              ToAddress(m, l, size), ToDisplaced(m, l, size), ToOffsets(m, l))

Ends(m) == m.phase = "line" /\ m.pc = Len(prog)
Size == Len(offsetsPrevious)
Begins(s, t) == Len(s) <= Len(t) /\ \A i \in 1 .. Len(s) : s[i] = t[i]
InAllPasses == \A i \in 1 .. Len(prog) : prog[i].in = Passes

\* The controls of pass 1 lie in the program, and the mode is set once.
Sane(c) ==
  /\ c.pc \in 0 .. Len(prog) /\ c.phase \in {"line", "parse"}
  /\ c.phase = "parse" => c.pc > 0
  /\ c.type \in {OFF, REGULAR, HIGH} /\ c.mode \in {OFF, mode} /\ c.n \in Nat
  /\ c.type # OFF => c.mode # OFF

Same(c, d) == /\ c.pc = d.pc /\ c.phase = d.phase /\ c.type = d.type
              /\ c.org = d.org /\ c.n = d.n

FirstControl == Ctl(0, "line", OFF, OFF, "DISP_NONE", 0)
FirstMoment == At(0, "line", OFF, "DISP_NONE", 0, 0, << >>)

\* Pass 1 went from its first control to the present one; a line adds one
\* offset at most.
PassOne ==
  /\ offsetsPrevious = << >> /\ moments = {}
  /\ FirstControl \in controls /\ Control \in controls
  /\ Len(offsets) + (IF phase = "parse" THEN 1 ELSE 0) <= pc
  /\ \A c \in controls : /\ Sane(c) /\ c.n <= Len(offsets)
                         /\ c = Control \/ AfterControl(c) \in controls

\* Pass 2 goes through the same controls, therefore it collects as many
\* offsets and every table has the size of the last one.
SameControls ==
  /\ FirstControl \in controls
  /\ \A c \in controls : /\ Sane(c) /\ c.n <= Size
                         /\ IF Ends(c) THEN c.n = Size ELSE AfterControl(c) \in controls

PassTwo ==
  /\ maxTableCount = Size /\ Size <= Len(prog)
  /\ SameControls
  /\ \E c \in controls : Same(c, Control)
  /\ FirstMoment \in moments /\ Moment \in moments
  /\ \A m \in moments : /\ m.type # OFF => mode # OFF
                        /\ Begins(m.out, offsets)
                        /\ m = Moment \/ (~Ends(m) /\ AfterMoment(m, Size) \in moments)

\* Pass 3 goes through the moments of pass 2: the sizes are the same.
SameMoments ==
  /\ FirstMoment \in moments
  /\ \A m \in moments : /\ m.type # OFF => mode # OFF
                        /\ Begins(m.out, offsetsPrevious)
                        /\ IF Ends(m) THEN m.out = offsetsPrevious
                           ELSE AfterMoment(m, Size) \in moments

\* The room the lines that are left need at most.
Room == 2 * Len(prog) * (Len(prog) - (IF phase = "parse" THEN pc - 1 ELSE pc))

PassThree ==
  /\ maxTableCount = Size /\ Size <= Len(prog)
  /\ SameMoments
  /\ \A t \in tables : t = offsetsPrevious
  /\ phase # "exit" => Moment \in moments
  /\ phase = "exit" => offsets = offsetsPrevious
  /\ StaysBelowEnd => /\ CurAddress + Room < WordRange /\ adrdisp + Room < WordRange
                      /\ ~inconsistent

\* The inductive invariant of ThreePassesSuffice.
SettledInv ==
  /\ pass < LASTPASS => phase # "exit" /\ ~warnAboutContentChange /\ ~inconsistent
  /\ InAllPasses => /\ pass = 1 => PassOne
                    /\ pass = 2 => PassTwo
                    /\ pass = LASTPASS => PassThree

\* The fields of the present control and of the present moment.
LEMMA PresentFields ==
  /\ Control.pc = pc /\ Control.phase = phase /\ Control.type = type
  /\ Control.mode = mode /\ Control.org = PseudoORG /\ Control.n = Len(offsets)
  /\ Moment.pc = pc /\ Moment.phase = phase /\ Moment.type = type /\ Moment.org = PseudoORG
  /\ Moment.adr = CurAddress /\ Moment.disp = adrdisp /\ Moment.out = offsets
  /\ LineOf(Control) = Line /\ LineOf(Moment) = Line
BY DEF Control, Ctl, Moment, At, LineOf, Line

\* What a source line does, as the operators above say it.
Acts ==
  /\ type' = ToType(type, mode, PseudoORG, Line)
  /\ mode' = ToMode(type, mode, Line)
  /\ PseudoORG' = ToOrg(type, PseudoORG, Line)
  /\ offsets' = IF Collects(type, Line)
                THEN Append(offsets, OffsetOf(Moment, Line) % WordRange) ELSE offsets
  /\ CurAddress' = ToAddress(Moment, Line, maxTableCount')
  /\ adrdisp' = ToDisplaced(Moment, Line, maxTableCount')
  /\ maxTableCount' = maxTableCount \/ maxTableCount < Len(offsets)
  /\ offsetsPrevious' = offsetsPrevious
  /\ inconsistent' => inconsistent \/ (Collects(type, Line) /\ Differs(OffsetOf(Moment, Line)))
  /\ warnAboutContentChange' => warnAboutContentChange \/ pass = LASTPASS
  /\ tables' \subseteq tables \cup {[i \in 1 .. maxTableCount' |-> Entry(i)]}

LEMMA DataActs == ASSUME IInv, Data PROVE Acts
<1> DEFINE byte == Line.op = "DB"
           delta == deltaType(Line.expr)
           min == IF byte THEN HIGH ELSE REGULAR
           n == IF byte THEN 1 ELSE 2
<1>1. /\ Line.op \in {"DW", "DB"} /\ Line \in LineType /\ phase = "parse"
      /\ TypeOK /\ Line.expr \in {"label", "high", "unstable"}
  BY LineIsTyped DEF Data, Parsing, IInv, LineType
<1>2. /\ resolveRelocationAffected(min, delta) /\ Advance(n)
      /\ UNCHANGED <<offsetsPrevious, maxTableCount, type, mode, tables>>
  BY DEF Data
<1>3. delta = DeltaOf(type, Line) /\ min = Least(Line) /\ n = Emits(Line, maxTableCount')
  BY <1>1 DEF deltaType, DeltaOf, Least, Emits
<1>4. OffsetOf(Moment, Line) = Address + type - delta
  BY <1>3, PresentFields DEF OffsetOf, Address
<1> HIDE DEF delta, min, n
<1>5. Collects(type, Line) = (type # OFF /\ min <= type /\ min <= delta)
  BY <1>1, <1>3 DEF Collects
<1>6. /\ type \in {OFF, REGULAR, HIGH} /\ min \in {REGULAR, HIGH} /\ delta \in {OFF, REGULAR, HIGH}
  BY <1>1, <1>3 DEF TypeOK, Least, DeltaOf
<1>7. CASE Collects(type, Line)
  <2>1. addOffsetToRelocate(Address + type - delta)
    BY <1>2, <1>5, <1>6, <1>7 DEF resolveRelocationAffected, OFF, REGULAR, HIGH
  <2>2. /\ offsets' = Append(offsets, OffsetOf(Moment, Line) % WordRange)
        /\ inconsistent' => inconsistent \/ Differs(OffsetOf(Moment, Line))
        /\ warnAboutContentChange' => warnAboutContentChange
    BY <1>4, <2>1 DEF addOffsetToRelocate
  <2> HIDE DEF byte
  <2>3. /\ type' = ToType(type, mode, PseudoORG, Line) /\ mode' = ToMode(type, mode, Line)
        /\ PseudoORG' = ToOrg(type, PseudoORG, Line)
        /\ CurAddress' = ToAddress(Moment, Line, maxTableCount')
        /\ adrdisp' = ToDisplaced(Moment, Line, maxTableCount')
    BY <1>1, <1>2, <1>3, PresentFields
       DEF Advance, ToType, ToMode, ToOrg, Starts, Displaces, Returns, ToAddress, ToDisplaced
  <2> QED BY <1>2, <1>7, <2>2, <2>3 DEF Acts
<1>8. CASE ~Collects(type, Line)
  <2>1. UNCHANGED <<offsets, inconsistent, warnAboutContentChange>>
    BY <1>2, <1>5, <1>6, <1>8 DEF resolveRelocationAffected, OFF, REGULAR, HIGH, Ignore, Complain
  <2> HIDE DEF byte
  <2>3. /\ type' = ToType(type, mode, PseudoORG, Line) /\ mode' = ToMode(type, mode, Line)
        /\ PseudoORG' = ToOrg(type, PseudoORG, Line)
        /\ CurAddress' = ToAddress(Moment, Line, maxTableCount')
        /\ adrdisp' = ToDisplaced(Moment, Line, maxTableCount')
    BY <1>1, <1>2, <1>3, PresentFields
       DEF Advance, ToType, ToMode, ToOrg, Starts, Displaces, Returns, ToAddress, ToDisplaced
  <2> QED BY <1>2, <1>8, <2>1, <2>3 DEF Acts
<1> QED BY <1>7, <1>8

\* A line that is no data leaves offsets and warnings alone.
LEMMA QuietActs ==
  ASSUME Line.op \notin {"DW", "DB"},
         UNCHANGED <<offsets, offsetsPrevious, warnAboutContentChange, inconsistent, tables>>,
         maxTableCount' = maxTableCount \/ maxTableCount < Len(offsets),
         type' = ToType(type, mode, PseudoORG, Line),
         mode' = ToMode(type, mode, Line),
         PseudoORG' = ToOrg(type, PseudoORG, Line),
         CurAddress' = ToAddress(Moment, Line, maxTableCount'),
         adrdisp' = ToDisplaced(Moment, Line, maxTableCount')
  PROVE  Acts
BY DEF Acts, Collects

\* Where a line that emits nothing and opens or closes no DISP leads.
LEMMA StaysThere ==
  ASSUME TypeOK, Line.op \in {"START", "END"}, UNCHANGED place, NEW size
  PROVE  /\ PseudoORG' = ToOrg(type, PseudoORG, Line)
         /\ CurAddress' = ToAddress(Moment, Line, size)
         /\ adrdisp' = ToDisplaced(Moment, Line, size)
BY PresentFields DEF TypeOK, place, ToOrg, ToAddress, ToDisplaced, Displaces, Returns, Emits

LEMMA BlockActs ==
  ASSUME IInv, dirRELOCATE_START \/ dirRELOCATE_END PROVE Acts
<1>1. TypeOK /\ Line.op \in {"START", "END"} /\ UNCHANGED place
  BY DEF IInv, dirRELOCATE_START, dirRELOCATE_END, Parsing, Rejected
<1>2. /\ PseudoORG' = ToOrg(type, PseudoORG, Line)
      /\ CurAddress' = ToAddress(Moment, Line, maxTableCount')
      /\ adrdisp' = ToDisplaced(Moment, Line, maxTableCount')
  BY <1>1, StaysThere
<1>3. /\ UNCHANGED <<offsets, offsetsPrevious, warnAboutContentChange, inconsistent, tables>>
      /\ maxTableCount' = maxTableCount \/ maxTableCount < Len(offsets)
  BY DEF dirRELOCATE_START, dirRELOCATE_END, Rejected, reloc, refreshMaxTableCount
<1>4. type' = ToType(type, mode, PseudoORG, Line) /\ mode' = ToMode(type, mode, Line)
  <2>1. CASE dirRELOCATE_START
    <3>1. Line.op = "START" /\ Line.op # "END"
      BY <2>1 DEF dirRELOCATE_START, Parsing
    <3>2. CASE Starts(type, mode, Line)
      BY <2>1, <3>1, <3>2 DEF dirRELOCATE_START, Rejected, reloc, ToType, ToMode, Starts, Kind
    <3>3. CASE ~Starts(type, mode, Line)
      BY <2>1, <3>1, <3>3 DEF dirRELOCATE_START, Rejected, reloc, ToType, ToMode, Starts, Kind
    <3> QED BY <3>2, <3>3
  <2>2. CASE dirRELOCATE_END
    <3>1. Line.op = "END" /\ ~Starts(type, mode, Line)
      BY <2>2 DEF dirRELOCATE_END, Parsing, Starts
    <3> QED BY <2>2, <3>1 DEF dirRELOCATE_END, Rejected, reloc, ToType, ToMode
  <2> QED BY <2>1, <2>2
<1> QED BY <1>1, <1>2, <1>3, <1>4, QuietActs

LEMMA TableActs == ASSUME IInv, dirRELOCATE_TABLE PROVE Acts
<1> DEFINE n == 2 * maxTableCount'
           table == [i \in 1 .. maxTableCount' |-> Entry(i)]
<1>1. /\ Line.op = "TABLE" /\ Advance(n)
      /\ UNCHANGED <<offsets, offsetsPrevious, type, mode, inconsistent>>
      /\ warnAboutContentChange' = (pass = LASTPASS)
      /\ tables' = IF pass = LASTPASS THEN tables \cup {table} ELSE tables
      /\ maxTableCount' = maxTableCount \/ maxTableCount < Len(offsets)
  BY DEF dirRELOCATE_TABLE, Parsing, refreshMaxTableCount
<1> HIDE DEF table
<1>2. n = Emits(Line, maxTableCount')
  BY <1>1 DEF Emits
<1> HIDE DEF n
<1>3. tables' \subseteq tables \cup {table}
  BY <1>1
<1>4. /\ type' = ToType(type, mode, PseudoORG, Line) /\ mode' = ToMode(type, mode, Line)
      /\ PseudoORG' = ToOrg(type, PseudoORG, Line)
      /\ CurAddress' = ToAddress(Moment, Line, maxTableCount')
      /\ adrdisp' = ToDisplaced(Moment, Line, maxTableCount')
  BY <1>1, <1>2, PresentFields
     DEF Advance, ToType, ToMode, ToOrg, Starts, Displaces, Returns, ToAddress, ToDisplaced
<1>5. ~Collects(type, Line)
  BY <1>1 DEF Collects
<1> QED BY <1>1, <1>3, <1>4, <1>5 DEF Acts, table

LEMMA DisplacementActs == ASSUME IInv, DISP \/ ENT PROVE Acts
<1>1. /\ TypeOK /\ Line.op \in {"DISP", "ENT"}
      /\ UNCHANGED <<reloc, inconsistent, tables>>
  BY DEF IInv, DISP, ENT, Parsing, Rejected
<1>2. type' = ToType(type, mode, PseudoORG, Line) /\ mode' = ToMode(type, mode, Line)
  BY <1>1 DEF ToType, ToMode, Starts, reloc
<1>3. CurAddress \in Int /\ adrdisp \in Int /\ Emits(Line, maxTableCount') = 0
  BY <1>1 DEF TypeOK, Emits
<1>4. /\ PseudoORG' = ToOrg(type, PseudoORG, Line)
      /\ CurAddress' = ToAddress(Moment, Line, maxTableCount')
      /\ adrdisp' = ToDisplaced(Moment, Line, maxTableCount')
  <2>1. CASE DISP
    <3>1. Line.op = "DISP" /\ ~Returns(type, PseudoORG, Line)
      BY <2>1 DEF DISP, Parsing, Returns
    <3> QED
      BY <1>3, <2>1, <3>1, PresentFields
         DEF DISP, place, ToOrg, ToAddress, ToDisplaced, Displaces
  <2>2. CASE ENT
    <3>1. Line.op = "ENT" /\ ~Displaces(PseudoORG, Line)
      BY <2>2 DEF ENT, Parsing, Displaces
    <3>2. CASE Returns(type, PseudoORG, Line)
      BY <1>3, <2>2, <3>1, <3>2, PresentFields
         DEF ENT, Rejected, Returns, place, ToOrg, ToAddress, ToDisplaced
    <3>3. CASE ~Returns(type, PseudoORG, Line)
      <4>1. UNCHANGED place
        BY <2>2, <3>1, <3>3 DEF ENT, Rejected, Returns
      <4> QED BY <1>3, <3>1, <3>3, <4>1, PresentFields DEF place, ToOrg, ToAddress, ToDisplaced
    <3> QED BY <3>2, <3>3
  <2> QED BY <2>1, <2>2
<1> QED BY <1>1, <1>2, <1>4, QuietActs DEF reloc

\* A line that is not hidden from this pass.
LEMMA LineActs ==
  ASSUME IInv, ParseLine, pass \in Line.in
  PROVE  /\ Acts /\ Remember
         /\ phase = "parse" /\ phase' = "line" /\ UNCHANGED <<pass, pc, prog>>
<1>1. Acts
  BY DataActs, BlockActs, TableActs, DisplacementActs DEF ParseLine, Skipped
<1>2. phase = "parse"
  BY DEF ParseLine, Data, dirRELOCATE_START, dirRELOCATE_END, dirRELOCATE_TABLE,
         DISP, ENT, Skipped, Parsing
<1> QED BY <1>1, <1>2 DEF ParseLine, source

Walks == ReadLine \/ ParseLine

\* What a step of a pass does, when every line is there in every pass.
LEMMA WalkFacts ==
  ASSUME IInv, InAllPasses, Walks
  PROVE  /\ Remember /\ phase \in {"line", "parse"} /\ phase' \in {"line", "parse"}
         /\ UNCHANGED <<pass, offsetsPrevious>>
         /\ Len(prog) <= Len(prog') /\ \A i \in 1 .. Len(prog) : prog'[i] = prog[i]
         /\ pass # 1 => prog' = prog /\ ~Ends(Control) /\ ~Ends(Moment)
         /\ Control' = AfterControl(Control)
         /\ Moment' = AfterMoment(Moment, maxTableCount')
         /\ maxTableCount' = maxTableCount \/ maxTableCount < Len(offsets)
         /\ warnAboutContentChange' => warnAboutContentChange \/ pass = LASTPASS
         /\ inconsistent' => \/ inconsistent
                             \/ /\ phase = "parse" /\ Collects(type, Line)
                                /\ Differs(OffsetOf(Moment, Line))
         /\ tables' \subseteq tables \cup {[i \in 1 .. maxTableCount' |-> Entry(i)]}
<1>1. /\ TypeOK /\ offsets \in Seq(Words) /\ prog \in Seq(Lines) /\ pc \in 0 .. Len(prog)
      /\ phase = "parse" => pc > 0
  BY DEF IInv, TypeOK
<1>2. CASE ReadLine
  <2>1. /\ phase = "line" /\ phase' = "parse" /\ pc' = pc + 1 /\ Remember
        /\ UNCHANGED <<reloc, place, pass, inconsistent, tables>>
    BY <1>2 DEF ReadLine
  <2>2. /\ Len(prog) <= Len(prog') /\ \A i \in 1 .. Len(prog) : prog'[i] = prog[i]
        /\ pass # 1 => prog' = prog /\ pc < Len(prog)
    <3>1. CASE pc < Len(prog) /\ prog' = prog
      BY <1>1, <3>1
    <3>2. CASE pass = 1 /\ \E line \in Lines : prog' = Append(prog, line)
      BY <1>1, <3>2
    <3> QED BY <1>2, <3>1, <3>2 DEF ReadLine
  <2>3. Control' = AfterControl(Control)
    BY <2>1, PresentFields DEF Control, AfterControl, reloc, place
  <2>4. Moment' = AfterMoment(Moment, maxTableCount')
    BY <2>1, PresentFields DEF Moment, AfterMoment, reloc, place
  <2>5. pass # 1 => ~Ends(Control) /\ ~Ends(Moment)
    BY <1>1, <2>2, PresentFields DEF Ends
  <2> QED BY <2>1, <2>2, <2>3, <2>4, <2>5 DEF reloc
<1>3. CASE ParseLine
  <2>1. phase = "parse"
    BY <1>3 DEF ParseLine, Data, dirRELOCATE_START, dirRELOCATE_END, dirRELOCATE_TABLE,
                DISP, ENT, Skipped, Parsing
  <2>2. pass \in Line.in
    BY <1>1, <2>1 DEF InAllPasses, Line, TypeOK
  <2>3. Acts /\ Remember /\ phase' = "line" /\ UNCHANGED <<pass, pc, prog>>
    BY <1>3, <2>2, LineActs
  <2>4. Len(offsets') = IF Collects(type, Line) THEN Len(offsets) + 1 ELSE Len(offsets)
    <3>1. offsets' = IF Collects(type, Line)
                     THEN Append(offsets, OffsetOf(Moment, Line) % WordRange) ELSE offsets
      BY <2>3 DEF Acts
    <3>2. OffsetOf(Moment, Line) % WordRange \in Words \/ ~Collects(type, Line)
      <4>1. type \in Int /\ DeltaOf(type, Line) \in Int /\ CurAddress \in Int /\ adrdisp \in Int
        BY <1>1 DEF TypeOK, DeltaOf, OFF, REGULAR, HIGH
      <4>2. OffsetOf(Moment, Line) \in Int
        BY <4>1, PresentFields DEF OffsetOf
      <4> QED BY <4>2, LinesAssumption DEF Words
    <3> QED BY <1>1, <3>1, <3>2
  <2>5. Control' = AfterControl(Control)
    BY <2>1, <2>3, <2>4, PresentFields DEF Acts, Control, AfterControl
  <2>6. Moment' = AfterMoment(Moment, maxTableCount')
    BY <2>1, <2>3, PresentFields DEF Acts, Moment, AfterMoment, ToOffsets
  <2>7. ~Ends(Control) /\ ~Ends(Moment)
    BY <2>1, PresentFields DEF Ends
  <2> QED BY <2>1, <2>3, <2>5, <2>6, <2>7 DEF Acts
<1> QED BY <1>2, <1>3 DEF Walks

\* What comes after a control or a moment depends on the program and the mode
\* alone.
LEMMA AfterIsSteady ==
  ASSUME prog' = prog
  PROVE  /\ \A m : Ends(m)' = Ends(m)
         /\ \A c : AfterControl(c)' = AfterControl(c)
         /\ mode' = mode => \A m, n : AfterMoment(m, n)' = AfterMoment(m, n)
BY DEF Ends, AfterControl, AfterMoment, LineOf, ToType, ToMode, ToOrg, Starts, Displaces, Returns,
       ToAddress, ToDisplaced, ToOffsets, Collects, OffsetOf

LEMMA AfterIsKept ==
  ASSUME Len(prog) <= Len(prog'), \A i \in 1 .. Len(prog) : prog'[i] = prog[i]
  PROVE  \A c : Sane(c) => AfterControl(c)' = AfterControl(c)
<1> SUFFICES ASSUME NEW c, Sane(c) PROVE AfterControl(c)' = AfterControl(c)
  OBVIOUS
<1>1. CASE c.phase = "line"
  BY <1>1 DEF AfterControl
<1>2. CASE c.phase = "parse"
  <2>1. c.pc \in 1 .. Len(prog)
    BY <1>2 DEF Sane
  <2>2. LineOf(c)' = LineOf(c)
    BY <2>1 DEF LineOf
  <2> QED BY <1>2, <2>2 DEF AfterControl
<1> QED BY <1>1, <1>2 DEF Sane

LEMMA ProgramGrows ==
  ASSUME Len(prog) \in Nat, Len(prog') \in Nat, Len(prog) <= Len(prog'),
         \A i \in 1 .. Len(prog) : prog'[i] = prog[i], InAllPasses'
  PROVE  InAllPasses
BY DEF InAllPasses

\* The mode is set once, and a block has one.
LEMMA ModeIsSetOnce ==
  ASSUME IInv, InAllPasses, Walks
  PROVE  /\ mode' = mode \/ (mode = OFF /\ type' # OFF)
         /\ type' # OFF => mode' # OFF \/ type # OFF
<1>1. Control' = AfterControl(Control)
  BY WalkFacts
<1>2. Control'.type = type' /\ Control'.mode = mode'
  BY DEF Control, Ctl
<1>3. phase \in {"line", "parse"}
  BY WalkFacts
<1>4. CASE phase = "line"
  BY <1>1, <1>2, <1>4, PresentFields DEF AfterControl, Ctl
<1>5. CASE phase = "parse"
  <2>1. type' = ToType(type, mode, PseudoORG, Line) /\ mode' = ToMode(type, mode, Line)
    BY <1>1, <1>2, <1>5, PresentFields DEF AfterControl, Ctl
  <2>2. Kind(Line) # OFF
    BY DEF Kind, OFF, REGULAR, HIGH
  <2> QED BY <2>1, <2>2 DEF ToType, ToMode, Starts
<1> QED BY <1>3, <1>4, <1>5

\* A step of pass 1 adds the control after the last one.
LEMMA PassOneStep ==
  ASSUME IInv, IInv', InAllPasses, PassOne, pass = 1, Walks
  PROVE  PassOne'
<1>1. /\ Remember /\ phase \in {"line", "parse"} /\ phase' \in {"line", "parse"}
      /\ UNCHANGED <<pass, offsetsPrevious>> /\ Control' = AfterControl(Control)
      /\ Len(prog) <= Len(prog') /\ \A i \in 1 .. Len(prog) : prog'[i] = prog[i]
  BY WalkFacts
<1>2. controls' = controls \cup {Control'} /\ moments' = {}
  BY <1>1 DEF Remember, PassOne
<1>3. mode' = mode \/ (mode = OFF /\ type' # OFF)
  BY ModeIsSetOnce
<1>4. Sane(Control) /\ (type # OFF => mode # OFF)
  BY PresentFields DEF PassOne, Sane
<1>5. FirstControl' = FirstControl
  BY DEF FirstControl, Ctl
<1>6. /\ Len(offsets) \in Nat /\ Len(offsets') \in Nat /\ Len(prog) \in Nat /\ Len(prog') \in Nat
      /\ pc \in 0 .. Len(prog) /\ pc' \in 0 .. Len(prog') /\ type' \in {OFF, REGULAR, HIGH}
      /\ phase' = "parse" => pc' > 0
  <2>1. /\ offsets \in Seq(Words) /\ offsets' \in Seq(Words) /\ prog \in Seq(Lines)
        /\ prog' \in Seq(Lines)
    BY DEF IInv, TypeOK
  <2> QED BY <2>1 DEF IInv, TypeOK
<1>7. /\ Control'.n = Len(offsets') /\ Control'.pc = pc' /\ Control'.phase = phase'
      /\ Control'.type = type' /\ Control'.mode = mode'
  BY DEF Control, Ctl
<1>8. /\ Len(offsets) <= Len(offsets')
      /\ Len(offsets') + (IF phase' = "parse" THEN 1 ELSE 0) <= pc'
  <2>1. CASE phase = "line"
    <3>1. Control' = Ctl(pc + 1, "parse", type, mode, PseudoORG, Len(offsets))
      BY <1>1, <2>1, PresentFields DEF AfterControl
    <3> QED BY <1>6, <1>7, <2>1, <3>1 DEF Ctl, PassOne
  <2>2. CASE phase = "parse"
    <3>1. /\ Control'.pc = pc /\ Control'.phase = "line"
          /\ Control'.n = IF Collects(type, Line) THEN Len(offsets) + 1 ELSE Len(offsets)
      BY <1>1, <2>2, PresentFields DEF AfterControl, Ctl
    <3> QED BY <1>6, <1>7, <2>2, <3>1 DEF PassOne
  <2> QED BY <1>1, <2>1, <2>2
<1>9. Sane(Control)'
  <2>1. type' # OFF => mode' # OFF
    BY <1>3, <1>4, ModeIsSetOnce
  <2>2. Control'.type # OFF => Control'.mode # OFF
    BY <1>7, <2>1
  <2> QED BY <1>1, <1>6, <1>7, <2>2 DEF Sane
<1>10. ASSUME NEW c \in controls
       PROVE  /\ Sane(c)' /\ c.n <= Len(offsets') /\ AfterControl(c)' \in controls'
  <2>1. Sane(c) /\ c.n <= Len(offsets) /\ (c = Control \/ AfterControl(c) \in controls)
    BY DEF PassOne
  <2>2. c.mode \in {OFF, mode'}
    BY <1>3, <2>1 DEF Sane
  <2>3. Sane(c)'
    BY <1>6, <1>1, <2>1, <2>2 DEF Sane
  <2>4. c.n <= Len(offsets')
    BY <1>6, <1>8, <2>1 DEF Sane
  <2>5. AfterControl(c)' = AfterControl(c)
    BY <1>1, <2>1, AfterIsKept
  <2>6. AfterControl(c) \in controls'
    BY <1>1, <1>2, <2>1
  <2> QED BY <2>3, <2>4, <2>5, <2>6
<1>11. \A c \in controls' : /\ Sane(c)' /\ c.n <= Len(offsets')
                            /\ c = Control' \/ AfterControl(c)' \in controls'
  <2> SUFFICES ASSUME NEW c \in controls'
               PROVE  /\ Sane(c)' /\ c.n <= Len(offsets')
                      /\ c = Control' \/ AfterControl(c)' \in controls'
    OBVIOUS
  <2>1. CASE c = Control'
    <3>1. Sane(c)'
      BY <1>9, <2>1
    <3> QED BY <1>6, <1>7, <2>1, <3>1
  <2>2. CASE c \in controls
    BY <1>10, <2>2
  <2> QED BY <1>2, <2>1, <2>2
<1>12. offsetsPrevious' = << >> /\ FirstControl \in controls' /\ Control' \in controls'
  BY <1>1, <1>2 DEF PassOne
<1> QED BY <1>2, <1>5, <1>8, <1>11, <1>12 DEF PassOne

\* The two passes that repeat pass 1 and pass 2 leave the mode alone, when it
\* is set as soon as a block is open.
LEMMA ModeStays ==
  ASSUME IInv, InAllPasses, Walks, type' # OFF => mode # OFF
  PROVE  mode' = mode
BY ModeIsSetOnce

\* A step of pass 2 follows the controls of pass 1.
LEMMA ControlsFollow ==
  ASSUME IInv, InAllPasses, SameControls, Walks, prog' = prog, ~Ends(Control),
         NEW c \in controls, Same(c, Control)
  PROVE  /\ AfterControl(c) \in controls /\ Same(AfterControl(c), Control')
         /\ type' # OFF => mode # OFF
<1>1. ~Ends(c) /\ LineOf(c) = Line
  BY PresentFields DEF Same, Ends, LineOf, Line
<1>2. AfterControl(c) \in controls /\ Sane(c)
  BY <1>1 DEF SameControls
<1>3. Sane(AfterControl(c))
  BY <1>2 DEF SameControls
<1>4. c.mode \in {OFF, mode} /\ AfterControl(c).mode \in {OFF, mode}
  BY <1>2, <1>3 DEF Sane
<1>5. AfterControl(c).type # OFF => mode # OFF
  BY <1>3 DEF Sane
<1>6. Control' = AfterControl(Control) /\ Control'.type = type'
  BY WalkFacts DEF Control, Ctl
<1>7. Same(AfterControl(c), AfterControl(Control))
  <2>1. /\ c.pc = pc /\ c.phase = phase /\ c.type = type /\ c.org = PseudoORG
        /\ c.n = Len(offsets)
    BY PresentFields DEF Same
  <2>2. CASE phase = "line"
    BY <2>1, <2>2, PresentFields DEF AfterControl, Same, Ctl
  <2>3. CASE phase # "line"
    <3>1. /\ AfterControl(c) = Ctl(pc, "line", ToType(type, c.mode, PseudoORG, Line),
                ToMode(type, c.mode, Line), ToOrg(type, PseudoORG, Line),
                IF Collects(type, Line) THEN Len(offsets) + 1 ELSE Len(offsets))
          /\ AfterControl(Control) = Ctl(pc, "line", ToType(type, mode, PseudoORG, Line),
                ToMode(type, mode, Line), ToOrg(type, PseudoORG, Line),
                IF Collects(type, Line) THEN Len(offsets) + 1 ELSE Len(offsets))
      BY <1>1, <2>1, <2>3, PresentFields DEF AfterControl
    <3>2. ToMode(type, c.mode, Line) \in {OFF, mode}
      BY <1>4, <3>1 DEF Ctl
    <3>3. Starts(type, c.mode, Line) = Starts(type, mode, Line)
      <4>1. Kind(Line) # OFF
        BY DEF Kind, OFF, REGULAR, HIGH
      <4> QED BY <1>4, <3>2, <4>1 DEF Starts, ToMode
    <3>4. ToType(type, c.mode, PseudoORG, Line) = ToType(type, mode, PseudoORG, Line)
      BY <3>3 DEF ToType
    <3> QED BY <3>1, <3>4 DEF Same, Ctl
  <2> QED BY <2>2, <2>3
<1>8. AfterControl(c).type = type'
  BY <1>6, <1>7 DEF Same
<1> QED BY <1>2, <1>5, <1>6, <1>7, <1>8

LEMMA SameControlsKept ==
  ASSUME SameControls, UNCHANGED <<prog, mode, controls, offsetsPrevious>>
  PROVE  SameControls'
<1>1. FirstControl' = FirstControl
  BY DEF FirstControl, Ctl
<1>2. \A c : Ends(c)' = Ends(c) /\ AfterControl(c)' = AfterControl(c) /\ Sane(c)' = Sane(c)
  BY AfterIsSteady DEF Sane
<1> QED BY <1>1, <1>2 DEF SameControls, Size

\* What a step appends to the offsets.
LEMMA OffsetsGrow ==
  ASSUME IInv, IInv', InAllPasses, Walks
  PROVE  /\ offsets \in Seq(Words) /\ offsets' \in Seq(Words)
         /\ Begins(offsets, offsets')
         /\ phase = "line" => offsets' = offsets
         /\ phase = "parse" => offsets' = ToOffsets(Moment, Line)
<1>1. offsets \in Seq(Words) /\ offsets' \in Seq(Words)
  BY DEF IInv, TypeOK
<1>2. phase \in {"line", "parse"} /\ Moment' = AfterMoment(Moment, maxTableCount')
  BY WalkFacts
<1>3. Moment'.out = offsets'
  BY DEF Moment, At
<1>4. CASE phase = "line"
  <2>1. offsets' = offsets
    BY <1>2, <1>3, <1>4, PresentFields DEF AfterMoment, At
  <2> QED BY <1>1, <1>4, <2>1 DEF Begins
<1>5. CASE phase = "parse"
  <2>1. offsets' = ToOffsets(Moment, Line)
    BY <1>2, <1>3, <1>5, PresentFields DEF AfterMoment, At
  <2>2. CASE Collects(type, Line)
    <3>1. offsets' = Append(offsets, OffsetOf(Moment, Line) % WordRange)
      BY <2>1, <2>2, PresentFields DEF ToOffsets
    <3>2. OffsetOf(Moment, Line) % WordRange \in Words
      <4>1. type \in Int /\ DeltaOf(type, Line) \in Int /\ CurAddress \in Int /\ adrdisp \in Int
        BY DEF IInv, TypeOK, DeltaOf, OFF, REGULAR, HIGH
      <4>2. OffsetOf(Moment, Line) \in Int
        BY <4>1, PresentFields DEF OffsetOf
      <4> QED BY <4>2, LinesAssumption DEF Words
    <3>3. /\ Len(offsets') = Len(offsets) + 1
          /\ \A i \in 1 .. Len(offsets) : offsets'[i] = offsets[i]
      BY <1>1, <3>1, <3>2
    <3> QED BY <1>1, <1>5, <2>1, <3>3 DEF Begins
  <2>3. CASE ~Collects(type, Line)
    <3>1. offsets' = offsets
      BY <2>1, <2>3, PresentFields DEF ToOffsets
    <3> QED BY <1>1, <1>5, <2>1, <3>1 DEF Begins
  <2> QED BY <2>2, <2>3
<1> QED BY <1>1, <1>2, <1>4, <1>5

\* A step of pass 2 adds the moment after the last one.
LEMMA PassTwoStep ==
  ASSUME IInv, IInv', InAllPasses, PassTwo, pass = 2, Walks
  PROVE  PassTwo'
<1>1. /\ Remember /\ UNCHANGED <<pass, offsetsPrevious, prog>>
      /\ ~Ends(Control) /\ ~Ends(Moment)
      /\ Moment' = AfterMoment(Moment, maxTableCount')
      /\ maxTableCount' = maxTableCount \/ maxTableCount < Len(offsets)
  BY WalkFacts
<1>2. controls' = controls /\ moments' = moments \cup {Moment'}
  BY <1>1 DEF Remember
<1>3. PICK c \in controls : Same(c, Control)
  BY DEF PassTwo
<1>4. /\ AfterControl(c) \in controls /\ Same(AfterControl(c), Control')
      /\ type' # OFF => mode # OFF
  BY <1>1, <1>3, ControlsFollow DEF PassTwo
<1>5. mode' = mode
  BY <1>4, ModeStays
<1>6. SameControls'
  BY <1>1, <1>2, <1>5, SameControlsKept DEF PassTwo
<1>7. /\ offsets \in Seq(Words) /\ offsets' \in Seq(Words) /\ Begins(offsets, offsets')
  BY OffsetsGrow
<1>8. Size' = Size /\ Size \in Nat
  BY <1>1 DEF Size, IInv, TypeOK
<1>9. Len(offsets) <= Size
  BY <1>3, PresentFields DEF PassTwo, SameControls, Same
<1>10. maxTableCount' = Size
  BY <1>1, <1>7, <1>8, <1>9 DEF PassTwo
<1>11. Moment'.type = type' /\ Moment'.out = offsets'
  BY DEF Moment, At
<1>12. FirstMoment' = FirstMoment
  BY DEF FirstMoment, At
<1>13. ASSUME NEW m \in moments'
       PROVE  /\ m.type # OFF => mode # OFF
              /\ Begins(m.out, offsets')
              /\ m = Moment' \/ (~Ends(m) /\ AfterMoment(m, Size) \in moments')
  <2>1. CASE m = Moment'
    BY <1>4, <1>7, <1>11, <2>1 DEF Begins
  <2>2. CASE m \in moments
    <3>1. /\ m.type # OFF => mode # OFF
          /\ Begins(m.out, offsets)
          /\ m = Moment \/ (~Ends(m) /\ AfterMoment(m, Size) \in moments)
      BY <2>2 DEF PassTwo
    <3>2. Begins(m.out, offsets')
      <4>1. m.out = offsets \/ Begins(m.out, offsets)
        BY <3>1
      <4> QED BY <1>7, <3>1 DEF Begins
    <3>3. ~Ends(m) /\ AfterMoment(m, Size) \in moments'
      BY <1>1, <1>2, <1>10, <3>1
    <3> QED BY <3>1, <3>2, <3>3
  <2> QED BY <1>2, <2>1, <2>2
<1>14. /\ \A m : Ends(m)' = Ends(m)
       /\ \A m, n : AfterMoment(m, n)' = AfterMoment(m, n)
  BY <1>1, <1>5, AfterIsSteady
<1>15. \A m \in moments' :
          /\ m.type # OFF => mode' # OFF
          /\ Begins(m.out, offsets')
          /\ m = Moment' \/ (~Ends(m)' /\ AfterMoment(m, Size)' \in moments')
  BY <1>5, <1>8, <1>13, <1>14
<1>16. \E d \in controls' : Same(d, Control')
  BY <1>2, <1>4
<1>17. /\ FirstMoment' \in moments' /\ Moment' \in moments'
       /\ maxTableCount' = Size' /\ Size' <= Len(prog')
  BY <1>1, <1>2, <1>8, <1>10, <1>12 DEF PassTwo
<1> QED BY <1>6, <1>15, <1>16, <1>17 DEF PassTwo, Begins, Same

\* The room left by d lines of at most l words each.
LEMMA RoomShrinks ==
  ASSUME NEW l \in Nat, NEW d \in 0 .. l - 1
  PROVE  /\ 2 * l * (l - d) \in Int
         /\ 2 * l * (l - (d + 1)) \in Nat
         /\ 2 * l * (l - d) = 2 * l * (l - (d + 1)) + 2 * l
<1> DEFINE k == l - (d + 1)
<1>1. k \in Nat /\ l - d = k + 1
  OBVIOUS
<1> HIDE DEF k
<1>2. \A a, b \in Nat : /\ 2 * a * b \in Nat /\ 2 * a * (b + 1) = 2 * a * b + 2 * a
                        /\ 2 * a * (b + 1) \in Int
  BY Z3
<1>3. l - (d + 1) = k
  BY DEF k
<1> QED BY ONLY <1>1, <1>2, <1>3, l \in Nat

\* In pass 3 no step leaves the room that its line has.
LEMMA RoomIsEnough ==
  ASSUME IInv, IInv', InAllPasses, Walks, pass # 1, StaysBelowEnd,
         maxTableCount' = Size, Size <= Len(prog),
         CurAddress + Room < WordRange, adrdisp + Room < WordRange
  PROVE  /\ CurAddress' + Room' < WordRange /\ adrdisp' + Room' < WordRange
         /\ phase = "parse" => CurAddress + 2 <= WordRange /\ adrdisp + 2 <= WordRange
<1> DEFINE L == Len(prog)
<1>1. /\ prog' = prog /\ Moment' = AfterMoment(Moment, Size)
      /\ phase \in {"line", "parse"} /\ phase' \in {"line", "parse"}
  BY WalkFacts
<1>2. /\ L \in Nat /\ pc \in 0 .. L /\ pc' \in 0 .. L /\ (phase = "parse" => pc \in 1 .. L)
      /\ CurAddress \in Nat /\ adrdisp \in Nat /\ Size \in Nat /\ WordRange \in Int
      /\ CurAddress' \in Nat /\ adrdisp' \in Nat
  <2>1. prog \in Seq(Lines) /\ offsetsPrevious \in Seq(Words)
    BY DEF IInv, TypeOK
  <2> QED BY <1>1, <2>1, LinesAssumption DEF IInv, TypeOK, Size
<1>3. /\ Moment'.adr = CurAddress' /\ Moment'.disp = adrdisp' /\ Moment'.pc = pc'
      /\ Moment'.phase = phase'
  BY DEF Moment, At
<1>4. CASE phase = "line"
  <2>1. Moment' = At(pc + 1, "parse", type, PseudoORG, CurAddress, adrdisp, offsets)
    BY <1>1, <1>4, PresentFields DEF AfterMoment
  <2>2. CurAddress' = CurAddress /\ adrdisp' = adrdisp /\ pc' = pc + 1 /\ phase' = "parse"
    BY <1>3, <2>1 DEF At
  <2>3. pc' - 1 = pc
    BY <1>2, <2>2
  <2>4. Room' = Room
    BY ONLY <1>1, <1>4, <2>2, <2>3 DEF Room
  <2> QED BY <1>4, <2>2, <2>4
<1>5. CASE phase = "parse"
  <2>1. /\ CurAddress' = ToAddress(Moment, Line, Size)
        /\ adrdisp' = ToDisplaced(Moment, Line, Size)
        /\ pc' = pc /\ phase' = "line"
    BY <1>1, <1>3, <1>5, PresentFields DEF AfterMoment, At
  <2> DEFINE d == pc - 1
             r == 2 * L * (L - d)
             s == 2 * L * (L - (d + 1))
  <2>2. d \in 0 .. L - 1 /\ d + 1 = pc
    BY <1>2, <1>5
  <2>3. r \in Int /\ s \in Nat /\ r = s + 2 * L
    <3> HIDE DEF d
    <3> QED BY <1>2, <2>2, RoomShrinks
  <2>4. Room = r
    BY <1>5 DEF Room
  <2>5. Room' = s
    <3>1. Room' = 2 * L * (L - pc)
      BY <1>1, <2>1 DEF Room
    <3>2. pc = d + 1
      BY <2>2
    <3> HIDE DEF d
    <3> QED BY ONLY <3>1, <3>2
  <2>6. L >= 1 /\ 0 <= Emits(Line, Size) /\ Emits(Line, Size) <= 2 * L
    BY <1>2, <2>2 DEF Emits
  <2>7. CASE Displaces(PseudoORG, Line)
    <3>1. Line.op = "DISP" /\ Line \in LineType
      BY <1>5, <2>7, LineIsTyped DEF Displaces, IInv
    <3>2. Line.addr \in Nat
      BY <3>1 DEF LineType
    <3>3. Line.addr + 2 * L * L < WordRange
      <4>1. pc \in 1 .. L
        BY <1>2, <1>5
      <4> QED BY <3>1, <4>1 DEF StaysBelowEnd, Line
    <3>4. s <= 2 * L * L
      <4>1. d + 1 \in 0 .. L /\ L - (d + 1) \in 0 .. L
        BY <1>2, <2>2
      <4>2. \A a \in Nat : \A b \in 0 .. a : 2 * a * b <= 2 * a * a
        BY Z3
      <4> HIDE DEF d
      <4> QED BY ONLY <1>2, <4>1, <4>2
    <3>5. 2 * L * L \in Int
      <4>1. \A a \in Nat : 2 * a * a \in Int
        OBVIOUS
      <4> QED BY ONLY <1>2, <4>1
    <3>6. CurAddress' = Line.addr /\ adrdisp' = CurAddress
      BY <2>1, <2>7, PresentFields DEF ToAddress, ToDisplaced
    <3> HIDE DEF r, s, L
    <3>7. CurAddress' + s < WordRange
      BY ONLY <1>2, <2>3, <3>2, <3>3, <3>4, <3>5, <3>6
    <3>8. adrdisp' + s < WordRange /\ CurAddress + 2 <= WordRange /\ adrdisp + 2 <= WordRange
      BY <1>2, <2>3, <2>4, <2>6, <3>6
    <3> QED BY <2>5, <3>7, <3>8
  <2>8. CASE ~Displaces(PseudoORG, Line)
    <3> DEFINE e == Emits(Line, Size)
    <3>0. e \in Int
      BY <1>2 DEF Emits
    <3>1. /\ CurAddress' = adrdisp \/ CurAddress' = CurAddress + e
          /\ adrdisp' = adrdisp \/ adrdisp' = adrdisp + e
      BY <2>1, <2>8, PresentFields DEF ToAddress, ToDisplaced
    <3>2. 0 <= e /\ e <= 2 * L
      BY <2>6
    <3>3. CurAddress + r < WordRange /\ adrdisp + r < WordRange
      BY <2>4
    <3> DEFINE k == 2 * L
    <3>4. k \in Int /\ 2 <= k /\ e <= k /\ r = s + k
      BY <1>2, <2>3, <2>6, <3>2
    <3>5. /\ CurAddress \in Int /\ adrdisp \in Int /\ WordRange \in Int /\ s \in Nat
      BY <1>2, <2>3
    <3> HIDE DEF r, s, e, k
    <3>6. CurAddress + 2 <= WordRange /\ adrdisp + 2 <= WordRange
      BY ONLY <3>3, <3>4, <3>5
    <3>7. CurAddress' + s < WordRange
      BY ONLY <3>0, <3>1, <3>2, <3>3, <3>4, <3>5
    <3>8. adrdisp' + s < WordRange
      BY ONLY <3>0, <3>1, <3>2, <3>3, <3>4, <3>5
    <3> QED BY <2>5, <3>6, <3>7, <3>8
  <2> QED BY <2>7, <2>8
<1> QED BY <1>1, <1>4, <1>5

\* The offset that pass 3 adds is the one the emitted table has.
LEMMA OffsetIsKnown ==
  ASSUME IInv, IInv', InAllPasses, Walks, phase = "parse", Collects(type, Line),
         Begins(offsets', offsetsPrevious),
         CurAddress + 2 <= WordRange, adrdisp + 2 <= WordRange
  PROVE  ~Differs(OffsetOf(Moment, Line))
<1> DEFINE o == OffsetOf(Moment, Line)
<1>1. offsets' = Append(offsets, o % WordRange) /\ offsets \in Seq(Words)
  BY OffsetsGrow, PresentFields DEF ToOffsets
<1>2. o \in 0 .. WordRange - 1
  <2>1. type - DeltaOf(type, Line) \in {0, 1}
    BY DEF IInv, TypeOK, Collects, DeltaOf, Least, OFF, REGULAR, HIGH
  <2>2. CurAddress \in Nat /\ adrdisp \in Nat /\ WordRange \in Nat /\ type \in Int
        /\ DeltaOf(type, Line) \in Int
    BY LinesAssumption DEF IInv, TypeOK, DeltaOf, OFF, REGULAR, HIGH
  <2> QED BY <2>1, <2>2, PresentFields DEF OffsetOf
<1> HIDE DEF o
<1>3. o % WordRange = o /\ o \in Words
  BY <1>2, LinesAssumption DEF Words
<1>4. /\ Len(offsets') = Len(offsets) + 1 /\ offsets'[Len(offsets) + 1] = o
      /\ Len(offsets) \in Nat
  BY <1>1, <1>3
<1>5. /\ Len(offsets) + 1 <= Len(offsetsPrevious)
      /\ offsetsPrevious[Len(offsets) + 1] = o
  BY <1>4 DEF Begins
<1>6. Len(offsetsPrevious) \in Nat
  BY DEF IInv, TypeOK
<1> QED BY <1>4, <1>5, <1>6 DEF Differs, o

\* A table of the size of the previous one is the previous one.
LEMMA TableIsPrevious ==
  ASSUME IInv, Begins(offsets, offsetsPrevious), NEW n, n = Size
  PROVE  [i \in 1 .. n |-> Entry(i)] = offsetsPrevious
<1> DEFINE t == [i \in 1 .. n |-> Entry(i)]
<1>1. offsets \in Seq(Words) /\ offsetsPrevious \in Seq(Words) /\ n \in Nat
  BY DEF IInv, TypeOK, Size
<1>2. DOMAIN offsetsPrevious = 1 .. n
  BY <1>1 DEF Size
<1>3. \A i \in 1 .. n : Entry(i) = offsetsPrevious[i]
  BY <1>1 DEF Entry, Begins
<1>4. t = [i \in 1 .. n |-> offsetsPrevious[i]]
  BY <1>3
<1>5. offsetsPrevious = [i \in DOMAIN offsetsPrevious |-> offsetsPrevious[i]]
  BY <1>1
<1> QED BY <1>2, <1>4, <1>5

\* A step of pass 3 stays on the moments of pass 2.
LEMMA PassThreeStep ==
  ASSUME IInv, IInv', InAllPasses, PassThree, pass = LASTPASS, Walks
  PROVE  PassThree'
<1>1. /\ Remember /\ UNCHANGED <<pass, offsetsPrevious, prog>>
      /\ phase \in {"line", "parse"} /\ phase' \in {"line", "parse"} /\ ~Ends(Moment)
      /\ Moment' = AfterMoment(Moment, maxTableCount')
      /\ maxTableCount' = maxTableCount \/ maxTableCount < Len(offsets)
      /\ inconsistent' => \/ inconsistent
                          \/ /\ phase = "parse" /\ Collects(type, Line)
                             /\ Differs(OffsetOf(Moment, Line))
      /\ tables' \subseteq tables \cup {[i \in 1 .. maxTableCount' |-> Entry(i)]}
  BY WalkFacts DEF LASTPASS
<1>2. UNCHANGED moments
  BY <1>1 DEF Remember, LASTPASS
<1>3. Moment \in moments /\ AfterMoment(Moment, Size) \in moments
      /\ Begins(offsets, offsetsPrevious)
  <2>1. Moment \in moments
    BY <1>1 DEF PassThree
  <2> QED BY <1>1, <2>1, PresentFields DEF PassThree, SameMoments
<1>4. Size \in Nat /\ Len(offsets) \in Nat /\ Len(offsets) <= Size
  BY <1>3 DEF IInv, TypeOK, Size, Begins
<1>5. maxTableCount' = Size /\ Size' = Size
  BY <1>1, <1>4 DEF PassThree, Size
<1>6. Moment' \in moments /\ Moment'.type = type' /\ Moment'.out = offsets'
  BY <1>1, <1>3, <1>5 DEF Moment, At
<1>7. /\ type' # OFF => mode # OFF
      /\ Begins(offsets', offsetsPrevious)
  BY <1>6 DEF PassThree, SameMoments
<1>8. mode' = mode
  BY <1>7, ModeStays
<1>9. /\ \A m : Ends(m)' = Ends(m)
      /\ \A m, n : AfterMoment(m, n)' = AfterMoment(m, n)
      /\ FirstMoment' = FirstMoment
  BY <1>1, <1>8, AfterIsSteady DEF FirstMoment, At
<1>10. SameMoments'
  <2>1. \A m \in moments' : /\ m.type # OFF => mode' # OFF
                            /\ Begins(m.out, offsetsPrevious')
                            /\ IF Ends(m)' THEN m.out = offsetsPrevious'
                               ELSE AfterMoment(m, Size)' \in moments'
    BY <1>1, <1>2, <1>5, <1>8, <1>9 DEF PassThree, SameMoments
  <2> QED BY <1>2, <1>9, <2>1 DEF PassThree, SameMoments, Begins
<1>11. \A t \in tables' : t = offsetsPrevious'
  <2>1. [i \in 1 .. maxTableCount' |-> Entry(i)] = offsetsPrevious
    BY <1>3, <1>5, TableIsPrevious
  <2> QED BY <1>1, <2>1 DEF PassThree
<1>12. StaysBelowEnd' => /\ CurAddress' + Room' < WordRange /\ adrdisp' + Room' < WordRange
                         /\ ~inconsistent'
  <2> SUFFICES ASSUME StaysBelowEnd'
               PROVE  /\ CurAddress' + Room' < WordRange /\ adrdisp' + Room' < WordRange
                      /\ ~inconsistent'
    OBVIOUS
  <2>1. StaysBelowEnd
    BY <1>1 DEF StaysBelowEnd
  <2>2. /\ CurAddress + Room < WordRange /\ adrdisp + Room < WordRange /\ ~inconsistent
        /\ Size <= Len(prog)
    BY <2>1 DEF PassThree
  <2>3. /\ CurAddress' + Room' < WordRange /\ adrdisp' + Room' < WordRange
        /\ phase = "parse" => CurAddress + 2 <= WordRange /\ adrdisp + 2 <= WordRange
    BY <1>5, <2>1, <2>2, RoomIsEnough DEF LASTPASS
  <2>4. ~inconsistent'
    BY <1>1, <1>7, <2>2, <2>3, OffsetIsKnown
  <2> QED BY <2>3, <2>4
<1>13. maxTableCount' = Size' /\ Size' <= Len(prog') /\ phase' # "exit" /\ Moment' \in moments'
  BY <1>1, <1>2, <1>5, <1>6 DEF PassThree
<1> QED BY <1>10, <1>11, <1>12, <1>13 DEF PassThree, StaysBelowEnd, Room

\* A pass starts at the first moment.
LEMMA PassStarts ==
  ASSUME IInv, NextPass
  PROVE  /\ phase = "line" /\ phase' = "line" /\ pc = Len(prog) /\ pass \in {1, 2}
         /\ pass' = pass + 1 /\ UNCHANGED <<prog, mode, inconsistent, tables>> /\ Remember
         /\ warnAboutContentChange' = warnAboutContentChange
         /\ offsetsPrevious' = offsets /\ maxTableCount' = Len(offsets)
         /\ CurAddress' = 0 /\ adrdisp' = 0 /\ pc' = 0
         /\ Same(FirstControl, Control') /\ Moment' = FirstMoment
         /\ Ends(Control) /\ Ends(Moment)
<1>1. /\ phase = "line" /\ pc = Len(prog) /\ pass < LASTPASS
      /\ offsetsPrevious' = offsets /\ offsets' = << >> /\ type' = OFF
      /\ maxTableCount' = Len(offsets)
      /\ UNCHANGED <<warnAboutContentChange, mode, prog, phase, inconsistent, tables>>
      /\ pass' = pass + 1 /\ pc' = 0
      /\ CurAddress' = 0 /\ adrdisp' = 0 /\ PseudoORG' = "DISP_NONE" /\ Remember
  BY DEF NextPass, InitPass
<1>2. pass \in {1, 2}
  BY <1>1 DEF IInv, TypeOK, Passes, LASTPASS
<1>3. Moment' = FirstMoment
  BY <1>1 DEF Moment, FirstMoment
<1>4. Control' = Ctl(0, "line", OFF, mode, "DISP_NONE", 0)
  <2>1. Len(offsets') = 0
    BY <1>1
  <2> QED BY <1>1, <2>1 DEF Control
<1>5. Same(FirstControl, Control')
  BY <1>4 DEF Same, FirstControl, Ctl
<1>6. Ends(Control) /\ Ends(Moment)
  BY <1>1, PresentFields DEF Ends
<1> QED BY <1>1, <1>2, <1>3, <1>5, <1>6

\* Pass 2 starts with the controls of pass 1, which end with its offsets.
LEMMA PassTwoStarts ==
  ASSUME IInv, InAllPasses, PassOne, pass = 1, NextPass
  PROVE  PassTwo'
<1>1. /\ phase = "line" /\ pc = Len(prog) /\ pass' = 2 /\ UNCHANGED <<prog, mode>> /\ Remember
      /\ offsetsPrevious' = offsets /\ maxTableCount' = Len(offsets)
      /\ Same(FirstControl, Control') /\ Moment' = FirstMoment /\ Ends(Control)
  BY PassStarts
<1>2. controls' = controls /\ moments' = {FirstMoment}
  BY <1>1 DEF Remember, PassOne
<1>3. Size' = Len(offsets) /\ Len(prog) \in Nat
  BY <1>1 DEF Size, IInv, TypeOK
<1>4. Len(offsets) <= Len(prog)
  BY <1>1 DEF PassOne
<1>5. ASSUME NEW c \in controls
      PROVE  /\ Sane(c)' /\ c.n <= Len(offsets)
             /\ IF Ends(c) THEN c.n = Len(offsets) ELSE AfterControl(c) \in controls
  <2>1. Sane(c) /\ c.n <= Len(offsets) /\ (c = Control \/ AfterControl(c) \in controls)
    BY DEF PassOne
  <2>2. Sane(c)'
    BY <1>1, <2>1 DEF Sane
  <2>3. ASSUME Ends(c) PROVE c.n = Len(offsets)
    <3>1. CASE c = Control
      BY <3>1, PresentFields
    <3>2. CASE AfterControl(c) \in controls
      <4>1. AfterControl(c).pc = Len(prog) + 1
        BY <2>3 DEF AfterControl, Ends, Ctl
      <4>2. AfterControl(c).pc \in 0 .. Len(prog)
        BY <3>2 DEF PassOne, Sane
      <4> QED BY <1>3, <4>1, <4>2
    <3> QED BY <2>1, <3>1, <3>2
  <2>4. ASSUME ~Ends(c) PROVE AfterControl(c) \in controls
    BY <1>1, <2>1, <2>4
  <2> QED BY <2>1, <2>2, <2>3, <2>4
<1>6. /\ \A c : Ends(c)' = Ends(c) /\ AfterControl(c)' = AfterControl(c)
      /\ FirstControl' = FirstControl /\ FirstMoment' = FirstMoment
  BY <1>1, AfterIsSteady DEF FirstControl, FirstMoment, Ctl, At
<1>7. SameControls'
  <2>1. \A c \in controls' : /\ Sane(c)' /\ c.n <= Size'
                             /\ IF Ends(c)' THEN c.n = Size' ELSE AfterControl(c)' \in controls'
    BY <1>2, <1>3, <1>5, <1>6
  <2>2. FirstControl' \in controls'
    BY <1>2, <1>6 DEF PassOne
  <2> QED BY <2>1, <2>2 DEF SameControls
<1>8. \E c \in controls' : Same(c, Control')
  BY <1>1, <1>2 DEF PassOne
<1>9. \A m \in moments' : /\ m.type # OFF => mode' # OFF
                          /\ Begins(m.out, offsets')
                          /\ m = Moment' \/ (~Ends(m)' /\ AfterMoment(m, Size)' \in moments')
  <2>1. FirstMoment.type = OFF /\ FirstMoment.out = << >>
    BY DEF FirstMoment, At
  <2>2. Begins(FirstMoment.out, offsets')
    <3>1. Moment'.out = offsets'
      BY DEF Moment, At
    <3>2. offsets' = << >>
      BY <1>1, <2>1, <3>1
    <3> QED BY <2>1, <3>2 DEF Begins
  <2> QED BY <1>1, <1>2, <2>1, <2>2
<1> QED BY <1>1, <1>2, <1>3, <1>4, <1>6, <1>7, <1>8, <1>9 DEF PassTwo, Same, Begins

\* Pass 3 starts with the moments of pass 2, whose tables had the size that
\* its own have.
LEMMA PassThreeStarts ==
  ASSUME IInv, InAllPasses, PassTwo, pass = 2, ~inconsistent, NextPass
  PROVE  PassThree'
<1>1. /\ phase' = "line" /\ pc' = 0 /\ pass' = 3 /\ Remember
      /\ UNCHANGED <<prog, mode, inconsistent, tables>>
      /\ offsetsPrevious' = offsets /\ maxTableCount' = Len(offsets)
      /\ CurAddress' = 0 /\ adrdisp' = 0 /\ Moment' = FirstMoment
      /\ Ends(Control) /\ Ends(Moment)
  BY PassStarts
<1>2. UNCHANGED moments
  BY <1>1 DEF Remember
<1>3. Len(offsets) = Size
  <2>1. PICK c \in controls : Same(c, Control)
    BY DEF PassTwo
  <2>2. Ends(c) /\ c.n = Len(offsets)
    BY <1>1, <2>1, PresentFields DEF Same, Ends
  <2> QED BY <2>2 DEF PassTwo, SameControls
<1>4. Size' = Size
  BY <1>1, <1>3 DEF Size
<1>5. /\ \A m : Ends(m)' = Ends(m)
      /\ \A m, n : AfterMoment(m, n)' = AfterMoment(m, n)
      /\ FirstMoment' = FirstMoment
  BY <1>1, AfterIsSteady DEF FirstMoment, At
<1>6. SameMoments'
  <2>1. ASSUME NEW m \in moments
        PROVE  /\ m.type # OFF => mode # OFF
               /\ Begins(m.out, offsets)
               /\ IF Ends(m) THEN m.out = offsets ELSE AfterMoment(m, Size) \in moments
    BY <1>1, PresentFields DEF PassTwo
  <2>2. \A m \in moments' : /\ m.type # OFF => mode' # OFF
                            /\ Begins(m.out, offsetsPrevious')
                            /\ IF Ends(m)' THEN m.out = offsetsPrevious'
                               ELSE AfterMoment(m, Size)' \in moments'
    BY <1>1, <1>2, <1>4, <1>5, <2>1
  <2> QED BY <1>2, <1>5, <2>2 DEF PassTwo, SameMoments, Begins
<1>7. tables' = {}
  <2>1. pass # LASTPASS
    BY DEF LASTPASS
  <2> QED BY <1>1, <2>1 DEF IInv, TablesAreWatched
<1>8. StaysBelowEnd' => Room' < WordRange
  <2>1. Len(prog) \in Nat
    BY DEF IInv, TypeOK
  <2>2. Room' = 2 * Len(prog) * Len(prog)
    <3>1. Room' = 2 * Len(prog) * (Len(prog) - 0)
      BY <1>1 DEF Room
    <3>2. Len(prog) - 0 = Len(prog)
      BY <2>1
    <3> QED BY ONLY <3>1, <3>2
  <2>3. StaysBelowEnd' => 2 * Len(prog) * Len(prog) < WordRange
    BY <1>1 DEF StaysBelowEnd
  <2> QED BY ONLY <2>2, <2>3
<1>9. Room' \in Int
  <2>1. Len(prog) \in Nat
    BY DEF IInv, TypeOK
  <2>2. Room' = 2 * Len(prog) * (Len(prog) - 0)
    BY <1>1 DEF Room
  <2> QED BY ONLY <2>1, <2>2
<1>10. StaysBelowEnd' => /\ CurAddress' + Room' < WordRange /\ adrdisp' + Room' < WordRange
                         /\ ~inconsistent'
  BY <1>1, <1>8, <1>9
<1>11. maxTableCount' = Size' /\ Size' <= Len(prog')
  BY <1>1, <1>3, <1>4 DEF PassTwo
<1>12. phase' # "exit" /\ Moment' \in moments'
  BY <1>1, <1>2 DEF PassTwo
<1> QED BY <1>6, <1>7, <1>10, <1>11, <1>12 DEF PassThree, StaysBelowEnd, Room

\* The last pass ends where pass 2 ended, with the same offsets.
LEMMA LastPassDoneStep ==
  ASSUME IInv, InAllPasses, PassThree, LastPassDone
  PROVE  PassThree'
<1>1. /\ phase = "line" /\ pc = Len(prog) /\ phase' = "exit"
      /\ UNCHANGED <<reloc, place, source, inconsistent, tables, ghosts>>
  BY DEF LastPassDone
<1>2. Ends(Moment) /\ Moment \in moments /\ Moment.out = offsets
  BY <1>1, PresentFields DEF Ends, PassThree
<1>3. offsets = offsetsPrevious
  BY <1>2 DEF PassThree, SameMoments
<1>4. /\ \A m : Ends(m)' = Ends(m)
      /\ \A m, n : AfterMoment(m, n)' = AfterMoment(m, n)
      /\ FirstMoment' = FirstMoment
  BY <1>1, AfterIsSteady DEF FirstMoment, At, source, reloc
<1>5. SameMoments'
  <2>1. \A m \in moments' : /\ m.type # OFF => mode' # OFF
                            /\ Begins(m.out, offsetsPrevious')
                            /\ IF Ends(m)' THEN m.out = offsetsPrevious'
                               ELSE AfterMoment(m, Size)' \in moments'
    BY <1>1, <1>4 DEF PassThree, SameMoments, reloc, ghosts, Size
  <2> QED BY <1>1, <1>4, <2>1 DEF PassThree, SameMoments, Begins, ghosts
<1>6. Room' = Room /\ StaysBelowEnd' = StaysBelowEnd
  BY <1>1 DEF Room, StaysBelowEnd, source
<1>7. /\ maxTableCount' = Size' /\ Size' <= Len(prog') /\ \A t \in tables' : t = offsetsPrevious'
      /\ offsets' = offsetsPrevious'
  BY <1>1, <1>3 DEF PassThree, reloc, source, Size
<1>8. StaysBelowEnd' => /\ CurAddress' + Room' < WordRange /\ adrdisp' + Room' < WordRange
                        /\ ~inconsistent'
  BY <1>1, <1>6 DEF PassThree, place
<1> QED BY <1>1, <1>5, <1>7, <1>8 DEF PassThree, StaysBelowEnd, Room

LEMMA InitSettled == Init => SettledInv
<1> SUFFICES ASSUME Init PROVE SettledInv
  OBVIOUS
<1>1. /\ Control = FirstControl /\ controls = {Control} /\ moments = {}
      /\ offsets = << >> /\ offsetsPrevious = << >> /\ phase = "line" /\ pc = 0
      /\ pass = 1 /\ ~warnAboutContentChange /\ ~inconsistent
      /\ type = OFF /\ mode = OFF /\ prog = << >>
  BY DEF Init, Control, FirstControl
<1>2. Sane(Control) /\ Control.n = 0
  BY <1>1, PresentFields DEF Sane
<1>3. PassOne
  BY <1>1, <1>2 DEF PassOne
<1> QED BY <1>1, <1>3 DEF SettledInv, LASTPASS

\* Before the last pass nothing is compared.
LEMMA EarlySteps ==
  ASSUME IInv, SettledInv, Next
  PROVE  pass' < LASTPASS => phase' # "exit" /\ ~warnAboutContentChange' /\ ~inconsistent'
<1> SUFFICES ASSUME pass' < LASTPASS
             PROVE  phase' # "exit" /\ ~warnAboutContentChange' /\ ~inconsistent'
  OBVIOUS
<1>1. pass \in 1 .. LASTPASS /\ LASTPASS = 3
  BY DEF IInv, TypeOK, Passes, LASTPASS
<1>2. CASE ReadLine
  BY <1>2 DEF ReadLine, SettledInv, reloc
<1>3. CASE ParseLine
  <2>1. phase' = "line" /\ pass' = pass /\ ~warnAboutContentChange /\ ~inconsistent
    BY <1>3 DEF ParseLine, source, SettledInv
  <2>2. ~warnAboutContentChange' /\ ~inconsistent'
    <3>1. CASE Data
      <4> DEFINE min == IF Line.op = "DB" THEN HIGH ELSE REGULAR
                 delta == deltaType(Line.expr)
      <4>1. resolveRelocationAffected(min, delta)
        BY <3>1 DEF Data
      <4> HIDE DEF min, delta
      <4>2. UNCHANGED <<inconsistent, warnAboutContentChange>>
            \/ addOffsetToRelocate(Address + type - delta)
        BY <4>1 DEF resolveRelocationAffected, Ignore, Complain
      <4>3. \A o : ~Differs(o)
        BY <2>1 DEF Differs
      <4>4. ASSUME NEW o, addOffsetToRelocate(o) PROVE ~warnAboutContentChange' /\ ~inconsistent'
        BY <2>1, <4>3, <4>4, Zenon DEF addOffsetToRelocate
      <4> QED BY <2>1, <4>2, <4>4
    <3>2. CASE dirRELOCATE_TABLE
      <4>1. pass # LASTPASS /\ inconsistent' = inconsistent
            /\ warnAboutContentChange' = (pass = LASTPASS)
        BY <1>1, <2>1, <3>2 DEF dirRELOCATE_TABLE
      <4> QED BY <2>1, <4>1
    <3>3. CASE dirRELOCATE_START \/ dirRELOCATE_END
      BY <2>1, <3>3 DEF dirRELOCATE_START, dirRELOCATE_END, Rejected, reloc
    <3>4. CASE DISP \/ ENT \/ Skipped
      <4>1. UNCHANGED reloc /\ UNCHANGED inconsistent
        BY <3>4 DEF DISP, ENT, Skipped, Rejected
      <4> QED BY <2>1, <4>1 DEF reloc
    <3> QED BY <1>3, <3>1, <3>2, <3>3, <3>4 DEF ParseLine
  <2> QED BY <2>1, <2>2
<1>4. CASE NextPass
  BY <1>1, <1>4, PassStarts DEF SettledInv
<1>5. CASE LastPassDone
  BY <1>1, <1>5 DEF LastPassDone, source
<1>6. CASE Exited
  BY <1>6 DEF Exited, vars, reloc, source, SettledInv
<1> QED BY <1>2, <1>3, <1>4, <1>5, <1>6 DEF Next

LEMMA NextSettled == IInv /\ IInv' /\ SettledInv /\ [Next]_vars => SettledInv'
<1> SUFFICES ASSUME IInv, IInv', SettledInv, [Next]_vars PROVE SettledInv'
  OBVIOUS
<1>1. pass \in {1, 2, 3} /\ pass' \in {1, 2, 3} /\ LASTPASS = 3
  BY DEF IInv, TypeOK, Passes, LASTPASS
<1>2. CASE UNCHANGED vars
  <2>1. UNCHANGED <<offsets, offsetsPrevious, maxTableCount, warnAboutContentChange, type, mode,
                    CurAddress, adrdisp, PseudoORG, pass, pc, prog, phase, inconsistent, tables,
                    controls, moments>>
    BY <1>2 DEF vars, reloc, place, source, ghosts
  <2>2. /\ \A m : Ends(m)' = Ends(m)
        /\ \A c : AfterControl(c)' = AfterControl(c) /\ Sane(c)' = Sane(c)
        /\ \A m, n : AfterMoment(m, n)' = AfterMoment(m, n)
        /\ FirstControl' = FirstControl /\ FirstMoment' = FirstMoment
        /\ Control' = Control /\ Moment' = Moment /\ Size' = Size
    BY <2>1, AfterIsSteady DEF Sane, FirstControl, FirstMoment, Control, Moment, Ctl, At, Size
  <2>3. PassOne => PassOne'
    BY <2>1, <2>2 DEF PassOne
  <2>4. SameControls => SameControls'
    BY <2>1, <2>2 DEF SameControls
  <2>5. PassTwo => PassTwo'
    BY <2>1, <2>2, <2>4 DEF PassTwo, Begins, Same
  <2>6. SameMoments => SameMoments'
    BY <2>1, <2>2 DEF SameMoments, Begins
  <2>7. Room' = Room /\ StaysBelowEnd' = StaysBelowEnd /\ InAllPasses' = InAllPasses
    BY <2>1 DEF Room, StaysBelowEnd, InAllPasses
  <2>8. PassThree => PassThree'
    BY <2>1, <2>2, <2>6, <2>7 DEF PassThree, StaysBelowEnd, Room
  <2> QED BY <2>1, <2>3, <2>5, <2>7, <2>8 DEF SettledInv
<1>3. CASE Next
  <2>1. pass' < LASTPASS => phase' # "exit" /\ ~warnAboutContentChange' /\ ~inconsistent'
    BY <1>3, EarlySteps
  <2>2. SUFFICES ASSUME InAllPasses'
                 PROVE  /\ pass' = 1 => PassOne'
                        /\ pass' = 2 => PassTwo'
                        /\ pass' = LASTPASS => PassThree'
    BY <2>1 DEF SettledInv
  <2>3. CASE Walks
    <3>1. UNCHANGED pass /\ InAllPasses
      <4>1. Len(prog) \in Nat /\ Len(prog') \in Nat /\ UNCHANGED pass
        BY <2>3 DEF IInv, TypeOK, Walks, ReadLine, ParseLine, source
      <4>2. Len(prog) <= Len(prog') /\ \A i \in 1 .. Len(prog) : prog'[i] = prog[i]
        <5>1. CASE prog' = prog
          BY <4>1, <5>1
        <5>2. CASE \E line \in Lines : prog' = Append(prog, line)
          <6>1. prog \in Seq(Lines)
            BY DEF IInv, TypeOK
          <6> QED BY <5>2, <6>1
        <5> QED BY <2>3, <5>1, <5>2 DEF Walks, ReadLine, ParseLine, source
      <4> QED BY <2>2, <4>1, <4>2, ProgramGrows
    <3>2. pass = 1 => PassOne'
      BY <2>3, <3>1, PassOneStep DEF SettledInv
    <3>3. pass = 2 => PassTwo'
      BY <2>3, <3>1, PassTwoStep DEF SettledInv
    <3>4. pass = LASTPASS => PassThree'
      BY <2>3, <3>1, PassThreeStep DEF SettledInv
    <3> QED BY <3>1, <3>2, <3>3, <3>4
  <2>4. CASE NextPass
    <3>1. pass \in {1, 2} /\ pass' = pass + 1 /\ prog' = prog
      BY <2>4, PassStarts
    <3>2. InAllPasses
      BY <2>2, <3>1 DEF InAllPasses
    <3>3. pass = 1 => PassTwo'
      BY <2>4, <3>2, PassTwoStarts DEF SettledInv
    <3>4. pass = 2 => PassThree'
      BY <1>1, <2>4, <3>2, PassThreeStarts DEF SettledInv
    <3> QED BY <1>1, <3>1, <3>3, <3>4
  <2>5. CASE LastPassDone
    <3>1. pass = LASTPASS /\ UNCHANGED <<pass, prog>>
      BY <2>5 DEF LastPassDone, source
    <3>2. InAllPasses
      BY <2>2, <3>1 DEF InAllPasses
    <3>3. PassThree'
      BY <2>5, <3>1, <3>2, LastPassDoneStep DEF SettledInv
    <3> QED BY <1>1, <3>1, <3>3
  <2>6. CASE Exited
    <3>1. SettledInv'
      BY <1>2, <2>6 DEF Exited
    <3> QED BY <2>2, <3>1 DEF SettledInv
  <2> QED BY <1>3, <2>3, <2>4, <2>5, <2>6 DEF Next, Walks
<1> QED BY <1>2, <1>3

\* Three passes are enough: a source with the same lines in every pass that
\* stays below the end of the word range never gets the warning, and each of
\* its tables is the list of the offsets of the last pass, wherever it stands
\* (Relocation::InitPass, dirRELOCATE_TABLE, addOffsetToRelocate).
THEOREM RelocTableThreePassesSuffice == Spec => []ThreePassesSuffice
<1>1. Spec => []SettledInv
  <2>1. IInv /\ [Next]_vars => IInv'
    BY ParseLinePreserves, NextPassPreserves, OtherStepsPreserve DEF Next
  <2> QED BY <2>1, InitSettled, NextSettled, InitIInv, PTL DEF Spec
<1>2. IInv /\ SettledInv => ThreePassesSuffice
  <2> SUFFICES ASSUME IInv, SettledInv, phase = "exit", StaysBelowEnd, InAllPasses
               PROVE  ~inconsistent /\ \A t \in tables : t = offsets
    BY DEF ThreePassesSuffice, InAllPasses
  <2>1. pass = LASTPASS
    BY DEF IInv, TypeOK, Passes, LASTPASS, SettledInv
  <2>2. PassThree
    BY <2>1 DEF SettledInv
  <2> QED BY <2>2 DEF PassThree
<1> QED BY <1>1, <1>2, RelocTableInvariant, PTL

=============================================================================
